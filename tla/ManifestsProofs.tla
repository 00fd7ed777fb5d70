--------------------------- MODULE ManifestsProofs ---------------------------
(***************************************************************************)
(* Theorems about the writers, for any schema of the files, any tree that  *)
(* keeps to it, any updates and any series of calls.                       *)
(***************************************************************************)
EXTENDS Manifests, SequenceTheorems, WellFoundedInduction, TLAPS

-----------------------------------------------------------------------------
(* Ways along paths. *)

\* Induction, with a set for the predicate.
LEMMA SetInduction ==
    ASSUME NEW S, 0 \in S, \A n \in Nat : n \in S => n + 1 \in S
    PROVE  Nat \subseteq S
<1> DEFINE T == Nat \ S
           Less == OpToRel(<, Nat)
<1>1. SUFFICES ASSUME T # {} PROVE FALSE
  OBVIOUS
<1>2. PICK x \in T : \A y \in T : <<y, x>> \notin Less
  BY <1>1, NatLessThanWellFounded, WFMin
<1>3. x \in Nat /\ x # 0 /\ x - 1 \in Nat /\ x - 1 < x
  OBVIOUS
<1>4. <<x - 1, x>> \in Less
  BY <1>3 DEF OpToRel
<1>5. x - 1 \in S
  BY <1>2, <1>3, <1>4
<1>6. QED
  BY <1>3, <1>5

-----------------------------------------------------------------------------
(* Looking at trees: what a way goes through. *)

\* A way obeys the recursion that defines it.
LEMMA WayRecurs ==
    ASSUME NEW root, NEW path \in Seq(STRING)
    PROVE  /\ DOMAIN Way(root, path) = 0 .. Len(path)
           /\ Way(root, path)[0] = root
           /\ \A i \in 1 .. Len(path) :
                 Way(root, path)[i] = FindOrCreate(Way(root, path)[i - 1], path[i])
<1> DEFINE Obeys(at, n) == at = [i \in 0 .. n |-> IF i = 0 THEN root
                                                  ELSE FindOrCreate(at[i - 1], path[i])]
           S == {n \in Nat : \E at : Obeys(at, n)}
<1>1. 0 \in S
  <2>1. Obeys([i \in 0 .. 0 |-> root], 0)
    OBVIOUS
  <2>2. QED
    BY <2>1
<1>2. ASSUME NEW n \in Nat, n \in S PROVE n + 1 \in S
  <2>1. PICK at : Obeys(at, n)
    BY <1>2
  <2> DEFINE on == [i \in 0 .. n + 1 |-> IF i <= n THEN at[i]
                                         ELSE FindOrCreate(at[n], path[n + 1])]
  <2>2. ASSUME NEW i \in 0 .. n + 1, i # 0
        PROVE  on[i] = FindOrCreate(on[i - 1], path[i])
    <3>1. i - 1 \in 0 .. n /\ on[i - 1] = at[i - 1]
      BY <2>2
    <3>2. CASE i <= n
      <4>1. i \in 0 .. n /\ on[i] = at[i] /\ at[i] = FindOrCreate(at[i - 1], path[i])
        BY <2>1, <2>2, <3>2
      <4>2. QED
        BY <3>1, <4>1
    <3>3. CASE i = n + 1
      <4>1. on[i] = FindOrCreate(at[n], path[n + 1]) /\ i - 1 = n
        BY <3>3
      <4>2. QED
        BY <3>1, <4>1, <3>3
    <3>4. QED
      BY <3>2, <3>3
  <2>3. on[0] = root /\ DOMAIN on = 0 .. n + 1
    BY <2>1
  <2>4. on = [i \in 0 .. n + 1 |-> on[i]]
    OBVIOUS
  <2> HIDE DEF on
  <2>5. Obeys(on, n + 1)
    BY <2>2, <2>3, <2>4
  <2>6. n + 1 \in Nat
    OBVIOUS
  <2> HIDE DEF Obeys
  <2>7. QED
    BY <2>5, <2>6
<1>3. Len(path) \in Nat
  OBVIOUS
<1>4. Len(path) \in S
  <2> HIDE DEF S
  <2>1. QED
    BY <1>1, <1>2, <1>3, SetInduction
<1>5. Way(root, path) = CHOOSE at : Obeys(at, Len(path))
  BY DEF Way
<1>6. \E at : Obeys(at, Len(path))
  BY <1>4
<1>7. Obeys(Way(root, path), Len(path))
  <2> HIDE DEF Obeys
  <2>1. QED
    BY <1>5, <1>6
<1>8. QED
  BY <1>3, <1>7

\* The first i keys are there.
There(root, path, i) == \A j \in 1 .. i : path[j] \in Keys(Way(root, path)[j - 1])

LEMMA EmptyNode ==
    /\ Empty.kind = "mapping" /\ Keys(Empty) = {}
    /\ \A k : FindOrCreate(Empty, k) = Empty
  BY DEF Empty, Mapping, Keys, FindOrCreate

LEMMA ThereBefore ==
    ASSUME NEW root, NEW path, NEW i \in Nat, NEW j \in 0 .. i, There(root, path, i)
    PROVE  There(root, path, j)
  BY DEF There

LEMMA ThereNext ==
    ASSUME NEW root, NEW path, NEW i \in Nat
    PROVE  There(root, path, i + 1)
              <=> There(root, path, i) /\ path[i + 1] \in Keys(Way(root, path)[i])
<1>1. \A j \in 1 .. i + 1 : j \in 1 .. i \/ j = i + 1
  OBVIOUS
<1>2. \A j \in 1 .. i : j \in 1 .. i + 1
  OBVIOUS
<1>3. i + 1 \in 1 .. i + 1 /\ (i + 1) - 1 = i
  OBVIOUS
<1>4. QED
  BY <1>1, <1>2, <1>3 DEF There

LEMMA ExistsIsThere ==
    ASSUME NEW root, NEW path
    PROVE  Exists(root, path) <=> There(root, path, Len(path))
  BY DEF Exists, There

\* What is not there is looked at as if it were an empty mapping.
LEMMA NotThere ==
    ASSUME NEW root, NEW path \in Seq(STRING), NEW i \in 0 .. Len(path), ~There(root, path, i)
    PROVE  Way(root, path)[i] = Empty
<1> DEFINE P(n) == n <= Len(path) /\ ~There(root, path, n) => Way(root, path)[n] = Empty
           S == {n \in Nat : P(n)}
<1>1. 0 \in S
  BY DEF There
<1>2. ASSUME NEW n \in Nat, n \in S PROVE n + 1 \in S
  <2>1. SUFFICES ASSUME n + 1 <= Len(path), ~There(root, path, n + 1)
                 PROVE  Way(root, path)[n + 1] = Empty
    OBVIOUS
  <2>2. n + 1 \in 1 .. Len(path) /\ n <= Len(path) /\ (n + 1) - 1 = n
    BY <2>1
  <2>3. Way(root, path)[n + 1] = FindOrCreate(Way(root, path)[n], path[n + 1])
    BY <2>2, WayRecurs
  <2>4. CASE There(root, path, n)
    BY <2>1, <2>3, <2>4, ThereNext DEF FindOrCreate
  <2>5. CASE ~There(root, path, n)
    BY <1>2, <2>2, <2>3, <2>5, EmptyNode
  <2>6. QED
    BY <2>4, <2>5
<1> HIDE DEF P
<1>3. i \in S
  <2> HIDE DEF S
  <2>1. i \in Nat
    OBVIOUS
  <2>2. QED
    BY <1>1, <1>2, <2>1, SetInduction
<1>4. i <= Len(path)
  OBVIOUS
<1>5. QED
  BY <1>3, <1>4 DEF P

\* Ways agree as far as their keys do.
LEMMA WaysAgree ==
    ASSUME NEW root, NEW p \in Seq(STRING), NEW q \in Seq(STRING),
           NEW n \in Nat, n <= Len(p), n <= Len(q), \A j \in 1 .. n : p[j] = q[j]
    PROVE  \A i \in 0 .. n : Way(root, p)[i] = Way(root, q)[i]
<1> DEFINE S == {i \in Nat : i <= n => Way(root, p)[i] = Way(root, q)[i]}
<1>1. 0 \in S
  BY WayRecurs
<1>2. ASSUME NEW i \in Nat, i \in S PROVE i + 1 \in S
  <2>1. SUFFICES ASSUME i + 1 <= n PROVE Way(root, p)[i + 1] = Way(root, q)[i + 1]
    OBVIOUS
  <2>2. i + 1 \in 1 .. Len(p) /\ i + 1 \in 1 .. Len(q) /\ (i + 1) - 1 = i /\ i <= n
    BY <2>1
  <2>3. /\ Way(root, p)[i + 1] = FindOrCreate(Way(root, p)[i], p[i + 1])
        /\ Way(root, q)[i + 1] = FindOrCreate(Way(root, q)[i], q[i + 1])
    BY <2>2, WayRecurs
  <2>4. p[i + 1] = q[i + 1] /\ Way(root, p)[i] = Way(root, q)[i]
    BY <1>2, <2>1, <2>2
  <2>5. QED
    BY <2>3, <2>4
<1>3. Nat \subseteq S
  <2> HIDE DEF S
  <2>1. QED
    BY <1>1, <1>2, SetInduction
<1>4. QED
  BY <1>3

\* The node at index i of a way is the node at the prefix of length i, and it
\* exists if the first i keys are there.
LEMMA NodeOnWay ==
    ASSUME NEW root, NEW path \in Seq(STRING), NEW i \in 0 .. Len(path)
    PROVE  /\ SubSeq(path, 1, i) \in Seq(STRING) /\ Len(SubSeq(path, 1, i)) = i
           /\ NodeAt(root, SubSeq(path, 1, i)) = Way(root, path)[i]
           /\ Exists(root, SubSeq(path, 1, i)) <=> There(root, path, i)
<1> DEFINE p == SubSeq(path, 1, i)
<1>1. \A j \in 1 .. i : path[j] \in STRING
  OBVIOUS
<1>2. p \in Seq(STRING) /\ Len(p) = i /\ \A j \in 1 .. i : p[j] = path[j]
  <2>1. /\ p \in Seq(STRING) /\ Len(p) = IF 1 <= i THEN i - 1 + 1 ELSE 0
        /\ \A j \in 1 .. i - 1 + 1 : p[j] = path[1 + j - 1]
    BY <1>1, SubSeqProperties
  <2>2. i - 1 + 1 = i /\ \A j \in 1 .. i : 1 + j - 1 = j
    OBVIOUS
  <2> HIDE DEF p
  <2>3. i \in Nat
    OBVIOUS
  <2>4. QED
    BY <2>1, <2>2, <2>3
<1> HIDE DEF p
<1>3. \A j \in 0 .. i : Way(root, p)[j] = Way(root, path)[j]
  BY <1>2, WaysAgree
<1>4. \A j \in 1 .. i : j - 1 \in 0 .. i
  OBVIOUS
<1>5. Exists(root, p) <=> There(root, path, i)
  BY <1>2, <1>3, <1>4 DEF Exists, There
<1>6. NodeAt(root, p) = Way(root, path)[i]
  BY <1>2, <1>3 DEF NodeAt
<1>7. QED
  BY <1>2, <1>5, <1>6 DEF p
-----------------------------------------------------------------------------
(* One update: what becomes of each place. *)

\* An update obeys the recursion that defines it: nodes are rebuilt from the
\* resources up to the root.
LEMMA UpdateRecurs ==
    ASSUME NEW root, NEW path \in Seq(STRING), NEW update
    PROVE  \E new : /\ UpdatedAt(root, path, update) = new[0]
                    /\ new[Len(path)] = WithSections(NodeAt(root, path), update)
                    /\ \A i \in 0 .. Len(path) - 1 :
                          new[i] = Put(Way(root, path)[i], path[i + 1], new[i + 1])
<1> DEFINE L   == Len(path)
           way == Way(root, path)
           Obeys(new, n) ==
              new = [i \in n .. L |-> IF i = L THEN WithSections(way[i], update)
                                      ELSE Put(way[i], path[i + 1], new[i + 1])]
           S == {n \in Nat : n <= L => \E new : Obeys(new, L - n)}
<1>1. L \in Nat
  OBVIOUS
<1> HIDE DEF way
<1>2. 0 \in S
  <2>1. Obeys([i \in L .. L |-> WithSections(way[i], update)], L - 0)
    BY <1>1
  <2> HIDE DEF Obeys
  <2>2. QED
    BY <2>1
<1>3. ASSUME NEW n \in Nat, n \in S PROVE n + 1 \in S
  <2>1. SUFFICES ASSUME n + 1 <= L PROVE \E new : Obeys(new, L - (n + 1))
    <3> HIDE DEF Obeys
    <3>1. QED
      OBVIOUS
  <2>2. PICK new : Obeys(new, L - n)
    <3> HIDE DEF Obeys
    <3>1. n <= L
      BY <1>1, <2>1
    <3>2. QED
      BY <1>3, <3>1
  <2>3. PICK m \in Nat : m = L - (n + 1)
    BY <1>1, <2>1
  <2>4. m + 1 = L - n /\ m < L /\ m + 1 <= L
    BY <1>1, <2>1, <2>3
  <2> DEFINE on == [i \in m .. L |-> IF i = m THEN Put(way[m], path[m + 1], new[m + 1])
                                     ELSE new[i]]
  <2>5. DOMAIN on = m .. L /\ on = [i \in m .. L |-> on[i]]
    OBVIOUS
  <2>6. \A i \in m + 1 .. L : on[i] = new[i]
    BY <2>4
  <2>7. on[m] = Put(way[m], path[m + 1], on[m + 1])
    BY <1>1, <2>4
  <2>8. ASSUME NEW i \in m + 1 .. L
        PROVE  on[i] = IF i = L THEN WithSections(way[i], update)
                       ELSE Put(way[i], path[i + 1], on[i + 1])
    <3>1. new[i] = IF i = L THEN WithSections(way[i], update)
                   ELSE Put(way[i], path[i + 1], new[i + 1])
      BY <2>2, <2>4
    <3>2. i # L => on[i + 1] = new[i + 1]
      BY <1>1, <2>4
    <3> HIDE DEF on
    <3>3. QED
      BY <2>6, <3>1, <3>2
  <2> HIDE DEF on
  <2>9. \A i \in m .. L : i = m \/ i \in m + 1 .. L
    BY <1>1
  <2>10. \A i \in m .. L :
            on[i] = IF i = L THEN WithSections(way[i], update)
                    ELSE Put(way[i], path[i + 1], on[i + 1])
    BY <2>4, <2>7, <2>8, <2>9
  <2>11. Obeys(on, m)
    BY <2>5, <2>10
  <2> HIDE DEF Obeys
  <2>12. QED
    BY <2>3, <2>11
<1> HIDE DEF Obeys
<1>4. L \in S
  <2> HIDE DEF S
  <2>1. QED
    BY <1>1, <1>2, <1>3, SetInduction
<1>5. \E new : Obeys(new, 0)
  BY <1>1, <1>4
<1>6. UpdatedAt(root, path, update) = (CHOOSE new : Obeys(new, 0))[0]
  BY DEF UpdatedAt, Obeys, way
<1>7. PICK new : Obeys(new, 0) /\ UpdatedAt(root, path, update) = new[0]
  BY <1>5, <1>6
<1>8. /\ new[L] = WithSections(way[L], update)
      /\ \A i \in 0 .. L - 1 : new[i] = Put(way[i], path[i + 1], new[i + 1])
  BY <1>1, <1>7 DEF Obeys
<1>9. QED
  BY <1>7, <1>8 DEF way, NodeAt

LEMMA PutKey ==
    ASSUME NEW node, NEW key, NEW child
    PROVE  /\ node.kind # "mapping" => Put(node, key, child) = node
           /\ node.kind = "mapping" =>
                /\ Put(node, key, child).kind = "mapping"
                /\ key \in Keys(Put(node, key, child))
                /\ FindOrCreate(Put(node, key, child), key) = child
                /\ \A k : k # key =>
                     /\ k \in Keys(Put(node, key, child)) <=> k \in Keys(node)
                     /\ FindOrCreate(Put(node, key, child), k) = FindOrCreate(node, k)
  BY DEF Put, Mapping, Keys, FindOrCreate

LEMMA SectionsKey ==
    ASSUME NEW node, NEW update
    PROVE  /\ node.kind # "mapping" => WithSections(node, update) = node
           /\ node.kind = "mapping" =>
                /\ WithSections(node, update).kind = "mapping"
                /\ \A s \in DOMAIN update.sections :
                     /\ s \in Keys(WithSections(node, update))
                     /\ FindOrCreate(WithSections(node, update), s) =
                           updateResourceSection(FindOrCreate(node, s), update.sections[s])
                /\ \A k : k \notin DOMAIN update.sections =>
                     /\ k \in Keys(WithSections(node, update)) <=> k \in Keys(node)
                     /\ FindOrCreate(WithSections(node, update), k) = FindOrCreate(node, k)
<1>1. CASE node.kind = "mapping"
  <2> DEFINE at == [s \in Keys(node) \cup DOMAIN update.sections |->
                      IF s \in DOMAIN update.sections
                      THEN updateResourceSection(FindOrCreate(node, s), update.sections[s])
                      ELSE node.at[s]]
  <2>1. WithSections(node, update) = [kind |-> "mapping", at |-> at]
    BY <1>1 DEF WithSections, Mapping
  <2>2. Keys(WithSections(node, update)) = Keys(node) \cup DOMAIN update.sections
    BY <2>1 DEF Keys
  <2>3. \A s \in Keys(node) \cup DOMAIN update.sections :
           FindOrCreate(WithSections(node, update), s) = at[s]
    BY <2>1, <2>2 DEF FindOrCreate
  <2>4. \A k : k \notin Keys(node) \cup DOMAIN update.sections =>
           FindOrCreate(WithSections(node, update), k) = Empty
    BY <2>2 DEF FindOrCreate
  <2>5. \A k \in Keys(node) : k \notin DOMAIN update.sections => at[k] = FindOrCreate(node, k)
    BY DEF FindOrCreate
  <2>6. \A s \in DOMAIN update.sections :
           at[s] = updateResourceSection(FindOrCreate(node, s), update.sections[s])
    OBVIOUS
  <2> HIDE DEF at
  <2>7. \A k : k \notin DOMAIN update.sections =>
           FindOrCreate(WithSections(node, update), k) = FindOrCreate(node, k)
    BY <2>3, <2>4, <2>5 DEF FindOrCreate
  <2>8. QED
    BY <1>1, <2>1, <2>2, <2>3, <2>6, <2>7
<1>2. CASE node.kind # "mapping"
  BY <1>2 DEF WithSections
<1>3. QED
  BY <1>1, <1>2

LEMMA SectionKey ==
    ASSUME NEW node, NEW values
    PROVE  /\ node.kind # "mapping" => updateResourceSection(node, values) = node
           /\ node.kind = "mapping" =>
                /\ updateResourceSection(node, values).kind = "mapping"
                /\ \A r \in DOMAIN values :
                     /\ r \in Keys(updateResourceSection(node, values))
                     /\ FindOrCreate(updateResourceSection(node, values), r) =
                           updateScalarValue(node, r, values[r])
                /\ \A k : k \notin DOMAIN values =>
                     /\ k \in Keys(updateResourceSection(node, values)) <=> k \in Keys(node)
                     /\ FindOrCreate(updateResourceSection(node, values), k)
                           = FindOrCreate(node, k)
<1>1. CASE node.kind = "mapping"
  <2> DEFINE new == updateResourceSection(node, values)
             at  == [r \in Keys(node) \cup DOMAIN values |->
                       IF r \in DOMAIN values THEN updateScalarValue(node, r, values[r])
                       ELSE node.at[r]]
  <2>1. new = [kind |-> "mapping", at |-> at]
    BY <1>1 DEF updateResourceSection, Mapping
  <2>2. Keys(new) = Keys(node) \cup DOMAIN values
    <3> HIDE DEF new
    <3>1. QED
      BY <2>1 DEF Keys
  <2>3. \A r \in Keys(node) \cup DOMAIN values : FindOrCreate(new, r) = at[r]
    <3> HIDE DEF new
    <3>1. QED
      BY <2>1, <2>2 DEF FindOrCreate
  <2>4. \A k : k \notin Keys(node) \cup DOMAIN values => FindOrCreate(new, k) = Empty
    <3> HIDE DEF new
    <3>1. QED
      BY <2>2 DEF FindOrCreate
  <2>5. \A k \in Keys(node) : k \notin DOMAIN values => at[k] = FindOrCreate(node, k)
    BY DEF FindOrCreate
  <2>6. \A r \in DOMAIN values : at[r] = updateScalarValue(node, r, values[r])
    OBVIOUS
  <2>7. new.kind = "mapping"
    BY <2>1
  <2> HIDE DEF at, new
  <2>8. \A k : k \notin DOMAIN values => FindOrCreate(new, k) = FindOrCreate(node, k)
    BY <2>3, <2>4, <2>5 DEF FindOrCreate
  <2>9. QED
    BY <1>1, <2>2, <2>3, <2>6, <2>7, <2>8 DEF new
<1>2. CASE node.kind # "mapping"
  BY <1>2 DEF updateResourceSection
<1>3. QED
  BY <1>1, <1>2

\* The first i keys of q are those of a quantity that an update of these sections
\* at the path writes, or lead to it.
OnTrack(q, i, path, sections) ==
    /\ \A j \in 1 .. i : j <= Len(path) => q[j] = path[j]
    /\ i > Len(path) => q[Len(path) + 1] \in DOMAIN sections
    /\ i > Len(path) + 1 => q[Len(path) + 2] \in DOMAIN sections[q[Len(path) + 1]]

\* The nodes above index i are mappings.
Open(root, q, i) == \A j \in 0 .. i - 1 : Way(root, q)[j].kind = "mapping"

\* What an update makes of the node n that is at index i of the way q.
Turned(n, new, q, i, path, update) ==
    /\ i < Len(path) => \E child : new = Put(n, path[i + 1], child)
    /\ i = Len(path) => new = WithSections(n, update)
    /\ i = Len(path) + 1 => new = updateResourceSection(n, update.sections[q[i]])

\* Along any way: as long as it is the way to a quantity that is written, and
\* through mappings, its nodes are turned into others; elsewhere nothing changes.
LEMMA UpdatedWay ==
    ASSUME NEW root, NEW path \in Seq(STRING), NEW update, NEW q \in Seq(STRING),
           ~(Len(q) > Len(path) + 2 /\ OnTrack(q, Len(path) + 2, path, update.sections)),
           NEW i \in 0 .. Len(q)
    PROVE  LET b   == UpdatedAt(root, path, update)
               old == Way(root, q)[i]
               new == Way(b, q)[i]
           IN  /\ OnTrack(q, i, path, update.sections) /\ Open(root, q, i) =>
                    /\ There(b, q, i)
                    /\ Turned(old, new, q, i, path, update)
                    /\ i = Len(path) + 2 =>
                          new = updateScalarValue(Way(root, q)[i - 1], q[i],
                                                  update.sections[q[i - 1]][q[i]])
               /\ ~(OnTrack(q, i, path, update.sections) /\ Open(root, q, i)) =>
                    /\ new = old
                    /\ There(b, q, i) <=> There(root, q, i)
                    /\ OnTrack(q, i, path, update.sections) => ~Open(b, q, i)
<1> DEFINE b    == UpdatedAt(root, path, update)
           L    == Len(path)
           wq   == Way(root, q)
           nq   == Way(b, q)
           way  == Way(root, path)
           On(n) == OnTrack(q, n, path, update.sections)
<1>1. PICK new : /\ b = new[0]
                 /\ new[L] = WithSections(way[L], update)
                 /\ \A n \in 0 .. L - 1 : new[n] = Put(way[n], path[n + 1], new[n + 1])
  BY UpdateRecurs DEF NodeAt
<1>2. L \in Nat /\ Len(q) \in Nat
  OBVIOUS
<1>3. /\ wq[0] = root /\ nq[0] = b /\ way[0] = root
      /\ \A n \in 1 .. Len(q) : wq[n] = FindOrCreate(wq[n - 1], q[n])
      /\ \A n \in 1 .. Len(q) : nq[n] = FindOrCreate(nq[n - 1], q[n])
      /\ \A n \in 1 .. L : way[n] = FindOrCreate(way[n - 1], path[n])
  BY WayRecurs
<1>4. ~(Len(q) > L + 2 /\ On(L + 2))
  OBVIOUS
<1> HIDE DEF b, wq, nq, way, L
<1> DEFINE Same(n) == nq[n] = wq[n] /\ (There(b, q, n) <=> There(root, q, n))
           Led(n)  == /\ There(b, q, n)
                      /\ n <= L => nq[n] = new[n] /\ wq[n] = way[n]
                      /\ n = L + 1 => nq[n] = updateResourceSection(wq[n], update.sections[q[n]])
                      /\ n = L + 2 => nq[n] = updateScalarValue(wq[n - 1], q[n],
                                                    update.sections[q[n - 1]][q[n]])
           P(n) == /\ On(n) /\ Open(root, q, n) => Led(n)
                   /\ ~(On(n) /\ Open(root, q, n)) =>
                         Same(n) /\ (On(n) => ~Open(b, q, n))
           S == {n \in Nat : n <= Len(q) => P(n)}
<1>5. ASSUME NEW n \in Nat
      PROVE  /\ Open(root, q, n + 1) <=> Open(root, q, n) /\ wq[n].kind = "mapping"
             /\ Open(b, q, n + 1) <=> Open(b, q, n) /\ nq[n].kind = "mapping"
  <2>1. \A j \in 0 .. (n + 1) - 1 : j \in 0 .. n - 1 \/ j = n
    OBVIOUS
  <2>2. n \in 0 .. (n + 1) - 1 /\ \A j \in 0 .. n - 1 : j \in 0 .. (n + 1) - 1
    OBVIOUS
  <2>3. QED
    BY <2>1, <2>2 DEF Open, wq, nq
<1>6. ASSUME NEW n \in Nat
      PROVE  On(n + 1) <=> /\ On(n)
                           /\ n < L => q[n + 1] = path[n + 1]
                           /\ n = L => q[n + 1] \in DOMAIN update.sections
                           /\ n = L + 1 => q[n + 1] \in DOMAIN update.sections[q[n]]
  <2>1. \A j \in 1 .. n + 1 : j \in 1 .. n \/ j = n + 1
    OBVIOUS
  <2>2. n + 1 \in 1 .. n + 1 /\ \A j \in 1 .. n : j \in 1 .. n + 1
    OBVIOUS
  <2>3. (\A j \in 1 .. n + 1 : j <= L => q[j] = path[j])
           <=> (\A j \in 1 .. n : j <= L => q[j] = path[j]) /\ (n < L => q[n + 1] = path[n + 1])
    BY <1>2, <2>1, <2>2
  <2>4. /\ n + 1 > L <=> (n > L \/ n = L)
        /\ n + 1 > L + 1 <=> (n > L + 1 \/ n = L + 1)
        /\ n = L => L + 1 = n + 1
        /\ n = L + 1 => L + 2 = n + 1 /\ L + 1 = n
    BY <1>2
  <2>5. QED
    BY <2>3, <2>4 DEF OnTrack, L
<1>7. 0 \in S
  <2>1. On(0) /\ Open(root, q, 0) /\ There(b, q, 0)
    BY <1>2 DEF OnTrack, Open, There, L
  <2>2. Led(0)
    BY <1>1, <1>2, <1>3, <2>1
  <2> HIDE DEF Led, On
  <2>3. QED
    BY <2>1, <2>2
<1>8. ASSUME NEW n \in Nat, n \in S PROVE n + 1 \in S
  <2>1. SUFFICES ASSUME n + 1 <= Len(q) PROVE P(n + 1)
    <3> HIDE DEF P
    <3>1. QED
      OBVIOUS
  <2>2. P(n)
    <3> HIDE DEF P
    <3>1. QED
      BY <1>2, <1>8, <2>1
  <2>3. /\ wq[n + 1] = FindOrCreate(wq[n], q[n + 1])
        /\ nq[n + 1] = FindOrCreate(nq[n], q[n + 1])
    <3>1. n + 1 \in 1 .. Len(q) /\ (n + 1) - 1 = n
      BY <2>1
    <3>2. QED
      BY <1>3, <3>1
  <2>4. /\ There(b, q, n + 1) <=> There(b, q, n) /\ q[n + 1] \in Keys(nq[n])
        /\ There(root, q, n + 1) <=> There(root, q, n) /\ q[n + 1] \in Keys(wq[n])
    BY ThereNext DEF nq, wq
  <2>5. ~There(root, q, n) => q[n + 1] \notin Keys(wq[n])
    <3>1. n \in 0 .. Len(q)
      BY <2>1, <1>2
    <3>2. QED
      BY <3>1, NotThere, EmptyNode DEF wq
  <2> HIDE DEF On
  <2>6. CASE ~(On(n) /\ Open(root, q, n))
    <3>1. Same(n) /\ (On(n) => ~Open(b, q, n))
      BY <2>2, <2>6
    <3>2. ~(On(n + 1) /\ Open(root, q, n + 1))
      BY <1>5, <1>6, <2>6
    <3>3. Same(n + 1)
      BY <2>3, <2>4, <3>1
    <3>4. On(n + 1) => ~Open(b, q, n + 1)
      BY <1>5, <1>6, <3>1
    <3> HIDE DEF Same, Led
    <3>5. QED
      BY <3>2, <3>3, <3>4
  <2>7. CASE On(n) /\ Open(root, q, n)
    <3>1. Led(n)
      <4> HIDE DEF Led, Same
      <4>1. QED
        BY <2>2, <2>7
    <3>2. n <= L + 1 \/ n = L + 2
      <4>1. CASE n > L + 2
        <5>1. Len(q) > L + 2
          BY <1>2, <2>1, <4>1
        <5>2. On(L + 2)
          BY <1>2, <2>7, <4>1 DEF On, OnTrack, L
        <5>3. QED
          BY <1>4, <5>1, <5>2
      <4>2. QED
        BY <4>1, <1>2
    <3>3. ~(n = L + 2)
      <4>1. SUFFICES ASSUME n = L + 2 PROVE FALSE
        OBVIOUS
      <4>2. Len(q) > L + 2
        BY <1>2, <2>1, <4>1
      <4>3. QED
        BY <1>4, <2>7, <4>1, <4>2
    <3>4. n < L \/ n = L \/ n = L + 1
      BY <1>2, <3>2, <3>3
    <3>4a. /\ n < L => (On(n + 1) <=> q[n + 1] = path[n + 1])
           /\ n = L => (On(n + 1) <=> q[n + 1] \in DOMAIN update.sections)
           /\ n = L + 1 => (On(n + 1) <=> q[n + 1] \in DOMAIN update.sections[q[n]])
      <4>1. /\ n < L => ~(n = L) /\ ~(n = L + 1)
            /\ n = L => ~(n < L) /\ ~(n = L + 1)
            /\ n = L + 1 => ~(n < L) /\ ~(n = L)
        BY <1>2
      <4>2. On(n + 1) <=> /\ On(n)
                          /\ n < L => q[n + 1] = path[n + 1]
                          /\ n = L => q[n + 1] \in DOMAIN update.sections
                          /\ n = L + 1 => q[n + 1] \in DOMAIN update.sections[q[n]]
        BY <1>6
      <4>3. QED
        BY <2>7, <4>1, <4>2
    <3>5. /\ n < L => /\ nq[n] = Put(wq[n], path[n + 1], new[n + 1])
                      /\ q[n + 1] = path[n + 1] => wq[n + 1] = way[n + 1]
          /\ n = L => nq[n] = WithSections(wq[n], update)
          /\ n = L + 1 => nq[n] = updateResourceSection(wq[n], update.sections[q[n]])
      <4>1. ASSUME n < L
            PROVE  /\ nq[n] = Put(wq[n], path[n + 1], new[n + 1])
                   /\ q[n + 1] = path[n + 1] => wq[n + 1] = way[n + 1]
        <5>1. n \in 0 .. L - 1 /\ n + 1 \in 1 .. L /\ (n + 1) - 1 = n /\ n <= L
          BY <1>2, <4>1
        <5>2. QED
          BY <1>1, <1>3, <2>3, <3>1, <5>1
      <4>2. n = L => n <= L
        BY <1>2
      <4>3. QED
        BY <1>1, <3>1, <4>1, <4>2
    <3>6. There(b, q, n)
      BY <3>1
    <3>7. CASE wq[n].kind # "mapping"
      <4>1. nq[n] = wq[n]
        BY <3>4, <3>5, <3>7, PutKey, SectionsKey, SectionKey
      <4>2. Same(n + 1)
        BY <2>3, <2>4, <3>7, <4>1 DEF Keys
      <4>3. ~Open(root, q, n + 1) /\ ~Open(b, q, n + 1)
        BY <1>5, <3>7, <4>1
      <4> HIDE DEF Same, Led
      <4>4. QED
        BY <4>2, <4>3
    <3>8. CASE wq[n].kind = "mapping" /\ ~On(n + 1)
      <4>1. /\ q[n + 1] \in Keys(nq[n]) <=> q[n + 1] \in Keys(wq[n])
            /\ nq[n + 1] = wq[n + 1]
        <5>1. CASE n < L
          <6>1. q[n + 1] # path[n + 1]
            BY <3>4a, <3>8, <5>1
          <6>2. QED
            BY <2>3, <3>5, <3>8, <5>1, <6>1, PutKey
        <5>2. CASE n = L
          <6>1. q[n + 1] \notin DOMAIN update.sections
            BY <3>4a, <3>8, <5>2
          <6>2. QED
            BY <2>3, <3>5, <3>8, <5>2, <6>1, SectionsKey
        <5>3. CASE n = L + 1
          <6>1. q[n + 1] \notin DOMAIN update.sections[q[n]]
            BY <3>4a, <3>8, <5>3
          <6>2. QED
            BY <2>3, <3>5, <3>8, <5>3, <6>1, SectionKey
        <5>4. QED
          BY <3>4, <5>1, <5>2, <5>3
      <4>2. Same(n + 1)
        BY <2>4, <2>5, <3>6, <4>1
      <4> HIDE DEF Same, Led
      <4>3. QED
        BY <3>8, <4>2
    <3>9. CASE wq[n].kind = "mapping" /\ On(n + 1)
      <4>1. On(n + 1) /\ Open(root, q, n + 1)
        BY <1>5, <2>7, <3>9
      <4>2. Led(n + 1)
        <5>1. CASE n < L
          <6>1. q[n + 1] = path[n + 1] /\ n + 1 <= L
            BY <1>2, <3>4a, <3>9, <5>1
          <6>2. nq[n + 1] = new[n + 1] /\ q[n + 1] \in Keys(nq[n]) /\ wq[n + 1] = way[n + 1]
            BY <2>3, <3>5, <3>9, <5>1, <6>1, PutKey
          <6>3. ~(n + 1 = L + 1) /\ ~(n + 1 = L + 2)
            BY <1>2, <5>1
          <6>4. QED
            BY <2>4, <3>6, <6>1, <6>2, <6>3
        <5>2. CASE n = L
          <6>1. q[n + 1] \in DOMAIN update.sections
            BY <3>4a, <3>9, <5>2
          <6>2. /\ nq[n + 1] = updateResourceSection(wq[n + 1], update.sections[q[n + 1]])
                /\ q[n + 1] \in Keys(nq[n])
            BY <2>3, <3>5, <3>9, <5>2, <6>1, SectionsKey
          <6>3. ~(n + 1 <= L) /\ ~(n + 1 = L + 2)
            BY <1>2, <5>2
          <6>4. QED
            BY <2>4, <3>6, <6>2, <6>3
        <5>3. CASE n = L + 1
          <6>1. q[n + 1] \in DOMAIN update.sections[q[n]]
            BY <3>4a, <3>9, <5>3
          <6>2. /\ nq[n + 1] = updateScalarValue(wq[n], q[n + 1],
                                                 update.sections[q[n]][q[n + 1]])
                /\ q[n + 1] \in Keys(nq[n])
            BY <2>3, <3>5, <3>9, <5>3, <6>1, SectionKey
          <6>3. ~(n + 1 <= L) /\ ~(n + 1 = L + 1) /\ (n + 1) - 1 = n
            BY <1>2, <5>3
          <6>4. QED
            BY <2>4, <3>6, <6>2, <6>3
        <5>4. QED
          BY <3>4, <5>1, <5>2, <5>3
      <4> HIDE DEF Same, Led
      <4>3. QED
        BY <4>1, <4>2
    <3> HIDE DEF P
    <3>10. QED
      BY <3>7, <3>8, <3>9
  <2> HIDE DEF P
  <2>8. QED
    BY <2>6, <2>7
<1>9. i \in S /\ i <= Len(q) /\ i \in Nat
  <2> HIDE DEF S
  <2>1. i \in Nat
    OBVIOUS
  <2>2. QED
    BY <1>7, <1>8, <2>1, SetInduction
<1>10. P(i)
  <2> HIDE DEF P
  <2>1. QED
    BY <1>9
<1>11. Led(i) => Turned(wq[i], nq[i], q, i, path, update)
  <2>1. ASSUME i < L, nq[i] = new[i], wq[i] = way[i]
        PROVE  \E child : nq[i] = Put(wq[i], path[i + 1], child)
    <3>1. i \in 0 .. L - 1
      BY <1>2, <1>9, <2>1
    <3>2. nq[i] = Put(wq[i], path[i + 1], new[i + 1])
      BY <1>1, <2>1, <3>1
    <3>3. QED
      BY <3>2
  <2>2. (i < L => i <= L) /\ (i = L => i <= L)
    BY <1>2, <1>9
  <2>3. QED
    BY <1>1, <2>1, <2>2 DEF Turned, L
<1>12. QED
  <2>1. CASE OnTrack(q, i, path, update.sections) /\ Open(root, q, i)
    <3>1. Led(i)
      <4> HIDE DEF Led, Same
      <4>1. QED
        BY <1>10, <2>1 
    <3>2. Turned(wq[i], nq[i], q, i, path, update)
      <4> HIDE DEF Led
      <4>1. QED
        BY <1>11, <3>1
    <3>3. QED
      BY <2>1, <3>1, <3>2 DEF b, wq, nq, L
  <2>2. CASE ~(OnTrack(q, i, path, update.sections) /\ Open(root, q, i))
    <3>1. Same(i) /\ (OnTrack(q, i, path, update.sections) => ~Open(b, q, i))
      <4> HIDE DEF Led, Same
      <4>1. QED
        BY <1>10, <2>2
    <3>2. QED
      BY <2>2, <3>1 DEF b, wq, nq
  <2>3. QED
    BY <2>1, <2>2

-----------------------------------------------------------------------------
(* Places. *)

LEMMA PlacesFacts ==
    /\ Places \subseteq Seq(STRING)
    /\ Leaves \subseteq Places
    /\ \A q \in Places : \A i \in 0 .. Len(q) : SubSeq(q, 1, i) \in Places
<1>1. ASSUME NEW p \in Leaves, NEW i \in 0 .. Len(p)
      PROVE  /\ p \in Seq(STRING) /\ SubSeq(p, 1, i) \in Seq(STRING)
             /\ Len(SubSeq(p, 1, i)) = i /\ \A j \in 1 .. i : SubSeq(p, 1, i)[j] = p[j]
  <2>1. p \in Seq(STRING)
    BY LeavesAssumption
  <2>2. QED
    BY <2>1
<1>2. \A p \in Leaves : p \in Seq(STRING) /\ SubSeq(p, 1, Len(p)) = p
  BY LeavesAssumption, SubSeqFull
<1>3. Leaves \subseteq Places
  <2>1. ASSUME NEW p \in Leaves PROVE p \in Places
    <3>1. Len(p) \in 0 .. Len(p)
      BY <1>2
    <3>2. QED
      BY <1>2, <3>1 DEF Places
  <2>2. QED
    BY <2>1
<1>4. ASSUME NEW q \in Places
      PROVE  q \in Seq(STRING) /\ \A i \in 0 .. Len(q) : SubSeq(q, 1, i) \in Places
  <2>1. PICK p \in Leaves : \E n \in 0 .. Len(p) : q = SubSeq(p, 1, n)
    BY DEF Places
  <2>1a. PICK n \in 0 .. Len(p) : q = SubSeq(p, 1, n)
    BY <2>1
  <2>2. q \in Seq(STRING) /\ Len(q) = n /\ \A j \in 1 .. n : q[j] = p[j]
    BY <1>1, <2>1a
  <2>3. ASSUME NEW i \in 0 .. Len(q) PROVE SubSeq(q, 1, i) \in Places
    <3>1. i \in 0 .. Len(p) /\ n \in Nat
      BY <1>2, <2>2
    <3>2. /\ SubSeq(p, 1, i) \in Seq(STRING) /\ Len(SubSeq(p, 1, i)) = i
          /\ \A j \in 1 .. i : SubSeq(p, 1, i)[j] = p[j]
      BY <1>1, <3>1
    <3>3. /\ SubSeq(q, 1, i) \in Seq(STRING) /\ Len(SubSeq(q, 1, i)) = i
          /\ \A j \in 1 .. i : SubSeq(q, 1, i)[j] = q[j]
      BY <2>2
    <3>4. \A j \in 1 .. i : SubSeq(q, 1, i)[j] = SubSeq(p, 1, i)[j]
      BY <2>2, <3>2, <3>3
    <3>5. SubSeq(q, 1, i) = SubSeq(p, 1, i)
      BY <3>2, <3>3, <3>4, SeqEqual
    <3>6. QED
      BY <3>1, <3>5 DEF Places
  <2>4. QED
    BY <2>2, <2>3
<1>5. QED
  BY <1>3, <1>4

\* A file has no place below a leaf.
LEMMA NothingBelow ==
    ASSUME NEW p \in Leaves, NEW q \in Places, Len(p) < Len(q),
           \A j \in 1 .. Len(p) : q[j] = p[j]
    PROVE  FALSE
<1>1. PICK l \in Leaves : \E n \in 0 .. Len(l) : q = SubSeq(l, 1, n)
  BY DEF Places
<1>1a. PICK n \in 0 .. Len(l) : q = SubSeq(l, 1, n)
  BY <1>1
<1>2. p \in Seq(STRING) /\ l \in Seq(STRING)
  BY LeavesAssumption
<1>3. Len(q) = n /\ \A j \in 1 .. n : q[j] = l[j]
  BY <1>1a, <1>2
<1>4. Len(p) \in Nat /\ Len(l) \in Nat /\ Len(p) < Len(l) /\ \A j \in 1 .. Len(p) : j \in 1 .. n
  BY <1>2, <1>3
<1>5. /\ SubSeq(l, 1, Len(p)) \in Seq(STRING) /\ Len(SubSeq(l, 1, Len(p))) = Len(p)
      /\ \A j \in 1 .. Len(p) : SubSeq(l, 1, Len(p))[j] = l[j]
  BY <1>2, <1>4
<1>6. SubSeq(l, 1, Len(p)) = p
  BY <1>2, <1>3, <1>4, <1>5, SeqEqual
<1>7. QED
  BY <1>4, <1>6, LeavesAssumption

\* The place of a quantity.
Spot(path, s, r) == path \o <<s, r>>

LEMMA QuantityPlace ==
    ASSUME NEW path \in Homes, NEW s \in Sections, NEW r \in Resources
    PROVE  /\ path \in Places /\ path \in Seq(STRING)
           /\ Spot(path, s, r) \in Leaves /\ Spot(path, s, r) \in Seq(STRING)
           /\ Len(Spot(path, s, r)) = Len(path) + 2
           /\ \A j \in 1 .. Len(path) : Spot(path, s, r)[j] = path[j]
           /\ Spot(path, s, r)[Len(path) + 1] = s /\ Spot(path, s, r)[Len(path) + 2] = r
<1>1. path \in Places /\ path \o <<s, r>> \in Leaves
  BY DEF Homes
<1>2. path \in Seq(STRING) /\ path \o <<s, r>> \in Seq(STRING)
  BY <1>1, PlacesFacts
<1> DEFINE t == <<s, r>>
           U == STRING \cup {s, r}
<1>3. path \in Seq(U)
  BY <1>2, SeqMonotonic
<1>4. t \in Seq(U) /\ Len(t) = 2 /\ t[1] = s /\ t[2] = r
  OBVIOUS
<1> HIDE DEF t, U
<1>5. /\ Len(path \o t) = Len(path) + 2
      /\ \A j \in 1 .. Len(path) + 2 :
            (path \o t)[j] = IF j <= Len(path) THEN path[j] ELSE t[j - Len(path)]
  <2>1. /\ Len(path \o t) = Len(path) + Len(t)
        /\ \A j \in 1 .. Len(path) + Len(t) :
              (path \o t)[j] = IF j <= Len(path) THEN path[j] ELSE t[j - Len(path)]
    BY <1>3, <1>4, ConcatProperties
  <2>2. QED
    BY <1>4, <2>1
<1>6. Len(path) \in Nat
  BY <1>2
<1>7. \A j \in 1 .. Len(path) : (path \o t)[j] = path[j]
  BY <1>5, <1>6
<1>8. (path \o t)[Len(path) + 1] = t[1] /\ (path \o t)[Len(path) + 2] = t[2]
  <2>1. ~(Len(path) + 1 <= Len(path)) /\ ~(Len(path) + 2 <= Len(path))
    BY <1>6
  <2>2. Len(path) + 1 - Len(path) = 1 /\ Len(path) + 2 - Len(path) = 2
    BY <1>6
  <2>3. Len(path) + 1 \in 1 .. Len(path) + 2 /\ Len(path) + 2 \in 1 .. Len(path) + 2
    BY <1>6
  <2>4. QED
    BY <1>5, <2>1, <2>2, <2>3
<1>9. QED
  BY <1>1, <1>2, <1>4, <1>5, <1>7, <1>8 DEF t, Spot

\* The sections of an update as the calls are given them.
IsSections(sections) ==
    /\ DOMAIN sections \subseteq Sections
    /\ \A s \in DOMAIN sections :
          /\ DOMAIN sections[s] \subseteq Resources
          /\ \A r \in DOMAIN sections[s] : sections[s][r] \in Quantities

\* A place that is on track all the way is a quantity that is written, or above one.
LEMMA TrackEnds ==
    ASSUME NEW path \in Homes, NEW sections, IsSections(sections), NEW q \in Places
    PROVE  /\ ~(Len(q) > Len(path) + 2 /\ OnTrack(q, Len(path) + 2, path, sections))
           /\ OnTrack(q, Len(q), path, sections) =>
                 /\ Len(q) <= Len(path) + 2
                 /\ Len(q) < Len(path) => Append(q, path[Len(q) + 1]) \in Places
                 /\ Len(q) = Len(path) =>
                       \A s \in DOMAIN sections : Append(q, s) \in Places
                 /\ Len(q) = Len(path) + 1 =>
                       \A r \in DOMAIN sections[q[Len(q)]] : Append(q, r) \in Places
                 /\ Len(q) < Len(path) + 2 => q \notin Leaves
                 /\ Len(q) = Len(path) + 2 =>
                       \E s \in DOMAIN sections : \E r \in DOMAIN sections[s] :
                          q = Spot(path, s, r)
<1> DEFINE L == Len(path)
<1>1. q \in Seq(STRING) /\ path \in Seq(STRING) /\ path \in Places
  BY PlacesFacts DEF Homes
<1>2. L \in Nat /\ Len(q) \in Nat
  BY <1>1
<1>3. ~(Len(q) > L + 2 /\ OnTrack(q, L + 2, path, sections))
  <2>1. SUFFICES ASSUME Len(q) > L + 2, OnTrack(q, L + 2, path, sections) PROVE FALSE
    OBVIOUS
  <2>2. L + 2 > L /\ L + 2 > L + 1 /\ \A j \in 1 .. L : j \in 1 .. L + 2 /\ j <= L
    BY <1>2
  <2>3. /\ \A j \in 1 .. L : q[j] = path[j]
        /\ q[L + 1] \in DOMAIN sections /\ q[L + 2] \in DOMAIN sections[q[L + 1]]
    BY <2>1, <2>2 DEF OnTrack
  <2>4. PICK s \in Sections, r \in Resources : s = q[L + 1] /\ r = q[L + 2]
    BY <2>3 DEF IsSections
  <2> DEFINE p == Spot(path, s, r)
  <2>5. /\ p \in Leaves /\ Len(p) = L + 2 /\ \A j \in 1 .. L : p[j] = path[j]
        /\ p[L + 1] = s /\ p[L + 2] = r
    BY QuantityPlace
  <2> HIDE DEF p
  <2>6. \A j \in 1 .. Len(p) : j \in 1 .. L \/ j = L + 1 \/ j = L + 2
    BY <1>2, <2>5
  <2>7. \A j \in 1 .. Len(p) : q[j] = p[j]
    BY <2>3, <2>4, <2>5, <2>6
  <2>8. QED
    BY <2>1, <2>5, <2>7, NothingBelow
<1>4. ASSUME OnTrack(q, Len(q), path, sections) PROVE Len(q) <= L + 2
  <2>1. SUFFICES ASSUME Len(q) > L + 2 PROVE FALSE
    BY <1>2
  <2>2. L + 2 > L /\ L + 2 > L + 1 /\ Len(q) > L /\ Len(q) > L + 1
        /\ \A j \in 1 .. L + 2 : j \in 1 .. Len(q)
    BY <1>2, <2>1
  <2>3. OnTrack(q, L + 2, path, sections)
    BY <1>4, <2>2 DEF OnTrack
  <2>4. QED
    BY <1>3, <2>1, <2>3
<1>5. ASSUME OnTrack(q, Len(q), path, sections)
      PROVE  \A j \in 1 .. Len(q) : j <= L => q[j] = path[j]
  BY <1>5 DEF OnTrack
\* What continues q, and is the beginning of a quantity's place, is a place.
<1>6. ASSUME NEW s \in Sections, NEW r \in Resources, NEW k, NEW n, n = Len(q) + 1,
             n <= L + 2, k = Spot(path, s, r)[n],
             \A j \in 1 .. Len(q) : q[j] = Spot(path, s, r)[j]
      PROVE  Append(q, k) \in Places
  <2> DEFINE p == Spot(path, s, r)
  <2>1. p \in Leaves /\ p \in Seq(STRING) /\ Len(p) = L + 2
    BY QuantityPlace
  <2>1a. k = p[n] /\ \A j \in 1 .. Len(q) : q[j] = p[j]
    BY <1>6
  <2> HIDE DEF p
  <2>2. n \in 1 .. Len(p) /\ n \in 0 .. Len(p)
    BY <1>2, <1>6, <2>1
  <2>3. k \in STRING
    BY <2>1, <2>1a, <2>2
  <2>4. /\ SubSeq(p, 1, n) \in Seq(STRING) /\ Len(SubSeq(p, 1, n)) = n
        /\ \A j \in 1 .. n : SubSeq(p, 1, n)[j] = p[j]
    BY <2>1, <2>2
  <2>5. /\ Append(q, k) \in Seq(STRING) /\ Len(Append(q, k)) = n
        /\ \A j \in 1 .. Len(q) : Append(q, k)[j] = q[j]
        /\ Append(q, k)[n] = k
    BY <1>1, <1>6, <2>3
  <2>6. \A j \in 1 .. n : j \in 1 .. Len(q) \/ j = n
    BY <1>2, <1>6
  <2>7. \A j \in 1 .. n : Append(q, k)[j] = SubSeq(p, 1, n)[j]
    BY <2>1a, <2>4, <2>5, <2>6
  <2>8. Append(q, k) = SubSeq(p, 1, n)
    BY <2>4, <2>5, <2>7, SeqEqual
  <2>9. QED
    BY <2>1, <2>2, <2>8, PlacesFacts
<1>7. PICK s0 \in Sections, r0 \in Resources : TRUE
  BY DEF Sections, Resources
<1>8. ASSUME OnTrack(q, Len(q), path, sections), Len(q) < L
      PROVE  Append(q, path[Len(q) + 1]) \in Places
  <2>1. Len(q) + 1 \in 1 .. L /\ Len(q) + 1 <= L + 2
    BY <1>2, <1>8
  <2>2. \A j \in 1 .. Len(q) : j \in 1 .. L /\ j <= L
    BY <1>2, <1>8
  <2>3. path[Len(q) + 1] = Spot(path, s0, r0)[Len(q) + 1]
    BY <2>1, QuantityPlace
  <2>4. \A j \in 1 .. Len(q) : q[j] = Spot(path, s0, r0)[j]
    BY <1>5, <1>8, <2>2, QuantityPlace
  <2>5. QED
    BY <1>6, <2>1, <2>3, <2>4
<1>9. ASSUME OnTrack(q, Len(q), path, sections), Len(q) = L, NEW s \in DOMAIN sections
      PROVE  Append(q, s) \in Places
  <2>1. s \in Sections
    BY DEF IsSections
  <2>2. \A j \in 1 .. Len(q) : j \in 1 .. L /\ j <= L
    BY <1>2, <1>9
  <2>3. s = Spot(path, s, r0)[L + 1]
    BY <2>1, QuantityPlace
  <2>4. \A j \in 1 .. Len(q) : q[j] = Spot(path, s, r0)[j]
    BY <1>5, <1>9, <2>1, <2>2, QuantityPlace
  <2>5. L + 1 <= L + 2
    BY <1>2
  <2>6. QED
    BY <1>6, <1>9, <2>1, <2>3, <2>4, <2>5
<1>10. ASSUME OnTrack(q, Len(q), path, sections), Len(q) = L + 1,
              NEW r \in DOMAIN sections[q[Len(q)]]
       PROVE  Append(q, r) \in Places
  <2>1. q[L + 1] \in DOMAIN sections
    BY <1>2, <1>10 DEF OnTrack
  <2>2. PICK s \in Sections : s = q[L + 1]
    BY <2>1 DEF IsSections
  <2>3. r \in Resources
    BY <1>10, <2>1 DEF IsSections
  <2>4. r = Spot(path, s, r)[L + 2] /\ s = Spot(path, s, r)[L + 1]
    BY <2>3, QuantityPlace
  <2>5. \A j \in 1 .. Len(q) : (j \in 1 .. L /\ j <= L) \/ j = L + 1
    BY <1>2, <1>10
  <2>6. \A j \in 1 .. L : Spot(path, s, r)[j] = path[j]
    BY <2>3, QuantityPlace
  <2>7. \A j \in 1 .. Len(q) : q[j] = Spot(path, s, r)[j]
    BY <1>5, <1>10, <2>2, <2>4, <2>5, <2>6
  <2>8. L + 2 = Len(q) + 1 /\ L + 2 <= L + 2
    BY <1>2, <1>10
  <2>9. QED
    BY <1>6, <2>3, <2>4, <2>7, <2>8
<1>11. ASSUME OnTrack(q, Len(q), path, sections), Len(q) < L + 2
       PROVE  q \notin Leaves
  <2>1. PICK s \in Sections, r \in Resources : Len(q) = L + 1 => s = q[L + 1]
    <3>1. Len(q) = L + 1 => q[L + 1] \in DOMAIN sections
      BY <1>2, <1>11 DEF OnTrack
    <3>2. QED
      BY <1>7, <3>1 DEF IsSections
  <2> DEFINE p == Spot(path, s, r)
  <2>2. /\ p \in Leaves /\ p \in Seq(STRING) /\ Len(p) = L + 2 /\ p[L + 1] = s
        /\ \A j \in 1 .. L : p[j] = path[j]
    BY QuantityPlace
  <2> HIDE DEF p
  <2>3. \A j \in 1 .. Len(q) : (j \in 1 .. L /\ j <= L) \/ (j = L + 1 /\ Len(q) = L + 1)
    BY <1>2, <1>11
  <2>4. \A j \in 1 .. Len(q) : p[j] = q[j]
    BY <1>5, <1>11, <2>1, <2>2, <2>3
  <2>5. SUFFICES ASSUME q \in Leaves PROVE FALSE
    OBVIOUS
  <2>6. p \in Places /\ Len(q) < Len(p)
    BY <1>11, <2>2, PlacesFacts
  <2>7. QED
    BY <2>4, <2>5, <2>6, NothingBelow
<1>12. ASSUME OnTrack(q, Len(q), path, sections), Len(q) = L + 2
       PROVE  \E s \in DOMAIN sections : \E r \in DOMAIN sections[s] : q = Spot(path, s, r)
  <2>1. Len(q) > L /\ Len(q) > L + 1
    BY <1>2, <1>12
  <2>2. q[L + 1] \in DOMAIN sections /\ q[L + 2] \in DOMAIN sections[q[L + 1]]
    BY <1>12, <2>1 DEF OnTrack
  <2>3. PICK s \in Sections, r \in Resources : s = q[L + 1] /\ r = q[L + 2]
    BY <2>2 DEF IsSections
  <2>4. s \in DOMAIN sections /\ r \in DOMAIN sections[s]
    BY <2>2, <2>3
  <2> DEFINE p == Spot(path, s, r)
  <2>5. /\ p \in Seq(STRING) /\ Len(p) = L + 2 /\ \A j \in 1 .. L : p[j] = path[j]
        /\ p[L + 1] = s /\ p[L + 2] = r
    BY QuantityPlace
  <2> HIDE DEF p
  <2>6. \A j \in 1 .. Len(q) : (j \in 1 .. L /\ j <= L) \/ j = L + 1 \/ j = L + 2
    BY <1>2, <1>12
  <2>7. \A j \in 1 .. Len(q) : q[j] = p[j]
    BY <1>5, <1>12, <2>3, <2>5, <2>6
  <2>8. q = p
    BY <1>1, <1>12, <2>5, <2>7, SeqEqual
  <2>9. QED
    BY <2>4, <2>8 DEF p
<1>13. QED
  BY <1>3, <1>4, <1>8, <1>9, <1>10, <1>11, <1>12

-----------------------------------------------------------------------------
(* How files grow. *)

\* What the update of one path writes: places with their quantities.
WrittenAt(path, update) ==
    {w \in Leaves \X Quantities :
        \E s \in DOMAIN update.sections : \E r \in DOMAIN update.sections[s] :
            w = <<Spot(path, s, r), update.sections[s][r]>>}

\* The file b has grown from a by writing W, and nothing else has happened to it.
Grown(a, b, W) ==
    /\ Fits(b)
    /\ a.kind = "mapping" => b.kind = "mapping"
    /\ \A q \in Places : Exists(a, q) => Exists(b, q)
    /\ \A q \in Leaves : Open(b, q, Len(q)) => Open(a, q, Len(q))
    /\ \A q \in Leaves :
          Exists(a, q) /\ (\A w \in W : w[1] = q => w[2] = NodeAt(a, q).value)
             => NodeAt(b, q) = NodeAt(a, q)
    /\ \A w \in W : Open(b, w[1], Len(w[1]))
                       => Exists(b, w[1]) /\ NodeAt(b, w[1]).value = w[2]

\* What W writes keeps the tag of the scalar that was there; other scalars have
\* the tags of their texts.
TagsKept(a, b, W) ==
    /\ \A q \in Leaves : Exists(a, q) => NodeAt(b, q).tag = NodeAt(a, q).tag
    /\ \A q \in Leaves : Exists(b, q) /\ ~Exists(a, q) =>
          \E w \in W : w[1] = q /\ NodeAt(b, q).tag = TagOf(w[2])

LEMMA NotGrown ==
    ASSUME NEW a, Fits(a)
    PROVE  Grown(a, a, {}) /\ TagsKept(a, a, {})
  BY DEF Grown, TagsKept

LEMMA GrownTwice ==
    ASSUME NEW a, NEW b, NEW c, NEW V \in SUBSET (Leaves \X Quantities),
           NEW W \in SUBSET (Leaves \X Quantities), Grown(a, b, V), Grown(b, c, W),
           \A v \in V, w \in W : v[1] # w[1]
    PROVE  /\ Grown(a, c, V \cup W)
           /\ TagsKept(a, b, V) /\ TagsKept(b, c, W) => TagsKept(a, c, V \cup W)
<1>1. \A w \in V \cup W : w[1] \in Leaves
  OBVIOUS
<1>2. ASSUME NEW q \in Leaves, Exists(a, q),
             \A w \in V \cup W : w[1] = q => w[2] = NodeAt(a, q).value
      PROVE  NodeAt(c, q) = NodeAt(a, q)
  <2>1. Exists(b, q) /\ NodeAt(b, q) = NodeAt(a, q)
    BY <1>2, PlacesFacts DEF Grown
  <2>2. QED
    BY <1>2, <2>1 DEF Grown
<1>3. ASSUME NEW w \in V \cup W, Open(c, w[1], Len(w[1]))
      PROVE  Exists(c, w[1]) /\ NodeAt(c, w[1]).value = w[2]
  <2>1. CASE w \in W
    BY <1>3, <2>1 DEF Grown
  <2>2. CASE w \in V
    <3>1. Open(b, w[1], Len(w[1]))
      BY <1>1, <1>3 DEF Grown
    <3>2. Exists(b, w[1]) /\ NodeAt(b, w[1]).value = w[2]
      BY <2>2, <3>1 DEF Grown
    <3>3. NodeAt(c, w[1]) = NodeAt(b, w[1])
      BY <1>1, <2>2, <3>2 DEF Grown
    <3>4. Exists(c, w[1])
      BY <1>1, <3>2, PlacesFacts DEF Grown
    <3>5. QED
      BY <3>2, <3>3, <3>4
  <2>3. QED
    BY <2>1, <2>2
<1>4. \A q \in Places : Exists(a, q) => Exists(c, q)
  BY DEF Grown
<1>5. \A q \in Leaves : Open(c, q, Len(q)) => Open(a, q, Len(q))
  BY DEF Grown
<1>6. Fits(c) /\ (a.kind = "mapping" => c.kind = "mapping")
  BY DEF Grown
<1>7. Grown(a, c, V \cup W)
  BY <1>2, <1>3, <1>4, <1>5, <1>6 DEF Grown
<1>8. ASSUME TagsKept(a, b, V), TagsKept(b, c, W) PROVE TagsKept(a, c, V \cup W)
  <2>1. ASSUME NEW q \in Leaves, Exists(a, q) PROVE NodeAt(c, q).tag = NodeAt(a, q).tag
    <3>1. Exists(b, q)
      BY <2>1, PlacesFacts DEF Grown
    <3>2. QED
      BY <1>8, <2>1, <3>1 DEF TagsKept
  <2>2. ASSUME NEW q \in Leaves, Exists(c, q), ~Exists(a, q)
        PROVE  \E w \in V \cup W : w[1] = q /\ NodeAt(c, q).tag = TagOf(w[2])
    <3>1. CASE Exists(b, q)
      <4>1. PICK v \in V : v[1] = q /\ NodeAt(b, q).tag = TagOf(v[2])
        BY <1>8, <2>2, <3>1 DEF TagsKept
      <4>2. NodeAt(c, q).tag = NodeAt(b, q).tag
        BY <1>8, <3>1 DEF TagsKept
      <4>3. QED
        BY <4>1, <4>2
    <3>2. CASE ~Exists(b, q)
      BY <1>8, <2>2, <3>2 DEF TagsKept
    <3>3. QED
      BY <3>1, <3>2
  <2>3. QED
    BY <2>1, <2>2 DEF TagsKept
<1>9. QED
  BY <1>7, <1>8

\* A quantity that is written is a scalar with that text, which keeps its tag or is
\* new.
LEMMA QuantityTurned ==
    ASSUME NEW root, Fits(root), NEW q \in Leaves, NEW text, NEW new,
           new = updateScalarValue(Way(root, q)[Len(q) - 1], q[Len(q)], text)
    PROVE  /\ IsScalar(new) /\ new.value = text
           /\ Exists(root, q) /\ NodeAt(root, q).value = text => new = NodeAt(root, q)
           /\ Exists(root, q) => new.tag = NodeAt(root, q).tag
           /\ ~Exists(root, q) => new.tag = TagOf(text)
<1> DEFINE section == Way(root, q)[Len(q) - 1]
           key     == q[Len(q)]
<1>0. new = updateScalarValue(section, key, text)
  OBVIOUS
<1>1. q \in Seq(STRING) /\ q # <<>> /\ q \in Places
  BY LeavesAssumption, PlacesFacts
<1>2. Len(q) \in 1 .. Len(q) /\ Len(q) - 1 \in Nat /\ Len(q) - 1 \in 0 .. Len(q)
      /\ (Len(q) - 1) + 1 = Len(q)
  BY <1>1
<1>3. Way(root, q)[Len(q)] = FindOrCreate(section, key)
  BY <1>1, <1>2, WayRecurs
<1> HIDE DEF section, key
<1>4. CASE key \in Keys(section)
  <2>1. There(root, q, Len(q) - 1)
    BY <1>1, <1>2, <1>4, NotThere, EmptyNode DEF section
  <2>2. Exists(root, q)
    BY <1>2, <1>4, <2>1, ThereNext, ExistsIsThere DEF section, key
  <2>3. NodeAt(root, q) = section.at[key]
    BY <1>3, <1>4 DEF NodeAt, FindOrCreate
  <2> DEFINE old == section.at[key]
  <2>4. IsScalar(old)
    BY <1>1, <2>2, <2>3 DEF Fits
  <2>5. new = [old EXCEPT !.value = text]
    BY <1>0, <1>4 DEF updateScalarValue
  <2> HIDE DEF old
  <2>6. old = [kind |-> "scalar", value |-> old.value, tag |-> old.tag]
    BY <2>4 DEF IsScalar
  <2>7. new = [kind |-> "scalar", value |-> text, tag |-> old.tag]
    BY <2>5, <2>6
  <2>8. IsScalar(new) /\ new.value = text
    BY <2>7 DEF IsScalar
  <2>9. (old.value = text => new = old) /\ new.tag = old.tag
    BY <2>6, <2>7
  <2>10. QED
    BY <2>2, <2>3, <2>8, <2>9 DEF old
<1>5. CASE key \notin Keys(section)
  <2>1. new = [kind |-> "scalar", value |-> text, tag |-> TagOf(text)]
    BY <1>0, <1>5 DEF updateScalarValue, Scalar
  <2>2. IsScalar(new) /\ new.value = text /\ new.tag = TagOf(text)
    BY <2>1 DEF IsScalar
  <2>3. ~Exists(root, q)
    BY <1>2, <1>5, ThereNext, ExistsIsThere DEF section, key
  <2>4. QED
    BY <2>2, <2>3
<1>6. QED
  BY <1>4, <1>5

\* Nodes that are turned stay mappings, or what they were, and get the keys of
\* the update.
LEMMA TurnedKeys ==
    ASSUME NEW old, NEW new, NEW q, NEW i, NEW path, NEW update,
           Turned(old, new, q, i, path, update),
           Len(path) \in Nat, i \in Nat, i <= Len(path) + 1
    PROVE  /\ old.kind = "mapping" => new.kind = "mapping"
           /\ old.kind # "mapping" => new = old
           /\ \A k \in Keys(new) : k \notin Keys(old) =>
                 \/ i < Len(path) /\ k = path[i + 1]
                 \/ i = Len(path) /\ k \in DOMAIN update.sections
                 \/ i = Len(path) + 1 /\ k \in DOMAIN update.sections[q[i]]
<1>1. i < Len(path) \/ i = Len(path) \/ i = Len(path) + 1
  OBVIOUS
<1>2. CASE i < Len(path)
  <2>1. PICK child : new = Put(old, path[i + 1], child)
    BY <1>2 DEF Turned
  <2>2. QED
    BY <1>2, <2>1, PutKey
<1>3. CASE i = Len(path)
  <2>1. new = WithSections(old, update)
    BY <1>3 DEF Turned
  <2>2. QED
    BY <1>3, <2>1, SectionsKey
<1>4. CASE i = Len(path) + 1
  <2>1. new = updateResourceSection(old, update.sections[q[i]])
    BY <1>4 DEF Turned
  <2>2. QED
    BY <1>4, <2>1, SectionKey
<1>5. QED
  BY <1>1, <1>2, <1>3, <1>4

LEMMA UpdateGrows ==
    ASSUME NEW root, Fits(root), NEW path \in Homes, NEW update, IsSections(update.sections)
    PROVE  /\ Grown(root, UpdatedAt(root, path, update), WrittenAt(path, update))
           /\ TagsKept(root, UpdatedAt(root, path, update), WrittenAt(path, update))
<1> DEFINE b == UpdatedAt(root, path, update)
           On(q, i) == OnTrack(q, i, path, update.sections)
           Led(q, i) == On(q, i) /\ Open(root, q, i)
<1>1. path \in Seq(STRING) /\ Len(path) \in Nat
  BY PlacesFacts DEF Homes
<1>2. ASSUME NEW q \in Places
      PROVE  /\ q \in Seq(STRING) /\ Len(q) \in Nat
             /\ ~(Len(q) > Len(path) + 2 /\ On(q, Len(path) + 2))
  BY PlacesFacts, TrackEnds
<1>3. ASSUME NEW q \in Places, NEW i \in 0 .. Len(q)
      PROVE  /\ Led(q, i) =>
                  /\ There(b, q, i)
                  /\ Turned(Way(root, q)[i], Way(b, q)[i], q, i, path, update)
                  /\ i = Len(path) + 2 =>
                        Way(b, q)[i] = updateScalarValue(Way(root, q)[i - 1], q[i],
                                                         update.sections[q[i - 1]][q[i]])
             /\ ~Led(q, i) =>
                  /\ Way(b, q)[i] = Way(root, q)[i]
                  /\ There(b, q, i) <=> There(root, q, i)
  BY <1>1, <1>2, UpdatedWay
<1> HIDE DEF b
<1>4. ASSUME NEW q \in Places, Exists(root, q) PROVE Exists(b, q)
  <2>1. There(root, q, Len(q)) /\ Len(q) \in 0 .. Len(q)
    BY <1>2, <1>4, ExistsIsThere
  <2>2. There(b, q, Len(q))
    <3> HIDE DEF Led
    <3>1. QED
      BY <1>3, <2>1
  <2>3. QED
    BY <2>2, ExistsIsThere
<1>5. ASSUME NEW q \in Leaves, Open(b, q, Len(q)) PROVE Open(root, q, Len(q))
  <2>1. q \in Places /\ Len(q) \in Nat
    BY <1>2, PlacesFacts
  <2>2. SUFFICES ASSUME NEW i \in 0 .. Len(q) - 1 PROVE Way(root, q)[i].kind = "mapping"
    BY DEF Open
  <2>3. Way(b, q)[i].kind = "mapping" /\ i \in 0 .. Len(q) /\ i \in Nat /\ i < Len(q)
    BY <1>5, <2>1 DEF Open
  <2>4. CASE ~Led(q, i)
    BY <1>3, <2>1, <2>3, <2>4
  <2>5. CASE Led(q, i)
    <3>1. i <= Len(path) + 1
      <4>1. SUFFICES ASSUME i > Len(path) + 1 PROVE FALSE
        BY <1>1, <2>3
      <4>2. On(q, Len(path) + 2)
        <5>1. /\ \A j \in 1 .. Len(path) + 2 : j \in 1 .. i
              /\ i > Len(path) /\ i > Len(path) + 1
          BY <1>1, <2>3, <4>1
        <5>2. QED
          BY <2>5, <5>1 DEF OnTrack
      <4>3. i >= Len(path) + 2 /\ Len(q) > Len(path) + 2
        BY <1>1, <2>1, <2>3, <4>1
      <4>4. QED
        BY <1>2, <2>1, <4>2, <4>3
    <3>2. Turned(Way(root, q)[i], Way(b, q)[i], q, i, path, update)
      BY <1>3, <2>1, <2>3, <2>5
    <3>3. QED
      BY <1>1, <2>3, <3>1, <3>2, TurnedKeys
  <2>6. QED
    BY <2>4, <2>5
<1>6. ASSUME NEW q \in Leaves, Led(q, Len(q))
      PROVE  /\ Len(q) = Len(path) + 2
             /\ \E s \in DOMAIN update.sections : \E r \in DOMAIN update.sections[s] :
                   q = Spot(path, s, r)
             /\ Exists(b, q)
             /\ NodeAt(b, q) = updateScalarValue(Way(root, q)[Len(q) - 1], q[Len(q)],
                                                 update.sections[q[Len(q) - 1]][q[Len(q)]])
  <2>1. q \in Places /\ Len(q) \in Nat /\ Len(q) \in 0 .. Len(q)
    BY <1>2, PlacesFacts
  <2>2. Len(q) <= Len(path) + 2 /\ ~(Len(q) < Len(path) + 2)
    BY <1>6, <2>1, TrackEnds
  <2>3. Len(q) = Len(path) + 2
    BY <1>1, <2>1, <2>2
  <2>4. There(b, q, Len(q)) /\ Way(b, q)[Len(q)] =
           updateScalarValue(Way(root, q)[Len(q) - 1], q[Len(q)],
                             update.sections[q[Len(q) - 1]][q[Len(q)]])
    BY <1>3, <1>6, <2>1, <2>3
  <2>5. \E s \in DOMAIN update.sections : \E r \in DOMAIN update.sections[s] :
           q = Spot(path, s, r)
    BY <1>6, <2>1, <2>3, TrackEnds
  <2>6. QED
    BY <2>3, <2>4, <2>5, ExistsIsThere DEF NodeAt
<1>7. ASSUME NEW q \in Leaves, Led(q, Len(q))
      PROVE  LET text == update.sections[q[Len(q) - 1]][q[Len(q)]]
             IN  /\ IsScalar(NodeAt(b, q)) /\ NodeAt(b, q).value = text
                 /\ Exists(root, q) /\ NodeAt(root, q).value = text
                       => NodeAt(b, q) = NodeAt(root, q)
                 /\ Exists(root, q) => NodeAt(b, q).tag = NodeAt(root, q).tag
                 /\ ~Exists(root, q) => NodeAt(b, q).tag = TagOf(text)
  <2>1. NodeAt(b, q) = updateScalarValue(Way(root, q)[Len(q) - 1], q[Len(q)],
                                         update.sections[q[Len(q) - 1]][q[Len(q)]])
    <3> HIDE DEF Led
    <3>1. QED
      BY <1>6, <1>7
  <2> DEFINE text == update.sections[q[Len(q) - 1]][q[Len(q)]]
             node == NodeAt(b, q)
  <2>2. node = updateScalarValue(Way(root, q)[Len(q) - 1], q[Len(q)], text)
    BY <2>1
  <2> HIDE DEF text, node
  <2>3. /\ IsScalar(node) /\ node.value = text
        /\ Exists(root, q) /\ NodeAt(root, q).value = text => node = NodeAt(root, q)
        /\ Exists(root, q) => node.tag = NodeAt(root, q).tag
        /\ ~Exists(root, q) => node.tag = TagOf(text)
    BY <2>2, QuantityTurned
  <2>4. QED
    BY <2>3 DEF text, node
<1>8. Fits(b)
  <2>1. SUFFICES ASSUME NEW q \in Places, Exists(b, q)
                 PROVE  /\ \A k \in Keys(NodeAt(b, q)) : Append(q, k) \in Places
                        /\ q \in Leaves => IsScalar(NodeAt(b, q))
    BY DEF Fits
  <2>2. Len(q) \in 0 .. Len(q) /\ Len(q) \in Nat
    BY <1>2
  <2>3. CASE ~Led(q, Len(q))
    <3>1. /\ NodeAt(b, q) = NodeAt(root, q)
          /\ There(b, q, Len(q)) <=> There(root, q, Len(q))
      BY <1>3, <2>2, <2>3 DEF NodeAt
    <3>2. Exists(root, q)
      BY <2>1, <3>1, ExistsIsThere
    <3>3. QED
      BY <3>1, <3>2 DEF Fits
  <2>4. CASE Led(q, Len(q)) /\ q \in Leaves
    <3>1. IsScalar(NodeAt(b, q))
      <4> HIDE DEF Led
      <4>1. QED
        BY <1>7, <2>4
    <3>2. Keys(NodeAt(b, q)) = {}
      BY <3>1 DEF Keys, IsScalar
    <3>3. QED
      BY <3>1, <3>2
  <2>5. CASE Led(q, Len(q)) /\ q \notin Leaves
    <3>1. Len(q) <= Len(path) + 1
      <4>1. Len(q) <= Len(path) + 2
        BY <2>5, TrackEnds
      <4>2. ~(Len(q) = Len(path) + 2)
        <5>1. SUFFICES ASSUME Len(q) = Len(path) + 2 PROVE FALSE
          OBVIOUS
        <5>2. PICK s \in DOMAIN update.sections :
                 \E r \in DOMAIN update.sections[s] : q = Spot(path, s, r)
          BY <2>5, <5>1, TrackEnds
        <5>3. PICK r \in DOMAIN update.sections[s] : q = Spot(path, s, r)
          BY <5>2
        <5>4. s \in Sections /\ r \in Resources
          BY DEF IsSections
        <5>5. QED
          BY <2>5, <5>3, <5>4, QuantityPlace
      <4>3. QED
        BY <1>1, <2>2, <4>1, <4>2
    <3> DEFINE old == NodeAt(root, q)
               new == NodeAt(b, q)
    <3>2. Turned(old, new, q, Len(q), path, update)
      BY <1>3, <2>2, <2>5 DEF NodeAt
    <3> HIDE DEF old, new
    <3>3. ASSUME NEW k \in Keys(new) PROVE Append(q, k) \in Places
      <4>1. CASE k \in Keys(old)
        <5>1. Exists(root, q)
          BY <1>2, <2>2, <4>1, NotThere, EmptyNode, ExistsIsThere DEF old, NodeAt
        <5>2. QED
          BY <4>1, <5>1 DEF Fits, old
      <4>2. CASE k \notin Keys(old)
        <5>1. \/ Len(q) < Len(path) /\ k = path[Len(q) + 1]
              \/ Len(q) = Len(path) /\ k \in DOMAIN update.sections
              \/ Len(q) = Len(path) + 1 /\ k \in DOMAIN update.sections[q[Len(q)]]
          BY <1>1, <2>2, <3>1, <3>2, <3>3, <4>2, TurnedKeys
        <5>2. QED
          BY <2>5, <5>1, TrackEnds
      <4>3. QED
        BY <4>1, <4>2
    <3>4. QED
      BY <2>5, <3>3 DEF new
  <2>6. QED
    BY <2>3, <2>4, <2>5
<1>9. ASSUME root.kind = "mapping" PROVE b.kind = "mapping"
  <2>1. path \in Places /\ 0 \in 0 .. Len(path) /\ 0 \in Nat /\ 0 <= Len(path) + 1
    BY <1>1 DEF Homes
  <2>2. Led(path, 0)
    BY <1>1 DEF OnTrack, Open
  <2>3. Turned(Way(root, path)[0], Way(b, path)[0], path, 0, path, update)
    BY <1>3, <2>1, <2>2
  <2>4. Way(root, path)[0] = root /\ Way(b, path)[0] = b
    BY <1>1, WayRecurs
  <2>5. QED
    BY <1>1, <1>9, <2>1, <2>3, <2>4, TurnedKeys
<1>10. ASSUME NEW q \in Leaves, Exists(root, q),
              \A w \in WrittenAt(path, update) : w[1] = q => w[2] = NodeAt(root, q).value
       PROVE  NodeAt(b, q) = NodeAt(root, q)
  <2>1. q \in Places /\ Len(q) \in 0 .. Len(q)
    BY <1>2, PlacesFacts
  <2>2. CASE ~Led(q, Len(q))
    BY <1>3, <2>1, <2>2 DEF NodeAt
  <2>3. CASE Led(q, Len(q))
    <3>1. PICK s \in DOMAIN update.sections :
             \E r \in DOMAIN update.sections[s] : q = Spot(path, s, r)
      BY <1>6, <2>3
    <3>2. PICK r \in DOMAIN update.sections[s] : q = Spot(path, s, r)
      BY <3>1
    <3>3. update.sections[s][r] \in Quantities /\ s \in Sections /\ r \in Resources
      BY DEF IsSections
    <3> DEFINE w == <<q, update.sections[s][r]>>
    <3>4. w \in WrittenAt(path, update) /\ w[1] = q /\ w[2] = update.sections[s][r]
      BY <3>2, <3>3 DEF WrittenAt
    <3>5. NodeAt(root, q).value = update.sections[s][r]
      BY <1>10, <3>4
    <3>6. q[Len(q) - 1] = s /\ q[Len(q)] = r
      <4>1. /\ Len(Spot(path, s, r)) = Len(path) + 2
            /\ Spot(path, s, r)[Len(path) + 1] = s /\ Spot(path, s, r)[Len(path) + 2] = r
        BY <3>3, QuantityPlace
      <4>2. (Len(path) + 2) - 1 = Len(path) + 1
        BY <1>1
      <4>3. QED
        BY <3>2, <4>1, <4>2
    <3>7. QED
      <4> HIDE DEF Led
      <4>1. QED
        BY <1>7, <1>10, <2>3, <3>5, <3>6
  <2>4. QED
    BY <2>2, <2>3
<1>11. ASSUME NEW w \in WrittenAt(path, update), Open(b, w[1], Len(w[1]))
       PROVE  Exists(b, w[1]) /\ NodeAt(b, w[1]).value = w[2]
  <2>1. PICK s \in DOMAIN update.sections :
           \E r \in DOMAIN update.sections[s] :
              w = <<Spot(path, s, r), update.sections[s][r]>>
    BY DEF WrittenAt
  <2>2. PICK r \in DOMAIN update.sections[s] :
           w = <<Spot(path, s, r), update.sections[s][r]>>
    BY <2>1
  <2>3. PICK q \in Leaves : q = Spot(path, s, r) /\ q = w[1]
    BY <2>2 DEF WrittenAt
  <2>4. s \in Sections /\ r \in Resources
    BY DEF IsSections
  <2>5. /\ Len(q) = Len(path) + 2 /\ \A j \in 1 .. Len(path) : q[j] = path[j]
        /\ q[Len(path) + 1] = s /\ q[Len(path) + 2] = r
    <3> DEFINE p == Spot(path, s, r)
    <3>1. /\ Len(p) = Len(path) + 2 /\ \A j \in 1 .. Len(path) : p[j] = path[j]
          /\ p[Len(path) + 1] = s /\ p[Len(path) + 2] = r
      BY <2>4, QuantityPlace
    <3> HIDE DEF p
    <3>2. q = p
      BY <2>3 DEF p
    <3>3. QED
      BY <3>1, <3>2
  <2>6. On(q, Len(q))
    <3>1. \A j \in 1 .. Len(q) : j <= Len(path) => j \in 1 .. Len(path)
      BY <1>1, <2>5
    <3>2. QED
      BY <2>5, <3>1 DEF OnTrack
  <2>7. Led(q, Len(q))
    BY <1>5, <1>11, <2>3, <2>6
  <2>8. /\ Exists(b, q)
        /\ NodeAt(b, q).value = update.sections[q[Len(q) - 1]][q[Len(q)]]
    <3> HIDE DEF Led
    <3>1. QED
      BY <1>6, <1>7, <2>7
  <2>9. Len(q) - 1 = Len(path) + 1
    BY <1>1, <2>5
  <2>10. QED
    BY <2>2, <2>3, <2>5, <2>8, <2>9
<1>12. ASSUME NEW q \in Leaves, ~Led(q, Len(q))
       PROVE  NodeAt(b, q) = NodeAt(root, q) /\ (Exists(b, q) <=> Exists(root, q))
  <2>1. q \in Places /\ Len(q) \in 0 .. Len(q)
    BY <1>2, PlacesFacts
  <2> HIDE DEF Led
  <2>2. QED
    BY <1>3, <1>12, <2>1, ExistsIsThere DEF NodeAt
<1>13. ASSUME NEW q \in Leaves, Led(q, Len(q)), ~Exists(root, q)
       PROVE  \E w \in WrittenAt(path, update) :
                 w[1] = q /\ NodeAt(b, q).tag = TagOf(w[2])
  <2>1. PICK s \in DOMAIN update.sections :
           \E r \in DOMAIN update.sections[s] : q = Spot(path, s, r)
    <3> HIDE DEF Led
    <3>1. QED
      BY <1>6, <1>13
  <2>2. PICK r \in DOMAIN update.sections[s] : q = Spot(path, s, r)
    BY <2>1
  <2>3. update.sections[s][r] \in Quantities /\ s \in Sections /\ r \in Resources
    BY DEF IsSections
  <2> DEFINE w == <<q, update.sections[s][r]>>
  <2>4. w \in WrittenAt(path, update) /\ w[1] = q /\ w[2] = update.sections[s][r]
    BY <2>2, <2>3 DEF WrittenAt
  <2>5. q[Len(q) - 1] = s /\ q[Len(q)] = r
    <3>1. /\ Len(Spot(path, s, r)) = Len(path) + 2
          /\ Spot(path, s, r)[Len(path) + 1] = s /\ Spot(path, s, r)[Len(path) + 2] = r
      BY <2>3, QuantityPlace
    <3>2. (Len(path) + 2) - 1 = Len(path) + 1
      BY <1>1
    <3>3. QED
      BY <2>2, <3>1, <3>2
  <2>6. NodeAt(b, q).tag = TagOf(update.sections[q[Len(q) - 1]][q[Len(q)]])
    <3> HIDE DEF Led
    <3>1. QED
      BY <1>7, <1>13
  <2> HIDE DEF w
  <2>7. QED
    BY <2>4, <2>5, <2>6
<1>14. TagsKept(root, b, WrittenAt(path, update))
  <2> HIDE DEF Led
  <2>1. ASSUME NEW q \in Leaves, Exists(root, q)
        PROVE  NodeAt(b, q).tag = NodeAt(root, q).tag
    BY <1>7, <1>12, <2>1
  <2>2. ASSUME NEW q \in Leaves, Exists(b, q), ~Exists(root, q)
        PROVE  \E w \in WrittenAt(path, update) :
                  w[1] = q /\ NodeAt(b, q).tag = TagOf(w[2])
    BY <1>12, <1>13, <2>2
  <2>3. QED
    BY <2>1, <2>2 DEF TagsKept
<1>15. Grown(root, b, WrittenAt(path, update))
  BY <1>4, <1>5, <1>8, <1>9, <1>10, <1>11 DEF Grown
<1>16. QED
  BY <1>14, <1>15 DEF b

-----------------------------------------------------------------------------
(* A series of updates. *)

LEMMA UpdatesRecur ==
    ASSUME NEW root, NEW updates, NEW pathOf, Len(updates) \in Nat
    PROVE  LET after == UpdatedAll(root, updates, pathOf)
           IN  /\ after[0] = root
               /\ \A i \in 1 .. Len(updates) :
                     after[i] = IF updates[i].name \in DOMAIN pathOf
                                THEN UpdatedAt(after[i - 1], pathOf[updates[i].name], updates[i])
                                ELSE after[i - 1]
<1> DEFINE Step(tree, i) == IF updates[i].name \in DOMAIN pathOf
                            THEN UpdatedAt(tree, pathOf[updates[i].name], updates[i])
                            ELSE tree
           Obeys(after, n) ==
              after = [i \in 0 .. n |-> IF i = 0 THEN root
                                        ELSE IF updates[i].name \in DOMAIN pathOf
                                        THEN UpdatedAt(after[i - 1], pathOf[updates[i].name],
                                                       updates[i])
                                        ELSE after[i - 1]]
           S == {n \in Nat : \E after : Obeys(after, n)}
<1>1. 0 \in S
  <2>1. Obeys([i \in 0 .. 0 |-> root], 0)
    OBVIOUS
  <2> HIDE DEF Obeys
  <2>2. QED
    BY <2>1
<1>2. ASSUME NEW n \in Nat, n \in S PROVE n + 1 \in S
  <2>1. PICK after : Obeys(after, n)
    <3> HIDE DEF Obeys
    <3>1. QED
      BY <1>2
  <2> DEFINE on == [i \in 0 .. n + 1 |-> IF i <= n THEN after[i] ELSE Step(after[n], n + 1)]
  <2>2. \A i \in 1 .. n : after[i] = Step(after[i - 1], i)
    BY <2>1
  <2>3. after[0] = root
    BY <2>1
  <2> HIDE DEF Step
  <2>4. ASSUME NEW i \in 0 .. n + 1, i # 0 PROVE on[i] = Step(on[i - 1], i)
    <3>1. i - 1 \in 0 .. n /\ on[i - 1] = after[i - 1]
      BY <2>4
    <3>2. CASE i <= n
      <4>1. i \in 1 .. n /\ on[i] = after[i]
        BY <2>4, <3>2
      <4>2. QED
        BY <2>2, <3>1, <4>1
    <3>3. CASE i = n + 1
      <4>1. on[i] = Step(after[n], n + 1) /\ i - 1 = n
        BY <3>3
      <4>2. QED
        BY <3>1, <4>1, <3>3
    <3>4. QED
      BY <3>2, <3>3
  <2>5. on[0] = root
    BY <2>3
  <2>6. on = [i \in 0 .. n + 1 |-> on[i]]
    OBVIOUS
  <2> HIDE DEF on
  <2>7. Obeys(on, n + 1)
    BY <2>4, <2>5, <2>6 DEF Step
  <2>8. n + 1 \in Nat
    OBVIOUS
  <2> HIDE DEF Obeys
  <2>9. QED
    BY <2>7, <2>8
<1>3. Len(updates) \in S
  <2> HIDE DEF S
  <2>1. QED
    BY <1>1, <1>2, SetInduction
<1> DEFINE after == UpdatedAll(root, updates, pathOf)
<1>4. after = CHOOSE x : Obeys(x, Len(updates))
  BY DEF UpdatedAll
<1>5. Obeys(after, Len(updates))
  <2> HIDE DEF Obeys, after
  <2>1. QED
    BY <1>3, <1>4
<1>6. after[0] = root /\ \A i \in 1 .. Len(updates) : after[i] = Step(after[i - 1], i)
  <2> HIDE DEF after
  <2>1. \A i \in 1 .. Len(updates) : i \in 0 .. Len(updates) /\ i # 0
    OBVIOUS
  <2>2. after[0] = root
    BY <1>5
  <2>3. \A i \in 0 .. Len(updates) : i # 0 => after[i] = Step(after[i - 1], i)
    BY <1>5
  <2>4. QED
    BY <2>1, <2>2, <2>3
<1>7. QED
  BY <1>6

\* The updates of one call, and where it puts them.
IsUpdates(updates) ==
    /\ Len(updates) \in Nat /\ DOMAIN updates = 1 .. Len(updates)
    /\ \A i \in 1 .. Len(updates) : IsSections(updates[i].sections)
    /\ \A i, j \in 1 .. Len(updates) : updates[i].name = updates[j].name => i = j

IsPathOf(pathOf) ==
    \A c \in DOMAIN pathOf :
        pathOf[c] \in Homes /\ \A d \in DOMAIN pathOf : pathOf[c] = pathOf[d] => c = d

\* What the first n of the updates write.
WrittenBy(updates, pathOf, n) ==
    {w \in Leaves \X Quantities :
        \E i \in 1 .. n : /\ updates[i].name \in DOMAIN pathOf
                          /\ w \in WrittenAt(pathOf[updates[i].name], updates[i])}

\* Updates at different paths write different places.
LEMMA WrittenApart ==
    ASSUME NEW p \in Homes, NEW q \in Homes, p # q, NEW t, NEW u,
           IsSections(t.sections), IsSections(u.sections),
           NEW v \in WrittenAt(p, t), NEW w \in WrittenAt(q, u)
    PROVE  v[1] # w[1]
<1>1. PICK s1 \in DOMAIN t.sections :
         \E r \in DOMAIN t.sections[s1] : v = <<Spot(p, s1, r), t.sections[s1][r]>>
  BY DEF WrittenAt
<1>2. PICK r1 \in DOMAIN t.sections[s1] : v = <<Spot(p, s1, r1), t.sections[s1][r1]>>
  BY <1>1
<1>3. PICK s2 \in DOMAIN u.sections :
         \E r \in DOMAIN u.sections[s2] : w = <<Spot(q, s2, r), u.sections[s2][r]>>
  BY DEF WrittenAt
<1>4. PICK r2 \in DOMAIN u.sections[s2] : w = <<Spot(q, s2, r2), u.sections[s2][r2]>>
  BY <1>3
<1>5. s1 \in Sections /\ r1 \in Resources /\ s2 \in Sections /\ r2 \in Resources
  BY DEF IsSections
<1>6. SUFFICES ASSUME Spot(p, s1, r1) = Spot(q, s2, r2) PROVE FALSE
  BY <1>2, <1>4
<1>7. /\ p \in Seq(STRING) /\ q \in Seq(STRING)
      /\ Len(Spot(p, s1, r1)) = Len(p) + 2 /\ Len(Spot(q, s2, r2)) = Len(q) + 2
      /\ \A j \in 1 .. Len(p) : Spot(p, s1, r1)[j] = p[j]
      /\ \A j \in 1 .. Len(q) : Spot(q, s2, r2)[j] = q[j]
  BY <1>5, QuantityPlace
<1>8. Len(p) \in Nat /\ Len(q) \in Nat
  BY <1>7
<1>9. Len(p) = Len(q)
  BY <1>6, <1>7, <1>8
<1>10. \A j \in 1 .. Len(p) : p[j] = q[j]
  BY <1>6, <1>7, <1>9
<1>11. QED
  BY <1>7, <1>9, <1>10, SeqEqual

LEMMA UpdatesGrow ==
    ASSUME NEW root, Fits(root), NEW updates, IsUpdates(updates),
           NEW pathOf, IsPathOf(pathOf), NEW n \in 0 .. Len(updates)
    PROVE  /\ Grown(root, UpdatedAll(root, updates, pathOf)[n], WrittenBy(updates, pathOf, n))
           /\ TagsKept(root, UpdatedAll(root, updates, pathOf)[n],
                       WrittenBy(updates, pathOf, n))
<1> DEFINE after == UpdatedAll(root, updates, pathOf)
           W(m)  == WrittenBy(updates, pathOf, m)
           Good(m) == Grown(root, after[m], W(m)) /\ TagsKept(root, after[m], W(m))
           S == {m \in Nat : m <= Len(updates) => Good(m)}
<1>1. /\ after[0] = root
      /\ \A i \in 1 .. Len(updates) :
            after[i] = IF updates[i].name \in DOMAIN pathOf
                       THEN UpdatedAt(after[i - 1], pathOf[updates[i].name], updates[i])
                       ELSE after[i - 1]
  BY UpdatesRecur DEF IsUpdates
<1>2. Len(updates) \in Nat
  BY DEF IsUpdates
<1> HIDE DEF after
<1>3. 0 \in S
  <2>1. W(0) = {}
    BY DEF WrittenBy
  <2> HIDE DEF W
  <2>2. QED
    BY <1>1, <2>1, NotGrown
<1>4. ASSUME NEW m \in Nat, m \in S PROVE m + 1 \in S
  <2>1. SUFFICES ASSUME m + 1 <= Len(updates) PROVE Good(m + 1)
    OBVIOUS
  <2>2. Grown(root, after[m], W(m)) /\ TagsKept(root, after[m], W(m))
    BY <1>2, <1>4, <2>1
  <2>3. m + 1 \in 1 .. Len(updates) /\ (m + 1) - 1 = m
    BY <1>2, <2>1
  <2> DEFINE u == updates[m + 1]
  <2>4. \A i \in 1 .. m + 1 : i \in 1 .. m \/ i = m + 1
    OBVIOUS
  <2>5. m + 1 \in 1 .. m + 1 /\ \A i \in 1 .. m : i \in 1 .. m + 1
    OBVIOUS
  <2>6. CASE u.name \notin DOMAIN pathOf
    <3>1. after[m + 1] = after[m]
      BY <1>1, <2>3, <2>6
    <3>2. W(m + 1) = W(m)
      BY <2>4, <2>5, <2>6 DEF WrittenBy
    <3> HIDE DEF W
    <3>3. QED
      BY <2>2, <3>1, <3>2
  <2>7. CASE u.name \in DOMAIN pathOf
    <3> DEFINE path == pathOf[u.name]
    <3>1. after[m + 1] = UpdatedAt(after[m], path, u)
      BY <1>1, <2>3, <2>7
    <3>2. path \in Homes /\ IsSections(u.sections)
      BY <2>3, <2>7 DEF IsPathOf, IsUpdates
    <3>3. Fits(after[m])
      BY <2>2 DEF Grown
    <3>4. /\ Grown(after[m], after[m + 1], WrittenAt(path, u))
          /\ TagsKept(after[m], after[m + 1], WrittenAt(path, u))
      <4> HIDE DEF path, u
      <4>1. QED
        BY <3>1, <3>2, <3>3, UpdateGrows
    <3>5. W(m + 1) = W(m) \cup WrittenAt(path, u)
      <4>1. \A w : w \in WrittenAt(path, u) => w \in Leaves \X Quantities
        BY DEF WrittenAt
      <4>2. ASSUME NEW w \in Leaves \X Quantities
            PROVE  w \in W(m + 1) <=> w \in W(m) \/ w \in WrittenAt(path, u)
        BY <2>4, <2>5, <2>7 DEF WrittenBy
      <4>3. \A w : (w \in W(m + 1) \/ w \in W(m)) => w \in Leaves \X Quantities
        BY DEF WrittenBy
      <4> HIDE DEF W
      <4>4. QED
        BY <4>1, <4>2, <4>3
    <3>6. ASSUME NEW v \in W(m), NEW w \in WrittenAt(path, u) PROVE v[1] # w[1]
      <4>1. PICK i \in 1 .. m : /\ updates[i].name \in DOMAIN pathOf
                                /\ v \in WrittenAt(pathOf[updates[i].name], updates[i])
        BY DEF WrittenBy
      <4>2. i \in 1 .. Len(updates) /\ i # m + 1
        BY <1>2, <2>1
      <4>3. updates[i].name # u.name
        BY <2>3, <4>2 DEF IsUpdates
      <4>4. /\ pathOf[updates[i].name] # path /\ pathOf[updates[i].name] \in Homes
            /\ IsSections(updates[i].sections)
        BY <2>7, <4>1, <4>2, <4>3 DEF IsPathOf, IsUpdates
      <4> HIDE DEF path, u
      <4>5. QED
        BY <3>2, <4>1, <4>4, WrittenApart
    <3>7. W(m) \in SUBSET (Leaves \X Quantities)
          /\ WrittenAt(path, u) \in SUBSET (Leaves \X Quantities)
      BY DEF WrittenBy, WrittenAt
    <3> HIDE DEF W, path, u
    <3>8. QED
      BY <2>2, <3>4, <3>5, <3>6, <3>7, GrownTwice
  <2>8. QED
    BY <2>6, <2>7
<1>5. n \in S /\ n \in Nat /\ n <= Len(updates)
  <2> HIDE DEF S
  <2>1. n \in Nat /\ n <= Len(updates)
    BY <1>2
  <2>2. QED
    BY <1>3, <1>4, <2>1, SetInduction
<1>6. QED
  BY <1>5 DEF after

\* The quantities that are asked for are those that are written.
AskedAre(asking, W) ==
    /\ DOMAIN asking \subseteq Leaves
    /\ \A p \in DOMAIN asking : asking[p] \in Quantities /\ <<p, asking[p]>> \in W
    /\ \A w \in W : w[1] \in DOMAIN asking

LEMMA AskingIsWritten ==
    ASSUME NEW updates, IsUpdates(updates), NEW pathOf, IsPathOf(pathOf)
    PROVE  AskedAre(Asking(updates, pathOf), WrittenBy(updates, pathOf, Len(updates)))
<1> DEFINE given == {x \in (1 .. Len(updates)) \X Sections \X Resources :
                       /\ updates[x[1]].name \in DOMAIN pathOf
                       /\ x[2] \in DOMAIN updates[x[1]].sections
                       /\ x[3] \in DOMAIN updates[x[1]].sections[x[2]]}
           Place(x) == pathOf[updates[x[1]].name] \o <<x[2], x[3]>>
           Text(x)  == updates[x[1]].sections[x[2]][x[3]]
           AtPlace(p) == CHOOSE x \in given : Place(x) = p
           W == WrittenBy(updates, pathOf, Len(updates))
           asking == Asking(updates, pathOf)
<1>1. asking = [p \in {Place(x) : x \in given} |-> Text(AtPlace(p))]
  BY DEF Asking
<1>2. ASSUME NEW x \in given PROVE Place(x) \in Leaves /\ Text(x) \in Quantities
                                   /\ <<Place(x), Text(x)>> \in W
  <2>1. x[1] \in 1 .. Len(updates) /\ x[2] \in Sections /\ x[3] \in Resources
    OBVIOUS
  <2>2. PICK i \in 1 .. Len(updates), s \in Sections, r \in Resources :
           x[1] = i /\ x[2] = s /\ x[3] = r
    BY <2>1
  <2>3. /\ updates[i].name \in DOMAIN pathOf /\ s \in DOMAIN updates[i].sections
        /\ r \in DOMAIN updates[i].sections[s]
    BY <2>2
  <2> DEFINE path == pathOf[updates[i].name]
             text == updates[i].sections[s][r]
  <2>4. Place(x) = Spot(path, s, r) /\ Text(x) = text
    BY <2>2 DEF Spot
  <2>5. path \in Homes /\ text \in Quantities
    BY <2>3 DEF IsPathOf, IsUpdates, IsSections
  <2>6. Spot(path, s, r) \in Leaves
    BY <2>5, QuantityPlace
  <2>7. <<Spot(path, s, r), text>> \in WrittenAt(path, updates[i])
    BY <2>3, <2>5, <2>6 DEF WrittenAt
  <2>8. <<Spot(path, s, r), text>> \in WrittenBy(updates, pathOf, Len(updates))
    <3> HIDE DEF text
    <3>1. QED
      BY <2>3, <2>5, <2>6, <2>7 DEF WrittenBy
  <2> HIDE DEF Place, Text, path, text
  <2>9. QED
    BY <2>4, <2>5, <2>6, <2>8
<1>3. ASSUME NEW w \in W PROVE \E x \in given : w[1] = Place(x)
  <2>1. PICK i \in 1 .. Len(updates) :
           updates[i].name \in DOMAIN pathOf
           /\ w \in WrittenAt(pathOf[updates[i].name], updates[i])
    BY DEF WrittenBy
  <2> DEFINE path == pathOf[updates[i].name]
  <2>2. PICK s \in DOMAIN updates[i].sections :
           \E r \in DOMAIN updates[i].sections[s] :
              w = <<Spot(path, s, r), updates[i].sections[s][r]>>
    BY <2>1 DEF WrittenAt
  <2>3. PICK r \in DOMAIN updates[i].sections[s] :
           w = <<Spot(path, s, r), updates[i].sections[s][r]>>
    BY <2>2
  <2>4. s \in Sections /\ r \in Resources
    BY DEF IsUpdates, IsSections
  <2> DEFINE x == <<i, s, r>>
  <2>5. x \in given
    BY <2>1, <2>4
  <2>6. Place(x) = Spot(path, s, r)
    BY DEF Spot
  <2>7. w[1] = Spot(path, s, r)
    BY <2>3
  <2> HIDE DEF given, Place, x, path
  <2>8. QED
    BY <2>5, <2>6, <2>7
<1> HIDE DEF given, Place, Text, W, asking
<1>4. ASSUME NEW p \in DOMAIN asking
      PROVE  p \in Leaves /\ asking[p] \in Quantities /\ <<p, asking[p]>> \in W
  <2>1. PICK y \in given : Place(y) = p
    BY <1>1
  <2>2. AtPlace(p) \in given /\ Place(AtPlace(p)) = p
    BY <2>1
  <2>3. asking[p] = Text(AtPlace(p))
    BY <1>1
  <2> HIDE DEF AtPlace
  <2>4. QED
    BY <1>2, <2>2, <2>3
<1>5. ASSUME NEW w \in W PROVE w[1] \in DOMAIN asking
  BY <1>1, <1>3
<1>6. QED
  BY <1>4, <1>5 DEF AskedAre, W, asking

-----------------------------------------------------------------------------
(* The calls. *)

LEMMA UpdatesGiven ==
    ASSUME NEW us \in Updates
    PROVE  /\ IsUpdates(us) /\ IsPathOf(ContainerPaths(us))
           /\ us # <<>> => 1 \in 1 .. Len(us)
<1> DEFINE Given == UNION {[S -> UNION {[R -> Quantities] : R \in SUBSET Resources}]
                              : S \in SUBSET Sections}
           Update == [name : STRING, sections : Given]
<1>1. us \in Seq(Update)
  BY UpdatesAssumption
<1> HIDE DEF Given
<1>2. /\ Len(us) \in Nat /\ DOMAIN us = 1 .. Len(us)
      /\ \A i \in 1 .. Len(us) : us[i].sections \in Given
      /\ us # <<>> => 1 \in 1 .. Len(us)
  <2>1. \A u \in Update : u.sections \in Given
    OBVIOUS
  <2> HIDE DEF Update
  <2>2. \A i \in 1 .. Len(us) : us[i] \in Update
    BY <1>1
  <2>3. us # <<>> => 1 \in 1 .. Len(us)
    BY <1>1
  <2>4. QED
    BY <1>1, <2>1, <2>2, <2>3
<1>3. ASSUME NEW sections \in Given PROVE IsSections(sections)
  <2>1. PICK S \in SUBSET Sections :
           sections \in [S -> UNION {[R -> Quantities] : R \in SUBSET Resources}]
    BY DEF Given
  <2>2. ASSUME NEW s \in DOMAIN sections
        PROVE  /\ DOMAIN sections[s] \subseteq Resources
               /\ \A r \in DOMAIN sections[s] : sections[s][r] \in Quantities
    <3>1. PICK R \in SUBSET Resources : sections[s] \in [R -> Quantities]
      BY <2>1
    <3>2. QED
      BY <3>1
  <2>3. QED
    BY <2>1, <2>2 DEF IsSections
<1>4. \A i, j \in 1 .. Len(us) : us[i].name = us[j].name => i = j
  BY <1>2, UpdatesAssumption
<1>5. IsUpdates(us)
  BY <1>2, <1>3, <1>4 DEF IsUpdates
<1>6. IsPathOf(ContainerPaths(us))
  <2>1. \A c \in Names(us) : <<c, "resources">> \in Homes
    BY <1>2, HomesAssumption DEF Names
  <2>2. \A c, d \in Names(us) : <<c, "resources">> = <<d, "resources">> => c = d
    OBVIOUS
  <2>3. QED
    BY <2>1, <2>2 DEF IsPathOf, ContainerPaths
<1>7. QED
  BY <1>2, <1>5, <1>6

\* A detected block has one name.
LEMMA PathsGiven ==
    ASSUME NEW root, NEW pathOf \in PathMaps \cup Detected(root)
    PROVE  IsPathOf(pathOf)
<1>1. CASE pathOf \in PathMaps
  BY <1>1, HomesAssumption DEF IsPathOf
<1>2. CASE pathOf \in Detected(root)
  <2> DEFINE Found == {p \in Places \ {<<>>} :
                          /\ p[Len(p)] = "resources"
                          /\ Exists(root, p) /\ NodeAt(root, p).kind = "mapping"}
             NameOf(p) == IF Len(p) = 1 THEN "main" ELSE p[Len(p) - 1]
  <2>1. /\ pathOf \in [{NameOf(p) : p \in Found} -> Found]
        /\ \A c \in DOMAIN pathOf : NameOf(pathOf[c]) = c
    BY <1>2 DEF Detected
  <2>2. \A p \in Found : p \in Homes
    BY HomesAssumption
  <2> HIDE DEF Found, NameOf
  <2>3. QED
    BY <2>1, <2>2 DEF IsPathOf
<1>3. QED
  BY <1>1, <1>2

\* The first of the updates at the path of the values.
LEMMA FirstWrites ==
    ASSUME NEW us \in Updates, NEW path \in Homes, NEW first, NEW pathOf,
           first = IF us = <<>> THEN [sections |-> <<>>] ELSE us[1],
           pathOf = [c \in {us[1].name : i \in DOMAIN us} |-> path]
    PROVE  /\ IsPathOf(pathOf) /\ IsSections(first.sections)
           /\ WrittenBy(us, pathOf, Len(us)) = WrittenAt(path, first)
<1>1. /\ Len(us) \in Nat /\ DOMAIN us = 1 .. Len(us)
      /\ \A i \in 1 .. Len(us) : IsSections(us[i].sections)
      /\ \A i, j \in 1 .. Len(us) : us[i].name = us[j].name => i = j
  BY UpdatesGiven DEF IsUpdates
<1>2. IsPathOf(pathOf)
  <2>1. \A c \in DOMAIN pathOf : c = us[1].name /\ pathOf[c] = path
    OBVIOUS
  <2>2. QED
    BY <2>1 DEF IsPathOf
<1>3. CASE us = <<>>
  <2>1. Len(us) = 0 /\ first.sections = <<>> /\ DOMAIN first.sections = {}
    BY <1>3
  <2>2. WrittenBy(us, pathOf, Len(us)) = {}
    BY <2>1 DEF WrittenBy
  <2>3. WrittenAt(path, first) = {} /\ IsSections(first.sections)
    BY <2>1 DEF WrittenAt, IsSections
  <2>4. QED
    BY <1>2, <2>2, <2>3
<1>4. CASE us # <<>>
  <2>1. 1 \in 1 .. Len(us) /\ first = us[1]
    BY <1>4, UpdatesGiven
  <2>2. us[1].name \in DOMAIN pathOf /\ pathOf[us[1].name] = path
    BY <1>1, <2>1
  <2>3. \A i \in 1 .. Len(us) : us[i].name \in DOMAIN pathOf => i = 1
    BY <1>1, <2>1
  <2>4. \A w : w \in WrittenAt(path, first) => w \in Leaves \X Quantities
    BY DEF WrittenAt
  <2>5. WrittenBy(us, pathOf, Len(us)) = WrittenAt(path, first)
    <3>1. \A w : w \in WrittenBy(us, pathOf, Len(us)) => w \in WrittenAt(path, first)
      BY <2>1, <2>2, <2>3 DEF WrittenBy
    <3>2. \A w \in Leaves \X Quantities :
             w \in WrittenAt(path, first) => w \in WrittenBy(us, pathOf, Len(us))
      BY <2>1, <2>2 DEF WrittenBy
    <3>3. QED
      BY <2>4, <3>1, <3>2
  <2>6. QED
    BY <1>1, <1>2, <2>1, <2>5
<1>5. QED
  BY <1>3, <1>4

LEMMA MappingNode ==
    ASSUME NEW at
    PROVE  /\ Mapping(at).kind = "mapping" /\ Keys(Mapping(at)) = DOMAIN at
           /\ \A k \in DOMAIN at : FindOrCreate(Mapping(at), k) = at[k]
  BY DEF Mapping, Keys, FindOrCreate

\* The nodes of a generated patch along a way: of its length, its keys and its end.
LEMMA PatchWay ==
    ASSUME NEW us \in Updates, us # <<>>, NEW q \in Seq(STRING), Exists(GeneratedPatch(us), q)
    PROVE  LET node     == NodeAt(GeneratedPatch(us), q)
               sections == SectionsOf(us, q[1])
           IN  /\ Len(q) \in 0 .. 4
               /\ Len(q) = 0 => node.kind = "mapping" /\ Keys(node) = Names(us)
               /\ Len(q) > 0 => q[1] \in Names(us)
               /\ Len(q) = 1 => Keys(node) = {"resources"}
               /\ Len(q) > 1 => q[2] = "resources"
               /\ Len(q) = 2 => Keys(node) \subseteq DOMAIN sections
               /\ Len(q) > 2 => q[3] \in DOMAIN sections
               /\ Len(q) = 3 => Keys(node) = DOMAIN sections[q[3]]
               /\ Len(q) > 3 => q[4] \in DOMAIN sections[q[3]]
               /\ Len(q) = 4 => node = Quoted(sections[q[3]][q[4]])
<1> DEFINE b == GeneratedPatch(us)
           n == Len(q)
           way == Way(b, q)
           Sec(c) == SectionsOf(us, c)
           Filled(sections) == {s \in DOMAIN sections : DOMAIN sections[s] # {}}
           Section(values) == Mapping([r \in DOMAIN values |-> Quoted(values[r])])
           Patch(sections) == Mapping([s \in Filled(sections) |-> Section(sections[s])])
           Container(c) == Mapping([k \in {"resources"} |-> Patch(Sec(c))])
<1>1. b = Mapping([c \in Names(us) |-> Container(c)])
  BY DEF GeneratedPatch
<1>2. /\ way[0] = b /\ n \in Nat
      /\ \A i \in 1 .. n : way[i] = FindOrCreate(way[i - 1], q[i])
      /\ \A i \in 1 .. n : q[i] \in Keys(way[i - 1])
      /\ NodeAt(b, q) = way[n]
  BY WayRecurs DEF Exists, NodeAt
<1>3. /\ b.kind = "mapping" /\ Keys(b) = Names(us)
      /\ \A c \in Names(us) : FindOrCreate(b, c) = Container(c)
  <2> HIDE DEF Container, b
  <2>1. QED
    BY <1>1, MappingNode
<1>4. \A c : /\ Keys(Container(c)) = {"resources"}
             /\ FindOrCreate(Container(c), "resources") = Patch(Sec(c))
  <2> HIDE DEF Patch, Sec
  <2>1. QED
    BY MappingNode
<1>5. \A sections : /\ Keys(Patch(sections)) = Filled(sections)
                    /\ \A s \in Filled(sections) :
                          FindOrCreate(Patch(sections), s) = Section(sections[s])
  <2> HIDE DEF Section, Filled
  <2>1. QED
    BY MappingNode
<1>6. \A values : /\ Keys(Section(values)) = DOMAIN values
                  /\ \A r \in DOMAIN values :
                        FindOrCreate(Section(values), r) = Quoted(values[r])
  <2> HIDE DEF Quoted
  <2>1. QED
    BY MappingNode DEF Quoted
<1>7. \A text : Keys(Quoted(text)) = {}
  BY DEF Quoted, Keys
<1>8. \A sections : Filled(sections) \subseteq DOMAIN sections
  OBVIOUS
<1> HIDE DEF b, n, way, Sec, Filled, Section, Patch, Container
<1>9. n > 0 => q[1] \in Names(us) /\ way[1] = Container(q[1])
  BY <1>2, <1>3
<1>10. n > 1 => q[2] = "resources" /\ way[2] = Patch(Sec(q[1]))
  <2>1. n > 1 => n > 0 /\ 2 \in 1 .. n /\ 2 - 1 = 1
    BY <1>2
  <2>2. QED
    BY <1>2, <1>4, <1>9, <2>1
<1>11. n > 2 => q[3] \in Filled(Sec(q[1])) /\ way[3] = Section(Sec(q[1])[q[3]])
  <2>1. n > 2 => n > 1 /\ 3 \in 1 .. n /\ 3 - 1 = 2
    BY <1>2
  <2>2. QED
    BY <1>2, <1>5, <1>10, <2>1
<1>12. n > 3 => q[4] \in DOMAIN Sec(q[1])[q[3]] /\ way[4] = Quoted(Sec(q[1])[q[3]][q[4]])
  <2>1. n > 3 => n > 2 /\ 4 \in 1 .. n /\ 4 - 1 = 3
    BY <1>2
  <2>2. QED
    BY <1>2, <1>6, <1>11, <2>1
<1>13. n <= 4
  <2>1. n > 4 => n > 3 /\ 5 \in 1 .. n /\ 5 - 1 = 4
    BY <1>2
  <2>2. QED
    BY <1>2, <1>7, <1>12, <2>1
<1>14. /\ n > 2 => n > 1 /\ n > 0
       /\ n > 3 => n > 2
       /\ n = 1 => n > 0
       /\ n = 2 => n > 1
       /\ n = 3 => n > 2
       /\ n = 4 => n > 3
       /\ n \in 0 .. 4
  BY <1>2, <1>13
<1>15. /\ n = 0 => Keys(way[n]) = Names(us) /\ way[n].kind = "mapping"
       /\ n = 1 => Keys(way[n]) = {"resources"}
       /\ n = 2 => Keys(way[n]) \subseteq DOMAIN Sec(q[1])
       /\ n = 3 => Keys(way[n]) = DOMAIN Sec(q[1])[q[3]]
       /\ n = 4 => way[n] = Quoted(Sec(q[1])[q[3]][q[4]])
  BY <1>2, <1>3, <1>4, <1>5, <1>6, <1>8, <1>9, <1>10, <1>11, <1>12, <1>14
<1>16. QED
  BY <1>2, <1>8, <1>9, <1>10, <1>11, <1>12, <1>14, <1>15 DEF b, n, way, Sec

\* The place of a quantity leads to it in a generated patch.
LEMMA PatchHolds ==
    ASSUME NEW us \in Updates, NEW i \in 1 .. Len(us), NEW s \in DOMAIN us[i].sections,
           NEW r \in DOMAIN us[i].sections[s]
    PROVE  LET p == Spot(<<us[i].name, "resources">>, s, r)
           IN  /\ Exists(GeneratedPatch(us), p)
               /\ NodeAt(GeneratedPatch(us), p) = Quoted(us[i].sections[s][r])
<1> DEFINE b == GeneratedPatch(us)
           c == us[i].name
           p == Spot(<<c, "resources">>, s, r)
           way == Way(b, p)
           Filled(sections) == {t \in DOMAIN sections : DOMAIN sections[t] # {}}
           Section(values) == Mapping([x \in DOMAIN values |-> Quoted(values[x])])
           Patch(sections) == Mapping([t \in Filled(sections) |-> Section(sections[t])])
           Container(d) == Mapping([k \in {"resources"} |-> Patch(SectionsOf(us, d))])
<1>1. IsUpdates(us) /\ c \in Names(us) /\ <<c, "resources">> \in Homes
  <2>1. IsUpdates(us) /\ IsPathOf(ContainerPaths(us))
    BY UpdatesGiven
  <2>2. c \in Names(us)
    BY DEF Names
  <2>3. c \in DOMAIN ContainerPaths(us) /\ ContainerPaths(us)[c] = <<c, "resources">>
    BY <2>2 DEF ContainerPaths
  <2>4. QED
    BY <2>1, <2>2, <2>3 DEF IsPathOf
<1>2. s \in Sections /\ r \in Resources
  BY <1>1 DEF IsUpdates, IsSections
<1>3. SectionsOf(us, c) = us[i].sections
  BY <1>1 DEF IsUpdates, SectionsOf
<1>4. us # <<>>
  OBVIOUS
<1>5. b = Mapping([d \in Names(us) |-> Container(d)])
  BY <1>4 DEF GeneratedPatch
<1>6. /\ p \in Seq(STRING) /\ Len(p) = 4
      /\ p[1] = c /\ p[2] = "resources" /\ p[3] = s /\ p[4] = r
  <2> DEFINE home == <<c, "resources">>
  <2>1. Len(home) = 2 /\ home[1] = c /\ home[2] = "resources"
    OBVIOUS
  <2> HIDE DEF home
  <2>2. home \in Homes
    BY <1>1 DEF home
  <2>3. /\ Spot(home, s, r) \in Seq(STRING)
        /\ Len(Spot(home, s, r)) = Len(home) + 2
        /\ \A j \in 1 .. Len(home) : Spot(home, s, r)[j] = home[j]
        /\ Spot(home, s, r)[Len(home) + 1] = s /\ Spot(home, s, r)[Len(home) + 2] = r
    BY <1>2, <2>2, QuantityPlace
  <2>4. p = Spot(home, s, r)
    BY DEF home
  <2> HIDE DEF p
  <2>5. QED
    BY <2>1, <2>3, <2>4
<1> HIDE DEF p
<1>7. /\ way[0] = b
      /\ \A j \in 1 .. 4 : way[j] = FindOrCreate(way[j - 1], p[j])
  BY <1>6, WayRecurs
<1>8. c \in Keys(b) /\ FindOrCreate(b, c) = Container(c)
  <2> HIDE DEF Container, b, c
  <2>1. QED
    BY <1>1, <1>5, MappingNode
<1>9. /\ "resources" \in Keys(Container(c))
      /\ FindOrCreate(Container(c), "resources") = Patch(us[i].sections)
  <2> HIDE DEF Patch, c
  <2>1. QED
    BY <1>3, MappingNode
<1>10. /\ s \in Keys(Patch(us[i].sections))
       /\ FindOrCreate(Patch(us[i].sections), s) = Section(us[i].sections[s])
  <2>1. s \in Filled(us[i].sections)
    OBVIOUS
  <2> HIDE DEF Section, Filled
  <2>2. QED
    BY <2>1, MappingNode
<1>11. /\ r \in Keys(Section(us[i].sections[s]))
       /\ FindOrCreate(Section(us[i].sections[s]), r) = Quoted(us[i].sections[s][r])
  BY MappingNode
<1> HIDE DEF b, way, c, Filled, Section, Patch, Container
<1>12. 1 \in 1 .. 4 /\ 2 \in 1 .. 4 /\ 3 \in 1 .. 4 /\ 4 \in 1 .. 4
       /\ 1 - 1 = 0 /\ 2 - 1 = 1 /\ 3 - 1 = 2 /\ 4 - 1 = 3
  OBVIOUS
<1>13. way[1] = Container(c) /\ p[1] \in Keys(way[0])
  BY <1>6, <1>7, <1>8, <1>12
<1>14. way[2] = Patch(us[i].sections) /\ p[2] \in Keys(way[1])
  BY <1>6, <1>7, <1>9, <1>12, <1>13
<1>15. way[3] = Section(us[i].sections[s]) /\ p[3] \in Keys(way[2])
  BY <1>6, <1>7, <1>10, <1>12, <1>14
<1>16. way[4] = Quoted(us[i].sections[s][r]) /\ p[4] \in Keys(way[3])
  BY <1>6, <1>7, <1>11, <1>12, <1>15
<1>17. \A j \in 1 .. 4 : p[j] \in Keys(way[j - 1])
  <2>1. \A j \in 1 .. 4 : j = 1 \/ j = 2 \/ j = 3 \/ j = 4
    OBVIOUS
  <2>2. QED
    BY <1>12, <1>13, <1>14, <1>15, <1>16, <2>1
<1>18. Exists(b, p) /\ NodeAt(b, p) = way[4]
  BY <1>6, <1>17 DEF Exists, NodeAt, way
<1>19. QED
  BY <1>16, <1>18 DEF b, p, c

\* An empty mapping holds nothing, but every way through it is open.
LEMMA EmptyWay ==
    ASSUME NEW q \in Seq(STRING)
    PROVE  (Exists(Empty, q) => q = <<>>) /\ Open(Empty, q, Len(q))
<1>1. Way(Empty, q)[0] = Empty
  BY WayRecurs
<1>2. ASSUME Exists(Empty, q), q # <<>> PROVE FALSE
  <2>1. 1 \in 1 .. Len(q) /\ 1 - 1 = 0
    BY <1>2
  <2>2. QED
    BY <1>1, <1>2, <2>1, EmptyNode DEF Exists
<1>3. ASSUME NEW j \in 0 .. Len(q) - 1 PROVE Way(Empty, q)[j].kind = "mapping"
  <2>1. j = 0 \/ (1 \in 1 .. j /\ 1 - 1 = 0)
    OBVIOUS
  <2>2. CASE j # 0
    <3>1. ~There(Empty, q, j)
      BY <1>1, <2>1, <2>2, EmptyNode DEF There
    <3>2. j \in 0 .. Len(q)
      OBVIOUS
    <3>3. QED
      BY <3>1, <3>2, NotThere, EmptyNode
  <2>3. QED
    BY <1>1, <2>2, EmptyNode
<1>4. QED
  BY <1>2, <1>3 DEF Open

\* A generated patch has what it is generated from, as strings, and nothing else.
LEMMA PatchGrows ==
    ASSUME NEW us \in Updates, us # <<>>
    PROVE  LET W == WrittenBy(us, ContainerPaths(us), Len(us))
           IN  /\ Grown(Empty, GeneratedPatch(us), W)
               /\ \A q \in Leaves : Exists(GeneratedPatch(us), q) =>
                     /\ NodeAt(GeneratedPatch(us), q).tag = "str"
                     /\ \E w \in W : w[1] = q
<1> DEFINE b == GeneratedPatch(us)
           paths == ContainerPaths(us)
           W == WrittenBy(us, paths, Len(us))
           Sec(c) == SectionsOf(us, c)
<1>1. IsUpdates(us) /\ \A c \in Names(us) : c \in DOMAIN paths /\ paths[c] = <<c, "resources">>
  BY UpdatesGiven DEF ContainerPaths
<1>2. ASSUME NEW c \in Names(us)
      PROVE  /\ <<c, "resources">> \in Homes /\ IsSections(Sec(c))
             /\ \E i \in 1 .. Len(us) : us[i].name = c /\ us[i].sections = Sec(c)
  <2>1. <<c, "resources">> \in Homes
    BY <1>1, UpdatesGiven DEF IsPathOf
  <2>2. PICK i \in 1 .. Len(us) : us[i].name = c
    BY DEF Names
  <2>3. Sec(c) = us[i].sections
    BY <1>1, <2>2 DEF IsUpdates, SectionsOf
  <2>4. QED
    BY <1>1, <2>1, <2>2, <2>3 DEF IsUpdates
<1>3. ASSUME NEW q \in Seq(STRING), Exists(b, q)
      PROVE  LET node == NodeAt(b, q)
             IN  /\ Len(q) \in 0 .. 4
                 /\ Len(q) = 0 => node.kind = "mapping" /\ Keys(node) = Names(us)
                 /\ Len(q) > 0 => q[1] \in Names(us)
                 /\ Len(q) = 1 => Keys(node) = {"resources"}
                 /\ Len(q) > 1 => q[2] = "resources"
                 /\ Len(q) = 2 => Keys(node) \subseteq DOMAIN Sec(q[1])
                 /\ Len(q) > 2 => q[3] \in DOMAIN Sec(q[1])
                 /\ Len(q) = 3 => Keys(node) = DOMAIN Sec(q[1])[q[3]]
                 /\ Len(q) > 3 => q[4] \in DOMAIN Sec(q[1])[q[3]]
                 /\ Len(q) = 4 => node = Quoted(Sec(q[1])[q[3]][q[4]])
  BY <1>3, PatchWay
<1>4. \A i \in 1 .. Len(us) : \A s \in DOMAIN us[i].sections :
         \A r \in DOMAIN us[i].sections[s] :
            /\ Exists(b, Spot(<<us[i].name, "resources">>, s, r))
            /\ NodeAt(b, Spot(<<us[i].name, "resources">>, s, r))
                  = Quoted(us[i].sections[s][r])
  BY PatchHolds
<1> HIDE DEF b, Sec, paths
<1>5. ASSUME NEW q \in Seq(STRING), Exists(b, q), Len(q) > 0
      PROVE  q[1] \in Names(us) /\ OnTrack(q, Len(q), <<q[1], "resources">>, Sec(q[1]))
  <2> DEFINE home == <<q[1], "resources">>
  <2>1. Len(home) = 2 /\ home[1] = q[1] /\ home[2] = "resources"
    OBVIOUS
  <2> HIDE DEF home
  <2>2. Len(q) \in 0 .. 4
    BY <1>3, <1>5
  <2>3. \A j \in 1 .. Len(q) : j <= 2 => j = 1 \/ (j = 2 /\ Len(q) > 1)
    BY <2>2
  <2>4. \A j \in 1 .. Len(q) : j <= Len(home) => q[j] = home[j]
    BY <1>3, <1>5, <2>1, <2>3
  <2>5. /\ Len(q) > Len(home) => q[Len(home) + 1] \in DOMAIN Sec(q[1])
        /\ Len(q) > Len(home) + 1
              => q[Len(home) + 2] \in DOMAIN Sec(q[1])[q[Len(home) + 1]]
    <3>1. Len(home) + 1 = 3 /\ Len(home) + 2 = 4
      BY <2>1
    <3>2. QED
      BY <1>3, <1>5, <2>1, <3>1
  <2>6. OnTrack(q, Len(q), home, Sec(q[1]))
    BY <2>4, <2>5 DEF OnTrack
  <2>7. QED
    BY <1>3, <1>5, <2>6 DEF home
\* Where a way that exists ends.
<1>6. ASSUME NEW q \in Places, Exists(b, q), q # <<>>
      PROVE  /\ Len(q) < 4 => q \notin Leaves
             /\ \A k \in Keys(NodeAt(b, q)) : Append(q, k) \in Places
             /\ Len(q) = 4 => \E w \in W : w[1] = q
  <2>1. q \in Seq(STRING) /\ Len(q) \in Nat /\ Len(q) > 0
    BY <1>6, PlacesFacts
  <2>2. q[1] \in Names(us) /\ OnTrack(q, Len(q), <<q[1], "resources">>, Sec(q[1]))
    BY <1>5, <1>6, <2>1
  <2> DEFINE home == <<q[1], "resources">>
             sections == Sec(q[1])
  <2>3. Len(home) = 2 /\ home[2] = "resources" /\ home \in Homes /\ IsSections(sections)
    BY <1>2, <2>2
  <2>4. OnTrack(q, Len(q), home, sections)
    BY <2>2
  <2> HIDE DEF home, sections
  <2>5. /\ Len(q) < 2 => Append(q, home[Len(q) + 1]) \in Places
        /\ Len(q) = 2 => \A s \in DOMAIN sections : Append(q, s) \in Places
        /\ Len(q) = 3 => \A r \in DOMAIN sections[q[Len(q)]] : Append(q, r) \in Places
        /\ Len(q) < 4 => q \notin Leaves
        /\ Len(q) = 4 => \E s \in DOMAIN sections : \E r \in DOMAIN sections[s] :
                            q = Spot(home, s, r)
    <3>1. Len(home) + 1 = 3 /\ Len(home) + 2 = 4
      BY <2>3
    <3>2. /\ Len(q) < Len(home) => Append(q, home[Len(q) + 1]) \in Places
          /\ Len(q) = Len(home) => \A s \in DOMAIN sections : Append(q, s) \in Places
          /\ Len(q) = Len(home) + 1 =>
                \A r \in DOMAIN sections[q[Len(q)]] : Append(q, r) \in Places
          /\ Len(q) < Len(home) + 2 => q \notin Leaves
          /\ Len(q) = Len(home) + 2 =>
                \E s \in DOMAIN sections : \E r \in DOMAIN sections[s] :
                   q = Spot(home, s, r)
      BY <2>3, <2>4, TrackEnds
    <3>3. QED
      BY <2>3, <3>1, <3>2
  <2>6. /\ Len(q) = 1 => Keys(NodeAt(b, q)) = {"resources"}
        /\ Len(q) = 2 => Keys(NodeAt(b, q)) \subseteq DOMAIN sections
        /\ Len(q) = 3 => Keys(NodeAt(b, q)) = DOMAIN sections[q[3]]
        /\ Len(q) = 4 => NodeAt(b, q) = Quoted(sections[q[3]][q[4]])
        /\ Len(q) \in 0 .. 4
    BY <1>3, <1>6, <2>1 DEF sections
  <2>7. Len(q) = 1 \/ Len(q) = 2 \/ Len(q) = 3 \/ Len(q) = 4
    BY <2>1, <2>6
  <2>8. ASSUME NEW k \in Keys(NodeAt(b, q)) PROVE Append(q, k) \in Places
    <3>1. CASE Len(q) = 1
      <4>1. Len(q) < 2 /\ Len(q) + 1 = 2 /\ k = "resources"
        BY <2>6, <3>1
      <4>2. QED
        BY <2>3, <2>5, <4>1
    <3>2. CASE Len(q) = 2
      BY <2>5, <2>6, <3>2
    <3>3. CASE Len(q) = 3
      BY <2>5, <2>6, <3>3
    <3>4. CASE Len(q) = 4
      BY <2>6, <3>4 DEF Quoted, Keys
    <3>5. QED
      BY <2>7, <3>1, <3>2, <3>3, <3>4
  <2>9. ASSUME Len(q) = 4 PROVE \E w \in W : w[1] = q
    <3>1. PICK s \in DOMAIN sections : \E r \in DOMAIN sections[s] : q = Spot(home, s, r)
      BY <2>5, <2>9
    <3>2. PICK r \in DOMAIN sections[s] : q = Spot(home, s, r)
      BY <3>1
    <3>3. s \in Sections /\ r \in Resources /\ sections[s][r] \in Quantities
      BY <2>3 DEF IsSections
    <3>4. q \in Leaves
      BY <2>3, <3>2, <3>3, QuantityPlace
    <3>5. PICK i \in 1 .. Len(us) : us[i].name = q[1] /\ us[i].sections = sections
      BY <1>2, <2>2 DEF sections
    <3>6. us[i].name \in DOMAIN paths /\ paths[us[i].name] = home
      BY <1>1, <2>2, <3>5 DEF home
    <3> DEFINE w == <<q, sections[s][r]>>
    <3>7. w \in Leaves \X Quantities /\ w[1] = q
      BY <3>3, <3>4
    <3>8. w \in WrittenAt(home, us[i])
      BY <3>2, <3>5, <3>7 DEF WrittenAt
    <3> HIDE DEF w
    <3>9. w \in W
      BY <3>6, <3>7, <3>8 DEF WrittenBy
    <3>10. QED
      BY <3>7, <3>9
  <2>10. QED
    BY <2>5, <2>8, <2>9
<1>7. ASSUME NEW q \in Leaves, Exists(b, q)
      PROVE  /\ IsScalar(NodeAt(b, q)) /\ NodeAt(b, q).tag = "str"
             /\ \E w \in W : w[1] = q
  <2>1. q \in Places /\ q \in Seq(STRING) /\ q # <<>>
    BY LeavesAssumption, PlacesFacts
  <2>2. Len(q) \in 0 .. 4
    BY <1>3, <1>7, <2>1
  <2>3. ~(Len(q) < 4)
    BY <1>6, <1>7, <2>1
  <2>4. Len(q) = 4
    <3>1. \A n \in 0 .. 4 : ~(n < 4) => n = 4
      OBVIOUS
    <3> HIDE DEF W
    <3>2. QED
      BY <2>2, <2>3, <3>1
  <2>5. NodeAt(b, q) = Quoted(Sec(q[1])[q[3]][q[4]])
    BY <1>3, <1>7, <2>1, <2>4
  <2>6. IsScalar(NodeAt(b, q)) /\ NodeAt(b, q).tag = "str"
    BY <2>5 DEF IsScalar, Quoted
  <2> HIDE DEF W
  <2>7. QED
    BY <1>6, <1>7, <2>1, <2>4, <2>6
<1>8. b.kind = "mapping" /\ Keys(b) = Names(us)
  <2>1. <<>> \in Seq(STRING) /\ Len(<<>>) = 0
    OBVIOUS
  <2>2. Exists(b, <<>>) /\ NodeAt(b, <<>>) = b
    <3>1. Way(b, <<>>)[0] = b
      BY <2>1, WayRecurs
    <3>2. QED
      BY <2>1, <3>1 DEF Exists, NodeAt
  <2>3. QED
    BY <1>3, <2>1, <2>2
<1>9. Fits(b)
  <2>1. SUFFICES ASSUME NEW p \in Places, Exists(b, p)
                 PROVE  /\ \A k \in Keys(NodeAt(b, p)) : Append(p, k) \in Places
                        /\ p \in Leaves => IsScalar(NodeAt(b, p))
    BY DEF Fits
  <2>2. CASE p # <<>>
    <3> HIDE DEF W
    <3>1. QED
      BY <1>6, <1>7, <2>1, <2>2
  <2>3. CASE p = <<>>
    <3>1. p \notin Leaves
      BY <2>3, LeavesAssumption
    <3>2. ASSUME NEW k \in Keys(NodeAt(b, p)) PROVE Append(p, k) \in Places
      <4>1. p \in Seq(STRING) /\ Len(p) = 0
        BY <2>3
      <4>2. k \in Names(us)
        BY <1>3, <2>1, <3>2, <4>1
      <4> DEFINE home == <<k, "resources">>
      <4>3. home \in Homes /\ IsSections(Sec(k))
        BY <1>2, <4>2
      <4>4. Len(home) = 2 /\ home[1] = k
        OBVIOUS
      <4> HIDE DEF home
      <4>5. OnTrack(p, Len(p), home, Sec(k))
        BY <4>1, <4>4 DEF OnTrack
      <4>6. Append(p, home[Len(p) + 1]) \in Places
        <5>1. Len(p) < Len(home)
          BY <4>1, <4>4
        <5>2. QED
          BY <4>3, <4>5, <5>1, TrackEnds
      <4>7. Len(p) + 1 = 1
        BY <4>1
      <4>8. QED
        BY <4>4, <4>6, <4>7
    <3>3. QED
      BY <3>1, <3>2
  <2>4. QED
    BY <2>2, <2>3
<1>10. ASSUME NEW w \in W PROVE Exists(b, w[1]) /\ NodeAt(b, w[1]).value = w[2]
  <2>1. PICK i \in 1 .. Len(us) : /\ us[i].name \in DOMAIN paths
                                  /\ w \in WrittenAt(paths[us[i].name], us[i])
    BY DEF WrittenBy
  <2>2. paths[us[i].name] = <<us[i].name, "resources">>
    BY <1>1 DEF Names
  <2> DEFINE home == <<us[i].name, "resources">>
  <2>3. PICK s \in DOMAIN us[i].sections :
           \E r \in DOMAIN us[i].sections[s] : w = <<Spot(home, s, r), us[i].sections[s][r]>>
    BY <2>1, <2>2 DEF WrittenAt
  <2>4. PICK r \in DOMAIN us[i].sections[s] : w = <<Spot(home, s, r), us[i].sections[s][r]>>
    BY <2>3
  <2>5. w[1] = Spot(home, s, r) /\ w[2] = us[i].sections[s][r]
    BY <2>4
  <2>6. Exists(b, w[1]) /\ NodeAt(b, w[1]) = Quoted(w[2])
    BY <1>4, <2>5
  <2>7. QED
    BY <2>6 DEF Quoted
<1>11. ASSUME NEW q \in Places, Exists(Empty, q) PROVE q = <<>> /\ Exists(b, q) /\ q \notin Leaves
  <2>1. q = <<>>
    BY <1>11, PlacesFacts, EmptyWay
  <2>2. QED
    BY <2>1, LeavesAssumption DEF Exists
<1>12. \A q \in Leaves : Open(Empty, q, Len(q)) /\ ~Exists(Empty, q)
  BY <1>11, LeavesAssumption, PlacesFacts, EmptyWay
<1>13. Grown(Empty, b, W)
  <2> HIDE DEF W
  <2>1. QED
    BY <1>8, <1>9, <1>10, <1>11, <1>12 DEF Grown
<1>14. QED
  BY <1>7, <1>13 DEF b, paths

-----------------------------------------------------------------------------
(* The theorems. *)

\* The text at a place is that which was last asked for, wherever the file can
\* have the place at all.
AskedStands ==
    \A p \in DOMAIN asked :
        Open(file, p, Len(p)) => Exists(file, p) /\ NodeAt(file, p).value = asked[p]

\* A place has the tag that it had first, and a place that has not can not be reached.
TagsStand ==
    /\ \A p \in Leaves : Exists(file, p) => p \in DOMAIN tags /\ NodeAt(file, p).tag = tags[p]
    /\ \A p \in DOMAIN tags : Open(file, p, Len(p)) => Exists(file, p)
    /\ DOMAIN asked \subseteq DOMAIN tags

\* A file is a mapping; one that is not, a patch that does not exist yet or has no
\* containers, has been asked nothing.
Rooted ==
    \/ file.kind = "mapping"
    \/ /\ file \in {NoFile, NoContainers} /\ type = "kustomize"
       /\ DOMAIN asked = {} /\ DOMAIN tags = {}

Inv == TypeOK /\ Rooted /\ AskedStands /\ TagsStand

\* A place that exists has mappings above it.
LEMMA ExistsIsOpen ==
    ASSUME NEW root, NEW p, Exists(root, p)
    PROVE  Open(root, p, Len(p))
<1>1. ASSUME NEW j \in 0 .. Len(p) - 1 PROVE Way(root, p)[j].kind = "mapping"
  <2>1. j + 1 \in 1 .. Len(p) /\ (j + 1) - 1 = j
    OBVIOUS
  <2>2. p[j + 1] \in Keys(Way(root, p)[j])
    BY <2>1 DEF Exists
  <2>3. QED
    BY <2>2 DEF Keys
<1>2. QED
  BY <1>1 DEF Open

\* Nothing is in a file that is no mapping.
LEMMA NoFileIsEmpty ==
    ASSUME NEW root \in {NoFile, NoContainers}
    PROVE  /\ root.kind # "mapping" /\ Fits(root)
           /\ \A p \in Seq(STRING) : Exists(root, p) => p = <<>>
           /\ \A p \in Leaves : ~Exists(root, p)
<1>1. root.kind # "mapping" /\ Keys(root) = {}
  <2>1. NoFile.kind # "mapping" /\ NoContainers.kind # "mapping"
    BY DEF NoFile, NoContainers, Null
  <2>2. root.kind # "mapping"
    BY <2>1
  <2>3. QED
    BY <2>2 DEF Keys
<1>2. ASSUME NEW p \in Seq(STRING), Exists(root, p), p # <<>> PROVE FALSE
  <2>1. 1 \in 1 .. Len(p) /\ 1 - 1 = 0
    BY <1>2
  <2>2. Way(root, p)[0] = root
    BY WayRecurs
  <2>3. QED
    BY <1>1, <1>2, <2>1, <2>2 DEF Exists
<1>3. \A p \in Leaves : ~Exists(root, p)
  BY <1>2, LeavesAssumption
<1>4. ASSUME NEW p \in Places, Exists(root, p) PROVE Keys(NodeAt(root, p)) = {}
  <2>1. p = <<>>
    BY <1>2, <1>4, PlacesFacts
  <2>2. Way(root, p)[0] = root /\ Len(p) = 0
    BY <2>1, PlacesFacts, WayRecurs
  <2>3. QED
    BY <1>1, <2>2 DEF NodeAt
<1>5. Fits(root)
  BY <1>3, <1>4 DEF Fits
<1>6. QED
  BY <1>1, <1>2, <1>3, <1>5

\* What a call does to a scalar it was not asked to change.
Kept ==
    \A p \in Leaves :
        /\ Exists(file, p)
        /\ p \in DOMAIN asked' => p \in DOMAIN asked /\ asked'[p] = asked[p]
        => Exists(file', p) /\ NodeAt(file', p) = NodeAt(file, p)

\* The tags of scalars that are there stay, and those of new ones are recorded.
TagsAre(a, b, tagged) ==
    /\ \A q \in Leaves : Exists(a, q) => NodeAt(b, q).tag = NodeAt(a, q).tag
    /\ \A q \in Leaves : Exists(b, q) /\ ~Exists(a, q) =>
          q \in DOMAIN tagged /\ tagged[q] = NodeAt(b, q).tag

LEMMA TagsRecorded ==
    ASSUME NEW a, NEW b, NEW W, Grown(a, b, W), TagsKept(a, b, W),
           NEW asking, AskedAre(asking, W)
    PROVE  TagsAre(a, b, Plain(asking))
<1>1. ASSUME NEW q \in Leaves, Exists(b, q), ~Exists(a, q)
      PROVE  q \in DOMAIN asking /\ TagOf(asking[q]) = NodeAt(b, q).tag
  <2>1. PICK w \in W : w[1] = q /\ NodeAt(b, q).tag = TagOf(w[2])
    BY <1>1 DEF TagsKept
  <2>2. q \in DOMAIN asking /\ <<q, asking[q]>> \in W
    BY <2>1 DEF AskedAre
  <2>3. Open(b, q, Len(q))
    BY <1>1, ExistsIsOpen
  <2>4. w[2] = NodeAt(b, q).value
    BY <2>1, <2>3 DEF Grown
  <2> DEFINE v == <<q, asking[q]>>
  <2>5. v \in W /\ v[1] = q /\ v[2] = asking[q]
    BY <2>2
  <2> HIDE DEF v
  <2>6. asking[q] = NodeAt(b, q).value
    BY <2>3, <2>5 DEF Grown
  <2>7. QED
    BY <2>1, <2>2, <2>4, <2>6
<1>2. DOMAIN Plain(asking) = DOMAIN asking
      /\ \A q \in DOMAIN asking : Plain(asking)[q] = TagOf(asking[q])
  BY DEF Plain
<1>3. QED
  BY <1>1, <1>2 DEF TagsAre, TagsKept

\* A call that grows the file by what it is asked for, or a new one if there was
\* none, keeps the invariant and everything else.
LEMMA WritesKeep ==
    ASSUME Inv, NEW a, a = file \/ (file \in {NoFile, NoContainers} /\ a = Empty),
           a.kind = "mapping", NEW b, NEW W, Grown(a, b, W),
           NEW asking, AskedAre(asking, W), NEW tagged, DOMAIN tagged = DOMAIN asking,
           TagsAre(a, b, tagged), NEW files, files \subseteq {b},
           Writes(files, asking, tagged)
    PROVE  Inv' /\ Kept
<1>1. /\ file' = b /\ type' = type /\ kustomization' = kustomization
      /\ asked' = Over(asking, asked) /\ tags' = Over(tags, tagged)
  BY DEF Writes
<1>2. /\ DOMAIN asked' = DOMAIN asking \cup DOMAIN asked
      /\ \A p \in DOMAIN asking : asked'[p] = asking[p]
      /\ \A p \in DOMAIN asked : p \notin DOMAIN asking => asked'[p] = asked[p]
      /\ DOMAIN tags' = DOMAIN tags \cup DOMAIN asking
      /\ \A p \in DOMAIN tags : tags'[p] = tags[p]
      /\ \A p \in DOMAIN asking : p \notin DOMAIN tags => tags'[p] = tagged[p]
  <2>1. /\ DOMAIN asked' = DOMAIN asking \cup DOMAIN asked
        /\ \A p \in DOMAIN asking : asked'[p] = asking[p]
        /\ \A p \in DOMAIN asked : p \notin DOMAIN asking => asked'[p] = asked[p]
    BY <1>1 DEF Over
  <2>2. /\ DOMAIN tags' = DOMAIN tags \cup DOMAIN asking
        /\ \A p \in DOMAIN tags : tags'[p] = tags[p]
        /\ \A p \in DOMAIN asking : p \notin DOMAIN tags => tags'[p] = tagged[p]
    BY <1>1 DEF Over
  <2>3. QED
    BY <2>1, <2>2
<1>3. b.kind = "mapping" /\ Fits(b)
  BY DEF Grown
<1>4. (\A p \in DOMAIN asked : a = file) /\ (\A p \in DOMAIN tags : a = file)
  <2>1. a # file => file.kind # "mapping"
    BY NoFileIsEmpty
  <2>2. QED
    BY <2>1 DEF Inv, Rooted
<1>5. TypeOK'
  <2>1. DOMAIN asked' \subseteq Leaves /\ \A p \in DOMAIN asked' : asked'[p] \in Quantities
    BY <1>2 DEF Inv, TypeOK, AskedAre
  <2>2. Fits(file') /\ DOMAIN tags' \subseteq Leaves
    BY <1>1, <1>2, <1>3 DEF Inv, TypeOK, AskedAre
  <2>3. QED
    BY <1>1, <2>1, <2>2 DEF Inv, TypeOK
<1>6. ASSUME NEW p \in DOMAIN asked', Open(b, p, Len(p))
      PROVE  Exists(b, p) /\ NodeAt(b, p).value = asked'[p]
  <2>1. CASE p \in DOMAIN asking
    <3>1. <<p, asking[p]>> \in W
      BY <2>1 DEF AskedAre
    <3>2. \A w \in W : w[1] = p => Exists(b, p) /\ NodeAt(b, p).value = w[2]
      BY <1>6 DEF Grown
    <3>3. QED
      BY <1>2, <2>1, <3>1, <3>2
  <2>2. CASE p \notin DOMAIN asking
    <3>1. p \in DOMAIN asked /\ asked'[p] = asked[p] /\ p \in Leaves /\ a = file
      BY <1>2, <1>4, <2>2 DEF Inv, TypeOK
    <3>2. Open(a, p, Len(p))
      BY <1>6, <3>1 DEF Grown
    <3>3. Exists(a, p) /\ NodeAt(a, p).value = asked[p]
      BY <3>1, <3>2 DEF Inv, AskedStands
    <3>4. \A w \in W : w[1] # p
      BY <2>2 DEF AskedAre
    <3>5. Exists(b, p) /\ NodeAt(b, p) = NodeAt(a, p)
      BY <3>1, <3>3, <3>4, PlacesFacts DEF Grown
    <3>6. QED
      BY <3>1, <3>3, <3>5
  <2>3. QED
    BY <2>1, <2>2
<1>7. AskedStands'
  BY <1>1, <1>6 DEF AskedStands
<1>8. Rooted'
  BY <1>1, <1>3 DEF Rooted
<1>9. ASSUME NEW p \in Leaves, Exists(file, p),
             p \in DOMAIN asked' => p \in DOMAIN asked /\ asked'[p] = asked[p]
      PROVE  Exists(b, p) /\ NodeAt(b, p) = NodeAt(a, p) /\ a = file
  <2>1. a = file
    BY <1>9, NoFileIsEmpty
  <2>2. Exists(a, p) /\ Exists(b, p)
    BY <1>9, <2>1, PlacesFacts DEF Grown
  <2>3. Open(a, p, Len(p)) /\ Open(b, p, Len(p))
    BY <2>2, ExistsIsOpen
  <2>4. ASSUME NEW w \in W, w[1] = p PROVE w[2] = NodeAt(a, p).value
    <3>1. p \in DOMAIN asking /\ <<p, asking[p]>> \in W
      BY <2>4 DEF AskedAre
    <3>2. w[2] = NodeAt(b, p).value
      BY <2>3, <2>4 DEF Grown
    <3>3. asking[p] = NodeAt(b, p).value
      <4> DEFINE v == <<p, asking[p]>>
      <4>1. v \in W /\ v[1] = p /\ v[2] = asking[p]
        BY <3>1
      <4> HIDE DEF v
      <4>2. QED
        BY <2>3, <4>1 DEF Grown
    <3>4. p \in DOMAIN asked /\ asked[p] = asking[p]
      BY <1>2, <1>9, <3>1
    <3>5. NodeAt(a, p).value = asked[p]
      BY <2>1, <2>3, <3>4 DEF Inv, AskedStands
    <3>6. QED
      BY <3>2, <3>3, <3>4, <3>5
  <2>5. NodeAt(b, p) = NodeAt(a, p)
    BY <2>2, <2>4 DEF Grown
  <2>6. QED
    BY <2>1, <2>2, <2>5
<1>10. Kept
  BY <1>1, <1>9 DEF Kept
\* The tags: a place that is new had none.
<1>11. ASSUME NEW p \in Leaves, Exists(b, p)
       PROVE  p \in DOMAIN tags' /\ NodeAt(b, p).tag = tags'[p]
  <2>1. CASE p \in DOMAIN tags
    <3>1. a = file /\ tags'[p] = tags[p] /\ p \in DOMAIN tags'
      BY <1>2, <1>4, <2>1
    <3>2. Open(b, p, Len(p))
      BY <1>11, ExistsIsOpen
    <3>3. Open(a, p, Len(p))
      BY <3>2 DEF Grown
    <3>4. Exists(a, p) /\ NodeAt(a, p).tag = tags[p]
      BY <2>1, <3>1, <3>3 DEF Inv, TagsStand
    <3>5. QED
      BY <3>1, <3>4 DEF TagsAre
  <2>2. CASE p \notin DOMAIN tags
    <3>1. ~Exists(a, p)
      <4>1. CASE a = file
        BY <2>2, <4>1 DEF Inv, TagsStand
      <4>2. CASE a = Empty
        BY <4>2, EmptyWay, LeavesAssumption
      <4>3. QED
        BY <4>1, <4>2
    <3>2. p \in DOMAIN tagged /\ tagged[p] = NodeAt(b, p).tag
      BY <1>11, <3>1 DEF TagsAre
    <3>3. QED
      BY <1>2, <2>2, <3>2
  <2>3. QED
    BY <2>1, <2>2
<1>12. ASSUME NEW p \in DOMAIN tags', Open(b, p, Len(p)) PROVE Exists(b, p)
  <2>1. CASE p \in DOMAIN asking
    <3> DEFINE v == <<p, asking[p]>>
    <3>1. v \in W /\ v[1] = p
      BY <2>1 DEF AskedAre
    <3> HIDE DEF v
    <3>2. QED
      BY <1>12, <3>1 DEF Grown
  <2>2. CASE p \in DOMAIN tags
    <3>1. a = file /\ p \in Leaves
      BY <1>4, <2>2 DEF Inv, TypeOK
    <3>2. Open(a, p, Len(p))
      BY <1>12, <3>1 DEF Grown
    <3>3. Exists(a, p)
      BY <2>2, <3>1, <3>2 DEF Inv, TagsStand
    <3>4. QED
      BY <3>1, <3>3, PlacesFacts DEF Grown
  <2>3. QED
    BY <1>2, <2>1, <2>2
<1>13. TagsStand'
  <2>1. DOMAIN asked' \subseteq DOMAIN tags'
    BY <1>2 DEF Inv, TagsStand
  <2>2. QED
    BY <1>1, <1>11, <1>12, <2>1 DEF TagsStand
<1>14. QED
  BY <1>5, <1>7, <1>8, <1>10, <1>13 DEF Inv

LEMMA InitInv == Init => Inv
<1>1. SUFFICES ASSUME Init PROVE Inv
  OBVIOUS
<1>2. PICK start \in Starts :
         /\ type = start.type /\ file = start.file /\ kustomization = start.kustomization
         /\ tags = [p \in {q \in Leaves : Exists(start.file, q)} |-> NodeAt(start.file, p).tag]
  BY <1>1 DEF Init
<1>3. asked = <<>> /\ DOMAIN asked = {}
  BY <1>1 DEF Init
<1>4. /\ start.type \in {"raw", "helm", "kustomize"}
      /\ Fits(start.file) /\ IsKustomization(start.kustomization)
      /\ start.file.kind = "mapping" \/ (start.type = "kustomize" /\ start.file = NoFile)
  BY StartsAssumption
<1>5. /\ DOMAIN tags = {q \in Leaves : Exists(file, q)}
      /\ \A p \in DOMAIN tags : tags[p] = NodeAt(file, p).tag
  BY <1>2
<1>6. TypeOK
  BY <1>2, <1>3, <1>4, <1>5 DEF TypeOK
<1>7. Rooted
  BY <1>2, <1>3, <1>4, <1>5, NoFileIsEmpty DEF Rooted
<1>8. AskedStands /\ TagsStand
  BY <1>3, <1>5 DEF AskedStands, TagsStand
<1>9. QED
  BY <1>6, <1>7, <1>8 DEF Inv

\* The calls for the containers of a manifest or a patch.
LEMMA ContainersKeep ==
    ASSUME Inv, file.kind = "mapping", NEW us \in Updates, NEW pathOf, IsPathOf(pathOf),
           NEW files, files \subseteq {UpdatedAll(file, us, pathOf)[Len(us)]},
           Writes(files, Asking(us, pathOf), Plain(Asking(us, pathOf)))
    PROVE  Inv' /\ Kept
<1> DEFINE b == UpdatedAll(file, us, pathOf)[Len(us)]
           W == WrittenBy(us, pathOf, Len(us))
           asking == Asking(us, pathOf)
<1>1. IsUpdates(us) /\ Len(us) \in 0 .. Len(us)
  BY UpdatesGiven DEF IsUpdates
<1>2. Fits(file)
  BY DEF Inv, TypeOK
<1>3. Grown(file, b, W) /\ TagsKept(file, b, W)
  BY <1>1, <1>2, UpdatesGrow
<1>4. AskedAre(asking, W)
  BY <1>1, AskingIsWritten
<1>5. files \subseteq {b} /\ Writes(files, asking, Plain(asking))
  OBVIOUS
<1> HIDE DEF b, W, asking
<1>6. TagsAre(file, b, Plain(asking)) /\ DOMAIN Plain(asking) = DOMAIN asking
  BY <1>3, <1>4, TagsRecorded DEF Plain
<1>7. QED
  BY <1>3, <1>4, <1>5, <1>6, WritesKeep

\* A patch that is generated takes the place of none.
LEMMA GenerateKeeps ==
    ASSUME Inv, NEW us \in Updates, file \in {NoFile, NoContainers}, type = "kustomize",
           NEW asking, asking = Asking(us, ContainerPaths(us)),
           Writes({GeneratedPatch(us)}, asking, Strings(asking))
    PROVE  Inv' /\ Kept
<1> DEFINE b == GeneratedPatch(us)
           W == WrittenBy(us, ContainerPaths(us), Len(us))
<1>1. AskedAre(asking, W)
  BY UpdatesGiven, AskingIsWritten
<1>2. DOMAIN Strings(asking) = DOMAIN asking
      /\ \A q \in DOMAIN asking : Strings(asking)[q] = "str"
  BY DEF Strings
<1>3. CASE us # <<>>
  <2>1. /\ Grown(Empty, b, W)
        /\ \A q \in Leaves : Exists(b, q) =>
              NodeAt(b, q).tag = "str" /\ \E w \in W : w[1] = q
    BY <1>3, PatchGrows
  <2>2. Writes({b}, asking, Strings(asking))
    OBVIOUS
  <2> HIDE DEF b, W
  <2>3. \A q \in Leaves : ~Exists(Empty, q)
    BY EmptyWay, LeavesAssumption
  <2>4. TagsAre(Empty, b, Strings(asking))
    BY <1>1, <1>2, <2>1, <2>3 DEF TagsAre, AskedAre
  <2> DEFINE tagged == Strings(asking)
             files  == {b}
  <2>5. /\ DOMAIN tagged = DOMAIN asking /\ TagsAre(Empty, b, tagged)
        /\ files \subseteq {b} /\ Writes(files, asking, tagged)
    BY <1>2, <2>2, <2>4
  <2> HIDE DEF tagged, files
  <2>6. QED
    BY <1>1, <2>1, <2>5, EmptyNode, WritesKeep
<1>4. CASE us = <<>>
  <2>1. /\ file' = NoContainers /\ type' = type /\ kustomization' = kustomization
        /\ asked' = Over(asking, asked) /\ tags' = Over(tags, Strings(asking))
    BY <1>4 DEF Writes, GeneratedPatch
  <2>2. DOMAIN asked = {} /\ DOMAIN tags = {}
    BY NoFileIsEmpty DEF Inv, Rooted
  <2>3. DOMAIN asking = {}
    <3>1. Len(us) = 0
      BY <1>4
    <3>2. DOMAIN asking \subseteq {w[1] : w \in W}
      <4>1. ASSUME NEW p \in DOMAIN asking PROVE \E w \in W : w[1] = p
        <5> DEFINE v == <<p, asking[p]>>
        <5>1. v \in W /\ v[1] = p
          BY <1>1 DEF AskedAre
        <5> HIDE DEF v, W
        <5>2. QED
          BY <5>1
      <4> HIDE DEF W
      <4>2. QED
        BY <4>1
    <3>3. W = {}
      BY <3>1 DEF WrittenBy
    <3> HIDE DEF W
    <3>4. QED
      BY <3>2, <3>3
  <2>4. DOMAIN asked' = {} /\ DOMAIN tags' = {}
    BY <1>2, <2>1, <2>2, <2>3 DEF Over
  <2>5. Fits(file') /\ \A p \in Leaves : ~Exists(file, p) /\ ~Exists(file', p)
    BY <2>1, NoFileIsEmpty
  <2>6. TypeOK'
    BY <2>1, <2>4, <2>5 DEF Inv, TypeOK
  <2>7. Rooted' /\ AskedStands' /\ TagsStand'
    BY <2>1, <2>4, <2>5 DEF Rooted, AskedStands, TagsStand
  <2>8. Kept
    BY <2>5 DEF Kept
  <2>9. QED
    BY <2>6, <2>7, <2>8 DEF Inv
<1>5. QED
  BY <1>3, <1>4

LEMMA EntryKept ==
    ASSUME NEW root, IsKustomization(root), NEW path \in STRING
    PROVE  IsKustomization(WithEntry(root, path))
<1> DEFINE key     == PatchesKey(root)
           patches == IF key \in Keys(root) THEN root.at[key] ELSE Listing(<<>>)
           child   == Listing(Append(patches.paths, path))
<1>1. WithEntry(root, path) = root
      \/ (patches # Null /\ WithEntry(root, path) = Put(root, key, child))
  BY DEF WithEntry
<1>2. key \in PatchKeys
  BY DEF PatchesKey, PatchKeys
<1>3. ASSUME patches # Null PROVE patches.paths \in Seq(STRING)
  <2>1. CASE key \in Keys(root)
    BY <1>3, <2>1 DEF IsKustomization
  <2>2. CASE key \notin Keys(root)
    BY <2>2 DEF Listing
  <2>3. QED
    BY <2>1, <2>2
<1>4. ASSUME patches # Null PROVE child.paths \in Seq(STRING) /\ child = Listing(child.paths)
  <2> HIDE DEF patches
  <2>1. Append(patches.paths, path) \in Seq(STRING)
    BY <1>3, <1>4, AppendProperties
  <2>2. QED
    BY <2>1 DEF Listing
<1> HIDE DEF key, patches, child
<1>5. ASSUME patches # Null PROVE IsKustomization(Put(root, key, child))
  <2> DEFINE at == [k \in Keys(root) \cup {key} |-> IF k = key THEN child ELSE root.at[k]]
  <2>1. Put(root, key, child) = Mapping(at)
    BY DEF Put, IsKustomization
  <2>2. \A k \in Keys(root) \cup {key} :
           \/ at[k] = Null
           \/ at[k].paths \in Seq(STRING) /\ at[k] = Listing(at[k].paths)
    BY <1>4, <1>5 DEF IsKustomization
  <2>3. DOMAIN at \subseteq PatchKeys /\ DOMAIN at = Keys(root) \cup {key}
    BY <1>2 DEF IsKustomization
  <2> HIDE DEF at
  <2>4. Keys(Mapping(at)) = DOMAIN at /\ Mapping(at).kind = "mapping" /\ Mapping(at).at = at
    BY DEF Mapping, Keys
  <2>5. QED
    BY <2>1, <2>2, <2>3, <2>4 DEF IsKustomization
<1>6. QED
  BY <1>1, <1>5

LEMMA NextKeeps ==
    ASSUME Inv, Next
    PROVE  Inv' /\ Kept
<1>1. CASE UpdateManifest
  <2>1. PICK us \in Updates :
           Writes(UpdatedManifest(file, us), Asking(us, ContainerPaths(us)),
                  Plain(Asking(us, ContainerPaths(us))))
    BY <1>1 DEF UpdateManifest
  <2>2. file.kind = "mapping"
    BY <1>1 DEF UpdateManifest, Inv, Rooted
  <2>3. UpdatedManifest(file, us)
           \subseteq {UpdatedAll(file, us, ContainerPaths(us))[Len(us)]}
    BY DEF UpdatedManifest
  <2>4. QED
    BY <2>1, <2>2, <2>3, UpdatesGiven, ContainersKeep
<1>2. CASE UpdateValues
  <2>1. PICK us \in Updates, path \in ValuePaths :
           LET asking == Asking(us, [c \in {us[1].name : i \in DOMAIN us} |-> path])
           IN  Writes(UpdatedValues(file, us, path), asking, Plain(asking))
    BY <1>2 DEF UpdateValues
  <2> DEFINE first == IF us = <<>> THEN [sections |-> <<>>] ELSE us[1]
             pathOf == [c \in {us[1].name : i \in DOMAIN us} |-> path]
             b == UpdatedAt(file, path, first)
             asking == Asking(us, pathOf)
             W == WrittenAt(path, first)
  <2>2. file.kind = "mapping" /\ Fits(file)
    BY <1>2 DEF UpdateValues, Inv, TypeOK, Rooted
  <2>3. path \in Homes
    BY HomesAssumption
  <2>4. /\ IsPathOf(pathOf) /\ IsSections(first.sections)
        /\ WrittenBy(us, pathOf, Len(us)) = W
    BY <2>3, FirstWrites
  <2>5. UpdatedValues(file, us, path) \subseteq {b}
    BY DEF UpdatedValues
  <2>6. Writes(UpdatedValues(file, us, path), asking, Plain(asking))
    BY <2>1
  <2> HIDE DEF first, pathOf
  <2>7. Grown(file, b, W) /\ TagsKept(file, b, W)
    BY <2>2, <2>3, <2>4, UpdateGrows
  <2>8. AskedAre(asking, W)
    BY <2>4, UpdatesGiven, AskingIsWritten
  <2> HIDE DEF b, W, asking
  <2>9. TagsAre(file, b, Plain(asking)) /\ DOMAIN Plain(asking) = DOMAIN asking
    BY <2>7, <2>8, TagsRecorded DEF Plain
  <2>10. QED
    BY <2>2, <2>5, <2>6, <2>7, <2>8, <2>9, WritesKeep
<1>3. CASE UpdateValuesMultiContainer
  <2>1. PICK us \in Updates : \E pathOf \in PathMaps \cup Detected(file) :
           Writes(UpdatedContainers(file, us, pathOf), Asking(us, pathOf),
                  Plain(Asking(us, pathOf)))
    BY <1>3 DEF UpdateValuesMultiContainer
  <2>2. PICK pathOf \in PathMaps \cup Detected(file) :
           Writes(UpdatedContainers(file, us, pathOf), Asking(us, pathOf),
                  Plain(Asking(us, pathOf)))
    BY <2>1
  <2>3. file.kind = "mapping"
    BY <1>3 DEF UpdateValuesMultiContainer, Inv, Rooted
  <2>4. UpdatedContainers(file, us, pathOf) \subseteq {UpdatedAll(file, us, pathOf)[Len(us)]}
    BY DEF UpdatedContainers
  <2>5. QED
    BY <2>2, <2>3, <2>4, PathsGiven, ContainersKeep
<1>4. CASE GeneratePatch
  <2>1. PICK us \in Updates :
           Writes({GeneratedPatch(us)}, Asking(us, ContainerPaths(us)),
                  Strings(Asking(us, ContainerPaths(us))))
    BY <1>4 DEF GeneratePatch
  <2>2. file \in {NoFile, NoContainers} /\ type = "kustomize"
    BY <1>4 DEF GeneratePatch
  <2>3. QED
    BY <2>1, <2>2, GenerateKeeps
<1>5. CASE UpdatePatch
  <2>1. PICK us \in Updates :
           Writes(UpdatedPatch(file, us), Asking(us, ContainerPaths(us)),
                  Plain(Asking(us, ContainerPaths(us))))
    BY <1>5 DEF UpdatePatch
  <2>2. /\ file.kind = "mapping"
        /\ UpdatedPatch(file, us) \subseteq {UpdatedAll(file, us, ContainerPaths(us))[Len(us)]}
    BY <2>1 DEF UpdatedPatch, Writes
  <2>3. QED
    BY <2>1, <2>2, UpdatesGiven, ContainersKeep
<1>6. CASE UpdateKustomization
  <2>1. PICK path \in PatchPaths : kustomization' = WithEntry(kustomization, path)
    BY <1>6 DEF UpdateKustomization
  <2>2. UNCHANGED <<type, file, asked, tags>>
    BY <1>6 DEF UpdateKustomization
  <2>3. path \in STRING /\ IsKustomization(kustomization)
    BY StartsAssumption DEF Inv, TypeOK
  <2>4. IsKustomization(kustomization')
    BY <2>1, <2>3, EntryKept
  <2>5. TypeOK' /\ Rooted' /\ AskedStands' /\ TagsStand'
    BY <2>1, <2>2, <2>4 DEF Inv, TypeOK, Rooted, AskedStands, TagsStand
  <2>6. Kept
    BY <2>2 DEF Kept
  <2>7. QED
    BY <2>5, <2>6 DEF Inv
<1>7. QED
  BY <1>1, <1>2, <1>3, <1>4, <1>5, <1>6 DEF Next

LEMMA Stutters ==
    ASSUME Inv, UNCHANGED vars
    PROVE  Inv' /\ Kept
<1>1. /\ type' = type /\ file' = file /\ kustomization' = kustomization
      /\ asked' = asked /\ tags' = tags
  BY DEF vars
<1>2. TypeOK' /\ Rooted'
  BY <1>1 DEF Inv, TypeOK, Rooted
<1>3. AskedStands' /\ TagsStand' /\ Kept
  BY <1>1 DEF Inv, AskedStands, TagsStand, Kept
<1>4. QED
  BY <1>2, <1>3 DEF Inv

LEMMA Invariance == Spec => []Inv
<1>1. Inv /\ [Next]_vars => Inv'
  BY NextKeeps, Stutters
<1>2. QED
  BY <1>1, InitInv, PTL DEF Spec

\* The writers leave behind trees of the kind that they were given, and grow them
\* only where resources belong, in whatever order they are called.
THEOREM TypeCorrect == Spec => []TypeOK
<1>1. Inv => TypeOK
  BY DEF Inv
<1>2. QED
  BY <1>1, Invariance, PTL

\* A reader gets at a place what the last call asked for there, also after any
\* number of calls for other places and by whichever writer it was made, wherever
\* mappings lead there -- unless the place began as a null, or as a number while the
\* quantity is none.
THEOREM AskedAlwaysReads == Spec => []AskedIsRead
<1>1. ASSUME Inv PROVE AskedIsRead
  <2>1. SUFFICES ASSUME NEW p \in DOMAIN asked, Reached(p),
                        tags[p] \in {"str", TagOf(asked[p])}
                 PROVE  Exists(file, p) /\ Reads(NodeAt(file, p)) = asked[p]
    BY DEF AskedIsRead, ReadAsAsked
  <2>2. p \in Leaves
    BY <1>1 DEF Inv, TypeOK
  <2>3. p \in Seq(STRING) /\ Len(p) \in Nat
    BY <2>2, LeavesAssumption
  <2>4. file.kind = "mapping"
    BY <1>1 DEF Inv, Rooted
  <2>5. Way(file, p)[0] = file
    BY <2>3, WayRecurs
  <2>6. \A j \in 0 .. Len(p) - 1 : j = 0 \/ j \in 1 .. Len(p) - 1
    BY <2>3
  <2>7. Open(file, p, Len(p))
    BY <2>1, <2>4, <2>5, <2>6 DEF Open, Reached
  <2>8. Exists(file, p) /\ NodeAt(file, p).value = asked[p]
    BY <1>1, <2>7 DEF Inv, AskedStands
  <2>9. NodeAt(file, p).tag = tags[p]
    BY <1>1, <2>2, <2>8 DEF Inv, TagsStand
  <2>10. QED
    BY <2>1, <2>8, <2>9 DEF Reads
<1>2. QED
  BY <1>1, Invariance, PTL

\* No call changes a scalar that it was not asked to change, whichever writer it
\* is of and however many updates it has.
THEOREM NothingElseChanges == Spec => OthersKept
<1>1. Inv /\ [Next]_vars => [Kept]_vars
  BY NextKeeps
<1>2. QED
  BY <1>1, Invariance, PTL DEF Spec, OthersKept, Kept
=============================================================================
