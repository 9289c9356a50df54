--------------------------- MODULE TestTomlProofs ---------------------------
(***************************************************************************)
(* Proofs about TestToml for every tree and every content: when           *)
(* discover_test_configs returns, it returns Ok exactly when every         *)
(* test.toml parses, and then one description for each of them.           *)
(*                                                                         *)
(* The argument is about ancestry.  Lvl is a depth function the tree      *)
(* assumption provides, Par the directory listing an entry, and Up[k][f]  *)
(* the entry k levels above f.  An entry a covers f when a is f or one of *)
(* its ancestors.  Every test.toml is covered by exactly one entry of the *)
(* stack until it is visited, and then never again.                       *)
(***************************************************************************)
EXTENDS TestToml, NaturalsInduction, WellFoundedInduction, FiniteSetTheorems,
        SequenceTheorems, TLAPS

\* The depth of every entry below test_programs.
Lvl ==
    CHOOSE lvl \in [Entity -> 0..Cardinality(Dirs)] :
        /\ lvl[Root] = 0
        /\ \A d \in Dirs : \A e \in Entries[d] : lvl[e] = lvl[d] + 1

\* The directory whose read_dir lists e.
Par(e) == IF e = Root THEN Root ELSE CHOOSE d \in Dirs : e \in Entries[d]

\* Up[k][e]: the entry k levels above e (the root above the root).
Up[k \in Nat] ==
    IF k = 0 THEN [e \in Entity |-> e] ELSE [e \in Entity |-> Par(Up[k - 1][e])]

\* a is f or a directory above it: recursive_search(a) reaches f.
Covers(a, f) == a \in Entity /\ Lvl[a] <= Lvl[f] /\ Up[Lvl[f] - Lvl[a]][f] = a

-----------------------------------------------------------------------------
(* The tree.                                                               *)

LEMMA IntervalInduction ==
    ASSUME NEW n \in Nat, NEW G, 0 \in G,
           \A k \in 1..n : k - 1 \in G => k \in G
    PROVE  0..n \subseteq G
<1> SUFFICES ASSUME {i \in 0..n : i \notin G} # {} PROVE FALSE
  OBVIOUS
<1> DEFINE Bad == {i \in 0..n : i \notin G}
<1>0. Bad \subseteq Nat /\ Bad # {}
  OBVIOUS
<1>1. PICK i \in Bad : \A j \in Bad : ~(<<j, i>> \in OpToRel(<, Nat))
  BY <1>0, NatLessThanWellFounded, WFMin, Zenon
<1>2. i # 0
  BY <1>1
<1>3. i - 1 \in 0..n /\ <<i - 1, i>> \in OpToRel(<, Nat)
  BY <1>1, <1>2 DEF OpToRel
<1>4. i - 1 \notin Bad
  BY <1>1, <1>3
<1>5. i \in 0..n /\ i \notin G
  BY <1>1 DEF Bad
<1>6. i - 1 \in G
  BY <1>3, <1>4 DEF Bad
<1>7. i \in 1..n
  BY <1>2, <1>5
<1>8. QED
  BY <1>5, <1>6, <1>7

\* The depth function: the root at depth 0, an entry one below its directory.
LEMMA LvlOK ==
    /\ Lvl \in [Entity -> Nat]
    /\ Lvl[Root] = 0
    /\ \A d \in Dirs : \A e \in Entries[d] : Lvl[e] = Lvl[d] + 1
<1>1. \E lvl \in [Entity -> 0..Cardinality(Dirs)] :
        /\ lvl[Root] = 0
        /\ \A d \in Dirs : \A e \in Entries[d] : lvl[e] = lvl[d] + 1
  BY TreeAssumption
<1>2. Lvl \in [Entity -> 0..Cardinality(Dirs)]
      /\ Lvl[Root] = 0
      /\ \A d \in Dirs : \A e \in Entries[d] : Lvl[e] = Lvl[d] + 1
  BY <1>1 DEF Lvl
<1>3. \A e \in Entity : Lvl[e] \in Nat
  BY <1>2
<1>4. QED
  BY <1>2, <1>3

\* Every entry but the root has one directory listing it, one level above.
LEMMA ParOK ==
    ASSUME NEW e \in Entity \ {Root}
    PROVE  /\ Par(e) \in Dirs
           /\ e \in Entries[Par(e)]
           /\ \A d \in Dirs : e \in Entries[d] => d = Par(e)
           /\ Lvl[e] = Lvl[Par(e)] + 1
<1>1. \E d \in Dirs : e \in Entries[d] /\ \A d2 \in Dirs : e \in Entries[d2] => d2 = d
  BY TreeAssumption
<1>2. Par(e) \in Dirs /\ e \in Entries[Par(e)]
  BY <1>1 DEF Par
<1>3. \A d \in Dirs : e \in Entries[d] => d = Par(e)
  BY <1>1, <1>2
<1>4. QED
  BY <1>2, <1>3, LvlOK

\* Only the root lies at depth 0.
LEMMA LvlZero ==
    ASSUME NEW e \in Entity, Lvl[e] = 0 PROVE e = Root
<1> SUFFICES ASSUME e # Root PROVE FALSE
  OBVIOUS
<1>1. Par(e) \in Dirs /\ Lvl[e] = Lvl[Par(e)] + 1
  BY ParOK
<1>2. Lvl[Par(e)] \in Nat
  BY <1>1, LvlOK DEF Entity
<1>3. QED
  BY <1>1, <1>2

\* Up unfolds as its definition says.
LEMMA UpDef ==
    \A k \in Nat : Up[k] = IF k = 0 THEN [e \in Entity |-> e]
                           ELSE [e \in Entity |-> Par(Up[k - 1][e])]
<1> DEFINE f0 == [e \in Entity |-> e]
           Def(g, i) == [e \in Entity |-> Par(g[e])]
<1>1. NatInductiveDefHypothesis(Up, f0, Def)
  BY DEF NatInductiveDefHypothesis, Up
<1>2. NatInductiveDefConclusion(Up, f0, Def)
  BY <1>1, NatInductiveDef
<1>3. QED
  BY <1>2 DEF NatInductiveDefConclusion

\* Going up k <= Lvl[f] levels from f lands on an entry k levels higher.
LEMMA UpLevel ==
    ASSUME NEW f \in Entity, NEW k \in 0..Lvl[f]
    PROVE  Up[k][f] \in Entity /\ Lvl[Up[k][f]] = Lvl[f] - k
<1> DEFINE n == Lvl[f]
           G == {i \in Nat : i <= n => Up[i][f] \in Entity /\ Lvl[Up[i][f]] = n - i}
<1>1. n \in Nat
  BY LvlOK
<1>2. 0 \in G
  <2>1. Up[0][f] = f
    BY UpDef
  <2>2. QED
    BY <2>1, <1>1 DEF G
<1>3. ASSUME NEW i \in 1..n, i - 1 \in G PROVE i \in G
  <2> DEFINE a == Up[i - 1][f]
  <2>1. a \in Entity /\ Lvl[a] = n - (i - 1)
    <3>1. i - 1 \in Nat /\ i - 1 <= n
      BY <1>1
    <3>2. QED
      BY <1>3, <3>1, Zenon DEF G, a
  <2>2. a # Root
    BY <2>1, <1>1, LvlOK
  <2>3. Up[i][f] = Par(a)
    <3>1. i \in Nat /\ i # 0
      BY <1>1
    <3>2. Up[i] = [e \in Entity |-> Par(Up[i - 1][e])]
      BY <3>1, UpDef
    <3>3. QED
      BY <3>2 DEF a
  <2>4. Par(a) \in Dirs /\ Lvl[a] = Lvl[Par(a)] + 1
    BY <2>1, <2>2, ParOK
  <2>5. Par(a) \in Entity /\ Lvl[Par(a)] = n - i
    BY <2>1, <2>4, <1>1, LvlOK DEF Entity
  <2>6. QED
    BY <2>3, <2>5 DEF G
<1>4. 0..n \subseteq G
  BY <1>1, <1>2, <1>3, IntervalInduction
<1>5. QED
  BY <1>4 DEF G
\* Every entry covers itself.
LEMMA CoversSelf ==
    ASSUME NEW e \in Entity PROVE Covers(e, e)
<1>1. Lvl[e] \in Nat
  BY LvlOK
<1>2. Up[0][e] = e
  BY UpDef
<1>3. QED
  BY <1>1, <1>2 DEF Covers

\* The root covers every entry: recursive_search(Root) reaches them all.
LEMMA CoversRoot ==
    ASSUME NEW f \in Entity PROVE Covers(Root, f)
<1>1. Lvl[f] \in Nat /\ Lvl[Root] = 0 /\ Root \in Entity
  BY LvlOK, TreeAssumption DEF Entity
<1>2. Up[Lvl[f]][f] \in Entity /\ Lvl[Up[Lvl[f]][f]] = 0
  BY <1>1, UpLevel
<1>3. Up[Lvl[f]][f] = Root
  BY <1>2, LvlZero
<1>4. QED
  BY <1>1, <1>3 DEF Covers

\* An entry above f is a directory, and one of its entries covers f.
LEMMA CoversStep ==
    ASSUME NEW f \in Entity, NEW a, Covers(a, f), a # f
    PROVE  a \in Dirs /\ \E c \in Entries[a] : Covers(c, f)
<1> DEFINE k == Lvl[f] - Lvl[a]
           c == Up[k - 1][f]
<1>1. a \in Entity /\ Lvl[a] \in Nat /\ Lvl[f] \in Nat /\ Lvl[a] <= Lvl[f]
      /\ Up[k][f] = a
  BY LvlOK DEF Covers, k
<1>2. k # 0
  <2>1. Up[0][f] = f
    BY UpDef
  <2>2. QED
    BY <1>1, <2>1 DEF k
<1>3. k \in Nat /\ k - 1 \in 0..Lvl[f]
  BY <1>1, <1>2 DEF k
<1>4. c \in Entity /\ Lvl[c] = Lvl[a] + 1
  <2>1. Up[k - 1][f] \in Entity /\ Lvl[Up[k - 1][f]] = Lvl[f] - (k - 1)
    BY <1>3, UpLevel
  <2>2. Lvl[f] - (k - 1) = Lvl[a] + 1
    BY <1>1 DEF k
  <2>3. QED
    BY <2>1, <2>2 DEF c
<1>5. c # Root
  BY <1>1, <1>4, LvlOK
<1>6. Up[k][f] = Par(c)
  <2>1. Up[k] = [e \in Entity |-> Par(Up[k - 1][e])]
    BY <1>2, <1>3, UpDef
  <2>2. QED
    BY <2>1 DEF c
<1>7. a \in Dirs /\ c \in Entries[a]
  <2>1. a = Par(c)
    BY <1>1, <1>6
  <2>2. Par(c) \in Dirs /\ c \in Entries[Par(c)]
    BY <1>4, <1>5, ParOK
  <2>3. QED
    BY <2>1, <2>2
<1>8. Covers(c, f)
  <2>1. Lvl[c] <= Lvl[f] /\ Lvl[f] - Lvl[c] = k - 1
    <3>1. Lvl[c] = Lvl[a] + 1
      BY <1>4
    <3>2. QED
      BY <1>1, <1>2, <3>1 DEF k
  <2>2. QED
    BY <1>4, <2>1 DEF Covers, c
<1>9. QED
  BY <1>7, <1>8

\* A directory covers what its entries cover.
LEMMA CoversUp ==
    ASSUME NEW f \in Entity, NEW d \in Dirs, NEW c \in Entries[d], Covers(c, f)
    PROVE  Covers(d, f)
<1> DEFINE k == Lvl[f] - Lvl[c]
<1>1. c \in Entity /\ Lvl[c] \in Nat /\ Lvl[f] \in Nat /\ Lvl[c] <= Lvl[f]
      /\ Up[k][f] = c
  BY LvlOK DEF Covers, k
<1>2. c # Root /\ d \in Entity
  BY TreeAssumption DEF Entity
<1>3. Par(c) = d /\ Lvl[c] = Lvl[d] + 1 /\ Lvl[d] \in Nat
  BY <1>1, <1>2, ParOK, LvlOK
<1>4. k \in Nat /\ k + 1 \in Nat /\ k + 1 # 0 /\ (k + 1) - 1 = k
  BY <1>1 DEF k
<1>5. Up[k + 1][f] = Par(Up[k][f])
  <2>1. Up[k + 1] = [e \in Entity |-> Par(Up[(k + 1) - 1][e])]
    BY <1>4, UpDef
  <2>2. QED
    BY <2>1, <1>4
<1>6. Lvl[d] <= Lvl[f] /\ Lvl[f] - Lvl[d] = k + 1
  BY <1>1, <1>3 DEF k
<1>7. QED
  BY <1>1, <1>2, <1>3, <1>5, <1>6 DEF Covers

\* Two entries at one depth cover disjoint parts of the tree.
LEMMA CoversSameLevel ==
    ASSUME NEW f, NEW a, NEW b, Covers(a, f), Covers(b, f), Lvl[a] = Lvl[b]
    PROVE  a = b
BY DEF Covers
-----------------------------------------------------------------------------
(* The walk.                                                               *)

\* The descriptions parse_test_toml returns.
Desc == {DescOf(c, f) : c \in {x \in Contents : ParseOk(x)}, f \in TomlFiles}

\* The test.toml files already pushed.
Names == {configs[i].name : i \in DOMAIN configs}

\* f is still to be reached by a recursive_search call on the stack.
Pending(f) == \E i \in DOMAIN stack : Covers(stack[i], f)

\* No entry lies below two entries of the stack s.
StackDisjoint(s) ==
    \A i, j \in DOMAIN s : \A f \in Entity :
        i # j => ~(Covers(s[i], f) /\ Covers(s[j], f))

\* No description of cs is of a file below an entry of the stack s.
NotBelow(s, cs) ==
    \A i \in DOMAIN cs : \A j \in DOMAIN s : ~Covers(s[j], cs[i].name)

\* No file has two descriptions in cs.
NamesUnique(cs) ==
    \A i, j \in DOMAIN cs : cs[i].name = cs[j].name => i = j

\* The inductive invariant.  No two stack entries cover a common entry, and
\* none covers a file already pushed, so every file is pushed at most once;
\* until an error, every file not yet pushed is pending; the walk stops
\* with Err only on a file that does not parse, with Ok only when the
\* stack is empty.
IInv ==
    /\ content \in [TomlFiles -> Contents]
    /\ stack \in Seq(Entity)
    /\ configs \in Seq(Desc)
    /\ status \in {"searching", "ok", "err"}
    /\ StackDisjoint(stack)
    /\ NotBelow(stack, configs)
    /\ NamesUnique(configs)
    /\ \A i \in DOMAIN configs : ParseOk(content[configs[i].name])
    /\ status # "err" => \A f \in TomlFiles : f \in Names \/ Pending(f)
    /\ status = "err" =>
          stack # <<>> /\ Head(stack) \in TomlFiles /\ ~ParseOk(content[Head(stack)])
    /\ status = "ok" => stack = <<>>

\* A read_dir order of a finite directory lists each of its entries once.
LEMMA OrderOK ==
    ASSUME NEW S, IsFiniteSet(S), NEW o \in SetToSeqs(S)
    PROVE  /\ o \in Seq(S)
           /\ \A i, j \in DOMAIN o : o[i] = o[j] => i = j
           /\ \A x \in S : \E i \in DOMAIN o : o[i] = x
<1> DEFINE n == Cardinality(S)
<1>1. n \in Nat
  BY FS_CardinalityType
<1>2. o \in [1..n -> S] /\ \A i, j \in 1..n : i # j => o[i] # o[j]
  BY DEF SetToSeqs
<1>3. o \in Seq(S)
  BY <1>1, <1>2
<1>4. o \in Injection(1..n, S)
  BY <1>2 DEF Injection, IsInjective
<1>5. IsFiniteSet(1..n) /\ Cardinality(1..n) = n
  BY <1>1, FS_Interval
<1>6. o \in Surjection(1..n, S)
  BY <1>4, <1>5, FS_Injection
<1>7. QED
  BY <1>2, <1>3, <1>6 DEF Surjection

\* Popping the head of a stack keeps it disjoint and away from the files
\* pushed, and what an entry after the head covers stays pending.
LEMMA PopOK ==
    ASSUME NEW s \in Seq(Entity), s # <<>>, StackDisjoint(s), NEW cs, NotBelow(s, cs)
    PROVE  /\ Tail(s) \in Seq(Entity)
           /\ StackDisjoint(Tail(s))
           /\ NotBelow(Tail(s), cs)
           /\ \A f \in Entity : \A q \in DOMAIN s :
                 q # 1 /\ Covers(s[q], f) => \E j \in DOMAIN Tail(s) : Covers(Tail(s)[j], f)
<1>1. /\ Tail(s) \in Seq(Entity)
      /\ Len(Tail(s)) = Len(s) - 1
      /\ \A i \in 1..Len(Tail(s)) : Tail(s)[i] = s[i + 1]
  BY HeadTailProperties
<1>2. Len(s) \in Nat /\ DOMAIN s = 1..Len(s) /\ DOMAIN Tail(s) = 1..(Len(s) - 1)
  BY <1>1
<1>3. StackDisjoint(Tail(s))
  BY <1>1, <1>2 DEF StackDisjoint
<1>4. NotBelow(Tail(s), cs)
  BY <1>1, <1>2 DEF NotBelow
<1>5. \A f \in Entity : \A q \in DOMAIN s :
         q # 1 /\ Covers(s[q], f) => \E j \in DOMAIN Tail(s) : Covers(Tail(s)[j], f)
  <2> SUFFICES ASSUME NEW f \in Entity, NEW q \in DOMAIN s, q # 1, Covers(s[q], f)
               PROVE  \E j \in DOMAIN Tail(s) : Covers(Tail(s)[j], f)
    OBVIOUS
  <2>1. q - 1 \in DOMAIN Tail(s) /\ Tail(s)[q - 1] = s[q]
    BY <1>1, <1>2
  <2>2. QED
    BY <2>1
<1>6. QED
  BY <1>1, <1>3, <1>4, <1>5

\* discover_test_configs starts with recursive_search on the root alone.
LEMMA InitOK == Init => IInv
<1> SUFFICES ASSUME Init PROVE IInv
  OBVIOUS
<1>1. stack = <<Root>> /\ configs = <<>> /\ status = "searching"
  BY DEF Init
<1>2. stack \in Seq(Entity) /\ configs \in Seq(Desc)
  BY <1>1, TreeAssumption DEF Entity
<1>3. DOMAIN stack = {1} /\ DOMAIN configs = {}
  BY <1>1
<1>4. StackDisjoint(stack)
  BY <1>3 DEF StackDisjoint
<1>5. NotBelow(stack, configs) /\ NamesUnique(configs)
  BY <1>3 DEF NotBelow, NamesUnique
<1>6. \A f \in TomlFiles : Pending(f)
  BY <1>1, <1>3, CoversRoot DEF Pending, Entity
<1>7. QED
  BY <1>1, <1>2, <1>3, <1>4, <1>5, <1>6 DEF Init, IInv
\* recursive_search on a directory: its entries, in the order read_dir
\* gives, take its place.  Each covers only what the directory covered, two
\* of them cover nothing in common (they lie at one depth), and whatever
\* lies below the directory lies below one of them.
LEMMA VisitDirOK ==
    ASSUME IInv, VisitDir PROVE IInv'
<1> DEFINE d == Head(stack)
           T == Tail(stack)
<1>1. /\ status = "searching" /\ stack # <<>> /\ d \in Dirs
      /\ UNCHANGED <<content, configs, status>>
  BY DEF VisitDir
<1>2. PICK o \in SetToSeqs(Entries[d]) : stack' = o \o T
  BY DEF VisitDir
<1>3. IsFiniteSet(Entries[d]) /\ Entries[d] \subseteq Entity
  BY <1>1, TreeAssumption, FS_Subset
<1>4. /\ o \in Seq(Entries[d])
      /\ \A i, j \in DOMAIN o : o[i] = o[j] => i = j
      /\ \A x \in Entries[d] : \E i \in DOMAIN o : o[i] = x
  BY <1>3, OrderOK
<1>5. /\ stack \in Seq(Entity) /\ T \in Seq(Entity) /\ Len(T) = Len(stack) - 1
      /\ \A i \in 1..Len(T) : T[i] = stack[i + 1]
      /\ stack[1] = d /\ Len(stack) \in Nat \ {0}
  BY <1>1, HeadTailProperties DEF IInv
<1>6. o \in Seq(Entity)
  BY <1>3, <1>4
<1>7. /\ stack' \in Seq(Entity)
      /\ Len(stack') = Len(o) + Len(T)
      /\ \A p \in 1..Len(stack') : stack'[p] = IF p <= Len(o) THEN o[p] ELSE T[p - Len(o)]
  BY <1>2, <1>5, <1>6, ConcatProperties
<1> DEFINE anc(p) == IF p <= Len(o) THEN 1 ELSE p - Len(o) + 1
<1>8. ASSUME NEW p \in DOMAIN stack', NEW f \in Entity, Covers(stack'[p], f)
      PROVE  anc(p) \in DOMAIN stack /\ Covers(stack[anc(p)], f)
  <2>1. CASE p <= Len(o)
    <3>1. stack'[p] = o[p] /\ o[p] \in Entries[d] /\ anc(p) = 1
      BY <1>4, <1>5, <1>7, <2>1
    <3>2. Covers(d, f)
      BY <1>1, <1>8, <3>1, CoversUp
    <3>3. QED
      BY <1>5, <3>1, <3>2
  <2>2. CASE ~(p <= Len(o))
    <3>1. stack'[p] = stack[p - Len(o) + 1] /\ anc(p) = p - Len(o) + 1
          /\ anc(p) \in 1..Len(stack)
      BY <1>4, <1>5, <1>7, <2>2
    <3>2. QED
      BY <1>8, <1>5, <3>1
  <2>3. QED
    BY <2>1, <2>2
<1>9. StackDisjoint(stack')
  <2> SUFFICES ASSUME NEW i \in DOMAIN stack', NEW j \in DOMAIN stack', NEW f \in Entity,
                      i # j, Covers(stack'[i], f), Covers(stack'[j], f)
               PROVE  FALSE
    BY DEF StackDisjoint
  <2>1. Covers(stack[anc(i)], f) /\ Covers(stack[anc(j)], f)
        /\ anc(i) \in DOMAIN stack /\ anc(j) \in DOMAIN stack
    BY <1>8
  <2>2. anc(i) = anc(j)
    BY <2>1, <1>1 DEF IInv, StackDisjoint
  <2>3. i <= Len(o) /\ j <= Len(o)
    BY <2>2, <1>4, <1>7
  <2>4. stack'[i] = o[i] /\ stack'[j] = o[j] /\ o[i] # o[j]
        /\ o[i] \in Entries[d] /\ o[j] \in Entries[d]
    BY <2>3, <1>4, <1>7
  <2>5. Lvl[o[i]] = Lvl[o[j]]
    BY <2>4, <1>1, LvlOK
  <2>6. QED
    BY <2>1, <2>4, <2>5, CoversSameLevel
<1>10. NotBelow(stack', configs')
  <2> SUFFICES ASSUME NEW i \in DOMAIN configs, NEW j \in DOMAIN stack',
                      Covers(stack'[j], configs[i].name)
               PROVE  FALSE
    BY <1>1 DEF NotBelow
  <2>1. configs[i].name \in TomlFiles
    BY DEF IInv, Desc, DescOf
  <2>2. QED
    BY <1>8, <2>1 DEF IInv, NotBelow, Entity
<1>11. \A f \in TomlFiles : f \in Names' \/ Pending(f)'
  <2> SUFFICES ASSUME NEW f \in TomlFiles, f \notin Names PROVE Pending(f)'
    BY <1>1 DEF Names
  <2>1. PICK q \in DOMAIN stack : Covers(stack[q], f)
    BY <1>1 DEF IInv, Pending
  <2>2. CASE q = 1
    <3>1. d # f
      BY <1>1, TreeAssumption
    <3>2. PICK c \in Entries[d] : Covers(c, f)
      BY <1>5, <2>1, <2>2, <3>1, CoversStep DEF Entity
    <3>3. PICK p \in DOMAIN o : o[p] = c
      BY <1>4
    <3>4. p \in DOMAIN stack' /\ stack'[p] = c
      <4>1. p \in 1..Len(o) /\ Len(o) \in Nat /\ Len(T) \in Nat
        BY <1>5, <1>6
      <4>2. DOMAIN stack' = 1..Len(stack')
        BY <1>7
      <4>3. p \in 1..Len(stack')
        BY <4>1, <1>7
      <4>4. QED
        BY <3>3, <4>1, <4>2, <4>3, <1>7
    <3>5. QED
      BY <3>2, <3>4 DEF Pending
  <2>3. CASE q # 1
    <3>1. q - 1 + Len(o) \in DOMAIN stack' /\ stack'[q - 1 + Len(o)] = stack[q]
      <4>1. q \in 2..Len(stack) /\ Len(o) \in Nat /\ Len(T) = Len(stack) - 1
        BY <1>5, <1>6, <2>3
      <4>2. DOMAIN stack' = 1..Len(stack')
        BY <1>7
      <4>3. q - 1 + Len(o) \in 1..Len(stack') /\ ~(q - 1 + Len(o) <= Len(o))
        BY <4>1, <1>7
      <4>4. T[q - 1] = stack[q]
        BY <4>1, <1>5
      <4>5. stack'[q - 1 + Len(o)] = T[(q - 1 + Len(o)) - Len(o)]
        BY <4>3, <1>7
      <4>6. (q - 1 + Len(o)) - Len(o) = q - 1
        BY <4>1
      <4>7. QED
        BY <4>2, <4>3, <4>4, <4>5, <4>6
    <3>2. QED
      BY <2>1, <3>1 DEF Pending
  <2>4. QED
    BY <2>2, <2>3
<1>12. QED
  BY <1>1, <1>7, <1>9, <1>10, <1>11 DEF IInv
\* recursive_search on a test.toml: parse_test_toml either pushes its
\* description, and the file, covered by the head of the stack alone, is
\* pushed once; or fails, and the walk ends with Err on that file.
LEMMA VisitTomlOK ==
    ASSUME IInv, VisitToml PROVE IInv'
<1> DEFINE h == Head(stack)
<1>1. /\ status = "searching" /\ stack # <<>> /\ h \in TomlFiles
      /\ content' = content
  BY DEF VisitToml
<1>2. /\ stack \in Seq(Entity) /\ stack[1] = h
      /\ DOMAIN stack = 1..Len(stack) /\ Len(stack) \in Nat \ {0}
  BY <1>1 DEF IInv
<1>3. CASE ParseOk(content[h])
  <2>1. /\ configs' = Append(configs, DescOf(content[h], h))
        /\ stack' = Tail(stack) /\ status' = status
    BY <1>3 DEF VisitToml
  <2>2. DescOf(content[h], h) \in Desc /\ DescOf(content[h], h).name = h
    <3>1. content[h] \in {c \in Contents : ParseOk(c)}
      BY <1>1, <1>3 DEF IInv
    <3>2. DescOf(content[h], h) \in Desc
      <4>1. \E c \in {x \in Contents : ParseOk(x)} : \E g \in TomlFiles :
              DescOf(content[h], h) = DescOf(c, g)
        BY <1>1, <3>1
      <4>2. QED
        BY <4>1 DEF Desc
    <3>3. DescOf(content[h], h).name = h
      BY DEF DescOf
    <3>4. QED
      BY <3>2, <3>3
  <2>3. /\ configs \in Seq(Desc)
        /\ configs' \in Seq(Desc)
        /\ Len(configs') = Len(configs) + 1
        /\ \A i \in 1..Len(configs) : configs'[i] = configs[i]
        /\ configs'[Len(configs) + 1] = DescOf(content[h], h)
        /\ DOMAIN configs = 1..Len(configs) /\ DOMAIN configs' = 1..(Len(configs) + 1)
    BY <2>1, <2>2, AppendProperties DEF IInv
  <2>4. /\ Tail(stack) \in Seq(Entity)
        /\ StackDisjoint(Tail(stack))
        /\ NotBelow(Tail(stack), configs)
        /\ \A f \in Entity : \A q \in DOMAIN stack :
              q # 1 /\ Covers(stack[q], f) =>
                 \E j \in DOMAIN Tail(stack) : Covers(Tail(stack)[j], f)
        /\ Len(Tail(stack)) = Len(stack) - 1
        /\ \A j \in 1..Len(Tail(stack)) : Tail(stack)[j] = stack[j + 1]
    BY <1>1, <1>2, PopOK, HeadTailProperties DEF IInv
  <2>5. Covers(h, h)
    BY <1>1, CoversSelf DEF Entity
  <2>6. \A i \in DOMAIN configs : configs[i].name # h
    BY <1>2, <2>5 DEF IInv, NotBelow
  <2>7. NotBelow(stack', configs')
    <3> SUFFICES ASSUME NEW i \in DOMAIN configs', NEW j \in DOMAIN Tail(stack),
                        Covers(Tail(stack)[j], configs'[i].name)
                 PROVE  FALSE
      BY <2>1 DEF NotBelow
    <3>1. CASE i \in DOMAIN configs
      BY <3>1, <2>3, <2>4 DEF NotBelow
    <3>2. CASE i = Len(configs) + 1
      <4>1. Covers(stack[j + 1], h) /\ j + 1 \in DOMAIN stack /\ j + 1 # 1
        BY <3>2, <2>2, <2>3, <2>4, <1>2
      <4>2. QED
        BY <4>1, <2>5, <1>1, <1>2 DEF IInv, StackDisjoint, Entity
    <3>3. QED
      BY <3>1, <3>2, <2>3
  <2>8. NamesUnique(configs')
    <3> SUFFICES ASSUME NEW i \in DOMAIN configs', NEW j \in DOMAIN configs',
                        configs'[i].name = configs'[j].name, i # j
                 PROVE  FALSE
      BY DEF NamesUnique
    <3>1. CASE i \in DOMAIN configs /\ j \in DOMAIN configs
      BY <3>1, <2>3 DEF IInv, NamesUnique
    <3>2. CASE i \in DOMAIN configs /\ j = Len(configs) + 1
      BY <3>2, <2>2, <2>3, <2>6
    <3>3. CASE j \in DOMAIN configs /\ i = Len(configs) + 1
      BY <3>3, <2>2, <2>3, <2>6
    <3>4. QED
      BY <3>1, <3>2, <3>3, <2>3
  <2>9. \A i \in DOMAIN configs' : ParseOk(content'[configs'[i].name])
    BY <1>1, <1>3, <2>2, <2>3 DEF IInv
  <2>10. \A f \in TomlFiles : f \in Names' \/ Pending(f)'
    <3> SUFFICES ASSUME NEW f \in TomlFiles PROVE f \in Names' \/ Pending(f)'
      OBVIOUS
    <3>1. CASE f \in Names
      BY <3>1, <2>3 DEF Names
    <3>2. CASE f \notin Names
      <4>1. PICK q \in DOMAIN stack : Covers(stack[q], f)
        BY <3>2, <1>1 DEF IInv, Pending
      <4>2. CASE q = 1
        <5>1. h = f
          BY <4>1, <4>2, <1>1, <1>2, CoversStep, TreeAssumption DEF Entity
        <5>2. QED
          BY <5>1, <2>2, <2>3 DEF Names
      <4>3. CASE q # 1
        BY <4>1, <4>3, <2>1, <2>4 DEF Pending, Entity
      <4>4. QED
        BY <4>2, <4>3
    <3>3. QED
      BY <3>1, <3>2
  <2>11. QED
    BY <1>1, <2>1, <2>3, <2>4, <2>7, <2>8, <2>9, <2>10 DEF IInv
<1>4. CASE ~ParseOk(content[h])
  <2>1. status' = "err" /\ UNCHANGED <<stack, configs>>
    BY <1>4 DEF VisitToml
  <2>2. QED
    BY <1>1, <1>4, <2>1 DEF IInv, Names, Pending
<1>5. QED
  BY <1>3, <1>4

\* Any other file: recursive_search returns without a description, and no
\* test.toml lies below a file.
LEMMA VisitOtherOK ==
    ASSUME IInv, VisitOther PROVE IInv'
<1> DEFINE x == Head(stack)
<1>1. /\ status = "searching" /\ stack # <<>> /\ x \in OtherFiles
      /\ stack' = Tail(stack) /\ UNCHANGED <<content, configs, status>>
  BY DEF VisitOther
<1>2. /\ stack \in Seq(Entity) /\ stack[1] = x
  BY <1>1 DEF IInv
<1>3. /\ Tail(stack) \in Seq(Entity)
      /\ StackDisjoint(Tail(stack))
      /\ NotBelow(Tail(stack), configs)
      /\ \A f \in Entity : \A q \in DOMAIN stack :
            q # 1 /\ Covers(stack[q], f) =>
               \E j \in DOMAIN Tail(stack) : Covers(Tail(stack)[j], f)
  BY <1>1, <1>2, PopOK DEF IInv
<1>4. \A f \in TomlFiles : f \in Names' \/ Pending(f)'
  <2> SUFFICES ASSUME NEW f \in TomlFiles, f \notin Names PROVE Pending(f)'
    BY <1>1 DEF Names
  <2>1. PICK q \in DOMAIN stack : Covers(stack[q], f)
    BY <1>1 DEF IInv, Pending
  <2>2. q # 1
    <3>1. x # f /\ x \notin Dirs
      BY <1>1, TreeAssumption
    <3>2. QED
      BY <2>1, <1>2, <3>1, CoversStep DEF Entity
  <2>3. QED
    BY <1>1, <1>3, <2>1, <2>2 DEF Pending, Entity
<1>5. QED
  BY <1>1, <1>3, <1>4 DEF IInv, Names

\* discover_test_configs returns Ok once the root's search returns.
LEMMA DoneOK ==
    ASSUME IInv, Done PROVE IInv'
BY DEF Done, IInv, Names, Pending
\* Every step of the walk keeps the invariant.
LEMMA NextOK ==
    IInv /\ [Next]_vars => IInv'
<1> SUFFICES ASSUME IInv, [Next]_vars PROVE IInv'
  OBVIOUS
<1>1. CASE VisitDir
  BY <1>1, VisitDirOK
<1>2. CASE VisitToml
  BY <1>2, VisitTomlOK
<1>3. CASE VisitOther
  BY <1>3, VisitOtherOK
<1>4. CASE Done
  BY <1>4, DoneOK
<1>5. CASE UNCHANGED vars
  BY <1>5 DEF vars, IInv, Names, Pending, StackDisjoint, NotBelow, NamesUnique
<1>6. QED
  BY <1>1, <1>2, <1>3, <1>4, <1>5 DEF Next

\* A description names the test.toml it was parsed from.
LEMMA DescName ==
    \A x \in Desc : x.name \in TomlFiles
BY DEF Desc, DescOf

\* The invariant gives DiscoveryExact: with Ok the stack is empty, so every
\* file was pushed, each once; with Err the head of the stack does not parse.
LEMMA ExactOK ==
    IInv => DiscoveryExact
<1> SUFFICES ASSUME IInv, status # "searching"
             PROVE  /\ status = "ok" <=> \A f \in TomlFiles : ParseOk(content[f])
                    /\ status = "ok" =>
                          /\ Len(configs) = Cardinality(TomlFiles)
                          /\ {configs[i].name : i \in DOMAIN configs} = TomlFiles
  BY DEF DiscoveryExact
<1>1. /\ configs \in Seq(Desc)
      /\ DOMAIN configs = 1..Len(configs) /\ Len(configs) \in Nat
      /\ \A i \in DOMAIN configs : configs[i].name \in TomlFiles
  BY DescName DEF IInv
<1>2. CASE status = "ok"
  <2>1. \A f \in TomlFiles : f \in Names
    <3>1. stack = <<>>
      BY <1>2 DEF IInv
    <3>2. \A f \in TomlFiles : ~Pending(f)
      BY <3>1 DEF Pending
    <3>3. QED
      BY <1>2, <3>2 DEF IInv
  <2>2. Names = TomlFiles
    BY <1>1, <2>1 DEF Names
  <2>3. \A f \in TomlFiles : ParseOk(content[f])
    BY <2>1 DEF IInv, Names
  <2> DEFINE g == [i \in 1..Len(configs) |-> configs[i].name]
  <2>4. g \in Bijection(1..Len(configs), TomlFiles)
    <3>1. g \in [1..Len(configs) -> TomlFiles]
      BY <1>1
    <3>2. IsInjective(g)
      BY <1>1 DEF IInv, NamesUnique, IsInjective
    <3>3. \A f \in TomlFiles : \E i \in 1..Len(configs) : g[i] = f
      BY <1>1, <2>1 DEF Names
    <3>4. QED
      BY <3>1, <3>2, <3>3 DEF Bijection, Injection, Surjection
  <2>5. IsFiniteSet(1..Len(configs)) /\ Cardinality(1..Len(configs)) = Len(configs)
    BY <1>1, FS_Interval
  <2>6. Cardinality(TomlFiles) = Len(configs)
    BY <2>4, <2>5, FS_Bijection DEF ExistsBijection
  <2>7. QED
    BY <1>2, <2>2, <2>3, <2>6 DEF Names
<1>3. CASE status = "err"
  <2>1. Head(stack) \in TomlFiles /\ ~ParseOk(content[Head(stack)])
    BY <1>3 DEF IInv
  <2>2. QED
    BY <1>3, <2>1
<1>4. QED
  BY <1>2, <1>3 DEF IInv

-----------------------------------------------------------------------------
(* Theorems.                                                               *)

\* The invariant holds in every state of every walk of every tree.
THEOREM WalkInvariant == Spec => []IInv
BY InitOK, NextOK, PTL DEF Spec

\* discover_test_configs (mod.rs 535-561), over every finite tree and every
\* read_dir order: when it returns, it returns Ok exactly when every
\* test.toml parses, and then one description of each of them.
THEOREM DiscoveryExactCorrect == Spec => []DiscoveryExact
BY WalkInvariant, ExactOK, PTL

====
