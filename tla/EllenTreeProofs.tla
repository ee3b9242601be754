-------------------------- MODULE EllenTreeProofs --------------------------
(***************************************************************************)
(* Proofs about the tree of EllenTree.  The lemmas speak of a tree T with  *)
(* descriptors D before a step and of U with E after it.  Three invariants *)
(* build on each other: TreeInv looks at two nodes at a time and follows   *)
(* no path, PathInv is about the paths of searches and updates, SeenInv    *)
(* about what the calls have seen and whose update may still happen.       *)
(***************************************************************************)
EXTENDS EllenTree, TLAPS, SequenceTheorems, WellFoundedInduction

(***************************************************************************)
(* What a step may do to the tree and the descriptors.                     *)
(***************************************************************************)

\* An update word is flagged by a new descriptor, marked for the deletion that
\* read it clean, or cleaned when its update is done or lost.
WordMoves(T, D, U, n) ==
  LET w == T[n].update
      v == U[n].update
  IN \/ v = w
     \/ w.flag = "clean" /\ v.flag \in {"iflag", "dflag"} /\ v.op = Len(D) + 1
     \/ /\ w.flag = "clean" /\ v.flag = "mark" /\ v.op \in DOMAIN D
        /\ D[v.op].kind = "delete" /\ D[v.op].p = n /\ D[v.op].pupdate = w
     \/ /\ w.flag \in {"iflag", "dflag"} /\ v = Clean(w.op)
        /\ D[w.op].done \/ (D[w.op].kind = "delete" /\ ~MayMark(T, D, w.op))

LiveKid(T, c) == \E g \in LiveInternal(T) : c \in Kids(T, g)

\* Children change by the child CAS of the update whose flag is on the node.
KidsMove(T, D, U, E, n) ==
  \/ U[n].left = T[n].left /\ U[n].right = T[n].right
  \/ LET o == T[n].update.op IN
     /\ o \in DOMAIN D /\ n = Parent(D[o]) /\ Flagged(T, D, o) /\ ~D[o].done /\ E[o].done
     /\ Old(D[o]) \in Kids(T, n) \ Kids(U, n)
     /\ \A c \in Kids(U, n) : LiveKid(T, c) \/ (D[o].kind = "insert" /\ c = D[o].new)

NodeMoves(T, D, U, E, n) ==
  /\ U[n].key = T[n].key /\ (IsLeaf(U, n) <=> IsLeaf(T, n))
  /\ WordMoves(T, D, U, n) /\ KidsMove(T, D, U, E, n)
  /\ \/ U[n].retired = T[n].retired
     \/ U[n].retired = T[n].retired + 1 /\ LiveKid(T, n)

SameUpdate(d, e) ==
  /\ e.kind = d.kind /\ e.gp = d.gp /\ e.p = d.p /\ e.l = d.l /\ e.new = d.new
  /\ e.pupdate = d.pupdate /\ e.key = d.key

InfoMoves(T, D, U, E, o) ==
  /\ SameUpdate(D[o], E[o])
  /\ D[o].done => E[o].done
  /\ E[o].done /\ ~D[o].done =>
       /\ Flagged(T, D, o) /\ Old(D[o]) \notin Kids(U, Parent(D[o]))
       /\ U[D[o].l].retired > 0
       /\ D[o].kind = "delete" =>
            T[D[o].p].update = Word("mark", o) /\ U[D[o].p].retired > 0
  /\ E[o].retired = IF Flagged(T, D, o) /\ ~Flagged(U, E, o) THEN D[o].retired + 1
                                                              ELSE D[o].retired

Moves(T, D, U, E) ==
  /\ U \in Seq(NodeType) /\ E \in Seq(InfoType)
  /\ Len(T) <= Len(U) /\ Len(D) <= Len(E)
  /\ \A n \in DOMAIN T : NodeMoves(T, D, U, E, n)
  /\ \A n \in DOMAIN U \ DOMAIN T : Kids(U, n) \cap DOMAIN T = {}
  /\ \A o \in DOMAIN D : InfoMoves(T, D, U, E, o)

\* Nodes and descriptors stay, with the constant part of their contents.
LEMMA Typed ==
  ASSUME NEW T, NEW D, Shared(T, D)
  PROVE  /\ \A n \in DOMAIN T : n \in Nat /\ n # 0 /\ T[n] \in NodeType
         /\ \A o \in DOMAIN D : o \in Nat /\ o # 0 /\ D[o] \in InfoType
         /\ DOMAIN T = 1..Len(T) /\ DOMAIN D = 1..Len(D)
         /\ Len(T) \in Nat /\ Len(D) \in Nat
  BY DEF Shared

LEMMA MovesStay ==
  ASSUME NEW T, NEW D, NEW U, NEW E, Shared(T, D), Moves(T, D, U, E)
  PROVE  /\ DOMAIN T \subseteq DOMAIN U /\ DOMAIN D \subseteq DOMAIN E
         /\ Len(U) \in Nat /\ Len(E) \in Nat
         /\ DOMAIN U = 1..Len(U) /\ DOMAIN E = 1..Len(E)
         /\ \A n \in DOMAIN U : U[n] \in NodeType
         /\ \A o \in DOMAIN E : E[o] \in InfoType
         /\ \A n : IsInternal(T, n) => IsInternal(U, n)
<1>1. /\ DOMAIN T \subseteq DOMAIN U /\ DOMAIN D \subseteq DOMAIN E
      /\ Len(U) \in Nat /\ Len(E) \in Nat
      /\ DOMAIN U = 1..Len(U) /\ DOMAIN E = 1..Len(E)
  BY Typed DEF Moves
<1>2. /\ \A n \in DOMAIN U : U[n] \in NodeType
      /\ \A o \in DOMAIN E : E[o] \in InfoType
  BY DEF Moves
<1>3. \A n : IsInternal(T, n) => IsInternal(U, n)
  BY <1>1 DEF Moves, NodeMoves, IsInternal
<1> QED BY <1>1, <1>2, <1>3

\* The words and descriptors of a shared state, one at a time.
LEMMA WordFacts ==
  ASSUME NEW T, NEW D, Shared(T, D), NEW n \in DOMAIN T
  PROVE  WordMeans(T, D, T[n].update) /\ T[n].update \in WordType
  BY DEF Shared, WordMeans

LEMMA InsertFacts ==
  ASSUME NEW T, NEW D, Shared(T, D), NEW o \in DOMAIN D, D[o].kind = "insert"
  PROVE  InsertView(T, D, o)
  BY DEF Shared, Views

LEMMA DeleteFacts ==
  ASSUME NEW T, NEW D, Shared(T, D), NEW o \in DOMAIN D, D[o].kind = "delete"
  PROVE  DeleteView(T, D, o)
  BY DEF Shared, Views

LEMMA Kinds ==
  ASSUME NEW T, NEW D, Shared(T, D), NEW o \in DOMAIN D
  PROVE  /\ D[o].kind \in {"insert", "delete"} /\ (D[o].kind = "delete" <=> D[o].kind # "insert")
         /\ D[o].key \in AllKeys /\ D[o].done \in BOOLEAN /\ D[o].retired \in Nat
         /\ D[o].pupdate \in WordType
<1>1. D[o] \in InfoType
  BY Typed
<1> QED BY <1>1 DEF InfoType

(***************************************************************************)
(* What was read stays true.                                               *)
(***************************************************************************)
LEMMA WordKept ==
  ASSUME NEW T, NEW D, NEW U, NEW E, Shared(T, D), Moves(T, D, U, E),
         NEW w, WordMeans(T, D, w)
  PROVE  WordMeans(U, E, w)
<1>1. w \in WordType /\ w.op \in 0..Len(E)
  BY Typed, MovesStay DEF WordMeans, Moves
<1>2. ASSUME w.flag # "clean"
      PROVE  /\ w.op # 0 /\ w.op \in DOMAIN D
             /\ E[w.op].kind = (IF w.flag = "iflag" THEN "insert" ELSE "delete")
  <2>1. w.op # 0 /\ w.op \in DOMAIN D
    BY <1>2, Typed DEF WordMeans
  <2> QED BY <1>2, <2>1, SMTT(30) DEF Moves, InfoMoves, SameUpdate, WordMeans
<1>3. ASSUME w.flag = "mark" PROVE U[E[w.op].p].update = w
  <2>1. w.op \in DOMAIN D /\ D[w.op].kind = "delete"
    BY <1>2, <1>3 DEF WordMeans
  <2>2. D[w.op].p \in DOMAIN T /\ E[w.op].p = D[w.op].p
    BY <2>1, DeleteFacts DEF DeleteView, Since, IsInternal, Moves, InfoMoves, SameUpdate
  <2>3. T[D[w.op].p].update = w
    BY <1>3 DEF WordMeans
  <2>4. WordMoves(T, D, U, D[w.op].p)
    BY <2>2 DEF Moves, NodeMoves
  <2> QED BY <1>3, <2>2, <2>3, <2>4 DEF WordMoves
<1> QED BY <1>1, <1>2, <1>3 DEF WordMeans

LEMMA SinceKept ==
  ASSUME NEW T, NEW D, NEW U, NEW E, Shared(T, D), Moves(T, D, U, E),
         NEW n, NEW w, WordMeans(T, D, w), Since(T, n, w)
  PROVE  Since(U, n, w) /\ (w.flag = "clean" /\ U[n].update = w => T[n].update = w)
<1>1. n \in DOMAIN T /\ IsInternal(U, n)
  BY MovesStay DEF Since, IsInternal
<1>2. SUFFICES ASSUME w.flag = "clean"
               PROVE  /\ U[n].update = w \/ Past(U, n, w.op)
                      /\ U[n].update = w => T[n].update = w
  BY <1>1 DEF Since
<1> DEFINE a == T[n].update.op
           b == U[n].update.op
<1>3. a \in Nat /\ b \in Nat /\ w.op \in Nat /\ Len(D) \in Nat /\ w.op <= Len(D) /\ a <= Len(D)
  <2>1. T[n].update \in WordType /\ a \in 0..Len(D)
    BY <1>1, WordFacts DEF WordMeans
  <2>2. U[n] \in NodeType
    BY <1>1, MovesStay
  <2> QED BY <2>1, <2>2, Typed, SMTT(30) DEF WordMeans, WordType, NodeType
<1>4. \/ U[n].update = T[n].update
      \/ U[n].update.flag # "clean" /\ T[n].update.flag = "clean"
         /\ (U[n].update.flag = "mark" \/ b = Len(D) + 1)
      \/ T[n].update.flag \in {"iflag", "dflag"} /\ b = a
  <2>1. WordMoves(T, D, U, n)
    BY <1>1 DEF Moves, NodeMoves
  <2> QED BY <2>1 DEF WordMoves, Clean, Word
<1>5. T[n].update = w \/ T[n].update.flag = "mark" \/ a > w.op
  BY <1>2 DEF Since, Past
<1> HIDE DEF a, b
<1>6. CASE T[n].update = w
  <2>1. U[n].update = w \/ U[n].update.flag = "mark" \/ b > w.op
    BY <1>2, <1>3, <1>4, <1>6
  <2> QED BY <1>6, <2>1 DEF Past, b
<1>7. CASE T[n].update # w
  <2>1. T[n].update.flag = "mark" \/ a > w.op
    BY <1>5, <1>7
  <2>2. U[n].update.flag = "mark" \/ b > w.op
    BY <1>2, <1>3, <1>4, <2>1 DEF a, b
  <2>3. U[n].update # w
    BY <1>2, <1>3, <2>2 DEF b
  <2> QED BY <2>2, <2>3 DEF Past, b
<1> QED BY <1>6, <1>7

\* What a step does at one node and to one descriptor.
LEMMA MovesAt ==
  ASSUME NEW T, NEW D, NEW U, NEW E, Shared(T, D), Moves(T, D, U, E)
  PROVE  /\ \A n \in DOMAIN T : NodeMoves(T, D, U, E, n)
         /\ \A o \in DOMAIN D :
              /\ InfoMoves(T, D, U, E, o) /\ SameUpdate(D[o], E[o])
              /\ Parent(E[o]) = Parent(D[o]) /\ Old(E[o]) = Old(D[o])
              /\ FlagOf(E[o]) = FlagOf(D[o])
  BY DEF Moves, InfoMoves, SameUpdate, Parent, Old, FlagOf

LEMMA KidsStay ==
  ASSUME NEW T, NEW D, NEW U, NEW E, Shared(T, D), Moves(T, D, U, E),
         NEW n \in DOMAIN T, T[n].update.flag \notin {"iflag", "dflag"}
  PROVE  U[n].left = T[n].left /\ U[n].right = T[n].right
<1>1. KidsMove(T, D, U, E, n)
  BY MovesAt DEF NodeMoves
<1> QED BY <1>1 DEF KidsMove, Flagged, FlagOf, Word

LEMMA KidsStayFlagged ==
  ASSUME NEW T, NEW D, NEW U, NEW E, Shared(T, D), Moves(T, D, U, E),
         NEW o \in DOMAIN D, Parent(D[o]) \in DOMAIN T, Flagged(T, D, o), ~E[o].done
  PROVE  /\ U[Parent(D[o])].left = T[Parent(D[o])].left
         /\ U[Parent(D[o])].right = T[Parent(D[o])].right
<1>1. KidsMove(T, D, U, E, Parent(D[o]))
  BY MovesAt DEF NodeMoves
<1>2. T[Parent(D[o])].update.op = o
  BY DEF Flagged, Word
<1> QED BY <1>1, <1>2 DEF KidsMove

LEMMA KidsNew ==
  ASSUME NEW T, NEW D, NEW U, NEW E, Shared(T, D), Moves(T, D, U, E),
         NEW n \in DOMAIN T, NEW c \in Kids(U, n), c \notin Kids(T, n)
  PROVE  \/ LiveKid(T, c)
         \/ \E q \in DOMAIN D :
              D[q].kind = "insert" /\ ~D[q].done /\ E[q].done /\ c = D[q].new
<1>1. KidsMove(T, D, U, E, n)
  BY MovesAt DEF NodeMoves
<1> QED BY <1>1 DEF KidsMove, Kids

LEMMA LiveKidIsLive ==
  ASSUME NEW T, NEW D, Shared(T, D), NEW c, LiveKid(T, c)
  PROVE  c \in DOMAIN T /\ T[c].retired = 0
<1>1. PICK g \in LiveInternal(T) : c \in Kids(T, g)
  BY DEF LiveKid
<1>2. g \in DOMAIN T /\ ~IsLeaf(T, g)
  BY <1>1 DEF LiveInternal
<1>3. T[c].retired = 0
  BY <1>1 DEF Shared, Shape, LiveTree
<1>4. c \in DOMAIN T
  BY <1>1, <1>2 DEF Shared, Shape, Binary
<1> QED BY <1>3, <1>4

LEMMA FlagBack ==
  ASSUME NEW T, NEW D, NEW U, NEW E, Shared(T, D), Moves(T, D, U, E),
         NEW o \in DOMAIN D, Parent(D[o]) \in DOMAIN T, Flagged(U, E, o)
  PROVE  Flagged(T, D, o)
<1> DEFINE n == Parent(D[o])
<1>1. WordMoves(T, D, U, n)
  BY MovesAt DEF NodeMoves
<1>2. U[n].update = Word(FlagOf(D[o]), o)
  BY MovesAt DEF Flagged
<1>3. o # Len(D) + 1
  BY Typed
<1>4. FlagOf(D[o]) \in {"iflag", "dflag"}
  BY DEF FlagOf
<1> HIDE DEF n
<1>5. T[n].update = Word(FlagOf(D[o]), o)
  BY <1>1, <1>2, <1>3, <1>4 DEF WordMoves, Word, Clean
<1> QED BY <1>5 DEF Flagged, n

LEMMA FlagStays ==
  ASSUME NEW T, NEW D, NEW U, NEW E, Shared(T, D), Moves(T, D, U, E),
         NEW o \in DOMAIN D, Parent(D[o]) \in DOMAIN T, Flagged(T, D, o), ~D[o].done,
         D[o].kind = "insert" \/ MayMark(T, D, o)
  PROVE  Flagged(U, E, o)
<1> DEFINE n == Parent(D[o])
<1>1. WordMoves(T, D, U, n)
  BY MovesAt DEF NodeMoves
<1>2. T[n].update = Word(FlagOf(D[o]), o)
  BY DEF Flagged
<1>3. FlagOf(D[o]) \in {"iflag", "dflag"}
  BY DEF FlagOf
<1> HIDE DEF n
<1>4. U[n].update = Word(FlagOf(D[o]), o)
  BY <1>1, <1>2, <1>3 DEF WordMoves, Word
<1> QED BY <1>4, MovesAt DEF Flagged, n

LEMMA MayMarkBack ==
  ASSUME NEW T, NEW D, NEW U, NEW E, Shared(T, D), Moves(T, D, U, E),
         NEW o \in DOMAIN D, D[o].kind = "delete", MayMark(U, E, o)
  PROVE  MayMark(T, D, o)
<1> DEFINE n == D[o].p
<1>1. /\ WordMeans(T, D, D[o].pupdate) /\ Since(T, n, D[o].pupdate)
      /\ D[o].pupdate.flag = "clean" /\ n \in DOMAIN T
  BY DeleteFacts DEF DeleteView, Since, IsInternal
<1>2. E[o].p = n /\ E[o].pupdate = D[o].pupdate
  BY MovesAt DEF SameUpdate
<1>3. CASE U[n].update = D[o].pupdate
  <2>1. T[n].update = D[o].pupdate
    BY <1>1, <1>3, SinceKept
  <2> QED BY <2>1 DEF MayMark
<1>4. CASE U[n].update = Word("mark", o)
  <2>1. WordMoves(T, D, U, n)
    BY <1>1, MovesAt DEF NodeMoves
  <2>2. T[n].update \in {D[o].pupdate, Word("mark", o)}
    BY <1>4, <2>1 DEF WordMoves, Word, Clean
  <2> QED BY <2>2 DEF MayMark
<1> QED BY <1>2, <1>3, <1>4 DEF MayMark

LEMMA MarkStays ==
  ASSUME NEW T, NEW D, NEW U, NEW E, Shared(T, D), Moves(T, D, U, E),
         NEW n \in DOMAIN T, T[n].update.flag = "mark"
  PROVE  U[n].update = T[n].update /\ U[n].left = T[n].left /\ U[n].right = T[n].right
<1>1. WordMoves(T, D, U, n)
  BY MovesAt DEF NodeMoves
<1>2. U[n].update = T[n].update
  BY <1>1 DEF WordMoves
<1> QED BY <1>2, KidsStay

(***************************************************************************)
(* Searches and help functions of threads that do not move.                *)
(***************************************************************************)
LEMMA UnderKept ==
  ASSUME NEW T, NEW D, NEW U, NEW E, Shared(T, D), Moves(T, D, U, E),
         NEW n, NEW w, NEW k, NEW c, WordMeans(T, D, w), ReadUnder(T, n, w, k, c)
  PROVE  ReadUnder(U, n, w, k, c)
<1>1. Since(T, n, w) /\ n \in DOMAIN T
  BY DEF ReadUnder, Since, IsInternal
<1>2. Since(U, n, w) /\ (w.flag = "clean" /\ U[n].update = w => T[n].update = w)
  BY <1>1, SinceKept
<1>3. ASSUME w.flag = "clean", U[n].update = w PROVE ChildFor(U, n, k) = c
  <2>1. T[n].update = w /\ ChildFor(T, n, k) = c
    BY <1>2, <1>3 DEF ReadUnder
  <2>2. U[n].left = T[n].left /\ U[n].right = T[n].right
    BY <1>1, <1>3, <2>1, KidsStay
  <2>3. U[n].key = T[n].key
    BY <1>1, MovesAt DEF NodeMoves
  <2> QED BY <2>1, <2>2, <2>3 DEF ChildFor
<1> QED BY <1>2, <1>3 DEF ReadUnder

LEMMA SearchKept ==
  ASSUME NEW T, NEW D, NEW U, NEW E, Shared(T, D), Moves(T, D, U, E),
         NEW me, SearchView(T, D, me)
  PROVE  SearchView(U, E, me)
<1>1. /\ WordMeans(T, D, me.pupdate) /\ WordMeans(U, E, me.pupdate)
      /\ WordMeans(T, D, me.gpupdate) /\ WordMeans(U, E, me.gpupdate)
  BY WordKept DEF SearchView
<1>2. me.pc # "idle" => me.key \in AllKeys /\ me.op \in Ops
  BY DEF SearchView
<1>3. me.pc \in {"update", "child", "cas"} => IsInternal(U, me.p)
  BY MovesStay DEF SearchView
<1>4. me.pc \in {"child", "cas"} /\ me.op # "find" => Since(U, me.p, me.pupdate)
  BY <1>1, SinceKept DEF SearchView
<1>5. me.pc \in {"update", "child"} /\ me.op = "delete" =>
        me.p = Root \/ ReadUnder(U, me.gp, me.gpupdate, me.key, me.p)
  BY <1>1, UnderKept DEF SearchView
<1>6. ASSUME me.pc = "cas"
      PROVE  /\ me.op # "find" /\ me.l \in DOMAIN U /\ IsLeaf(U, me.l)
             /\ me.pupdate.flag = "clean" /\ ReadUnder(U, me.p, me.pupdate, me.key, me.l)
             /\ me.op = "delete" =>
                  me.gpupdate.flag = "clean" /\ ReadUnder(U, me.gp, me.gpupdate, me.key, me.p)
  <2>1. me.l \in DOMAIN T /\ IsLeaf(T, me.l)
    BY <1>6 DEF SearchView
  <2>2. me.l \in DOMAIN U /\ IsLeaf(U, me.l)
    BY <2>1, MovesStay, MovesAt DEF NodeMoves
  <2>3. ReadUnder(U, me.p, me.pupdate, me.key, me.l)
    BY <1>1, <1>6, UnderKept DEF SearchView
  <2>4. me.op = "delete" => ReadUnder(U, me.gp, me.gpupdate, me.key, me.p)
    BY <1>1, <1>6, UnderKept DEF SearchView
  <2> QED BY <1>6, <2>2, <2>3, <2>4 DEF SearchView
<1> QED BY <1>1, <1>2, <1>3, <1>4, <1>5, <1>6 DEF SearchView

\* Where a deletion's parent is marked and the update is not done, its flag is on.
LEMMA MarkedIsFlagged ==
  ASSUME NEW T, NEW D, Shared(T, D), NEW o \in DOMAIN D, D[o].kind = "delete",
         MayMark(T, D, o), ~D[o].done
  PROVE  Flagged(T, D, o)
  BY DeleteFacts DEF DeleteView

LEMMA ParentIsNode ==
  ASSUME NEW T, NEW D, Shared(T, D), NEW o \in DOMAIN D
  PROVE  IsInternal(T, Parent(D[o])) /\ Parent(D[o]) \in DOMAIN T
<1>1. CASE D[o].kind = "insert"
  BY <1>1, InsertFacts DEF InsertView, Parent, IsInternal
<1>2. CASE D[o].kind = "delete"
  BY <1>2, DeleteFacts DEF DeleteView, Parent, IsInternal
<1> QED BY <1>1, <1>2, Kinds

LEMMA FrameKept ==
  ASSUME NEW T, NEW D, NEW U, NEW E, Shared(T, D), Moves(T, D, U, E),
         NEW f, FrameView(T, D, f)
  PROVE  FrameView(U, E, f)
<1> DEFINE o == f.op
<1>1. o \in DOMAIN D /\ o \in DOMAIN E
  BY MovesStay DEF FrameView
<1>2. /\ SameUpdate(D[o], E[o]) /\ Parent(E[o]) = Parent(D[o]) /\ Old(E[o]) = Old(D[o])
      /\ (D[o].done => E[o].done)
  BY <1>1, MovesAt DEF InfoMoves
<1>3. D[o].kind = "delete" => D[o].p \in DOMAIN T
  BY <1>1, DeleteFacts DEF DeleteView, Since, IsInternal
<1>4. ASSUME D[o].kind = "delete", T[D[o].p].update = Word("mark", o)
      PROVE  /\ U[D[o].p].update = Word("mark", o) /\ Kids(U, D[o].p) = Kids(T, D[o].p)
             /\ MayMark(T, D, o)
  <2>1. T[D[o].p].update.flag = "mark"
    BY <1>4 DEF Word
  <2> QED BY <1>3, <1>4, <2>1, MarkStays DEF Kids, MayMark
<1>5. f.at \in {"mark", "other", "backoff"} => E[o].kind = "delete"
  BY <1>2 DEF FrameView, SameUpdate
<1>6. f.at = "backoff" => ~MayMark(U, E, o)
  BY <1>1, MayMarkBack DEF FrameView
<1>7. f.at = "other" => U[E[o].p].update = Word("mark", o)
  BY <1>2, <1>4 DEF FrameView, SameUpdate
<1>8. f.at \in {"left", "lookRight", "casLeft", "casRight"} =>
        IF E[o].kind = "insert" THEN f.other = E[o].new
        ELSE U[E[o].p].update = Word("mark", o) /\ f.other \in Kids(U, E[o].p) \ {E[o].l}
  <2>1. D[o].kind = "insert" \/ D[o].kind = "delete"
    BY <1>1, Kinds
  <2> QED BY <1>2, <1>4, <2>1 DEF FrameView, SameUpdate
<1>9. ASSUME f.at \in {"lookRight", "casLeft", "casRight"}, ~E[o].done
      PROVE  /\ U[Parent(E[o])].left = T[Parent(D[o])].left
             /\ U[Parent(E[o])].right = T[Parent(D[o])].right
  <2>1. D[o].kind = "delete" => MayMark(T, D, o)
    BY <1>4, <1>9 DEF FrameView
  <2>2. ~D[o].done
    BY <1>2, <1>9
  <2>3. Flagged(T, D, o)
    BY <1>1, <2>1, <2>2, Kinds, InsertFacts, MarkedIsFlagged DEF InsertView
  <2> QED BY <1>1, <1>2, <1>9, <2>3, ParentIsNode, KidsStayFlagged
<1>10. f.at = "casLeft" => E[o].done \/ U[Parent(E[o])].left = Old(E[o])
  BY <1>2, <1>9 DEF FrameView
<1>11. f.at \in {"lookRight", "casRight"} => E[o].done \/ U[Parent(E[o])].right = Old(E[o])
  BY <1>2, <1>9 DEF FrameView
<1>12. f.at = "unflag" => E[o].done
  BY <1>2 DEF FrameView
<1> QED BY <1>1, <1>5, <1>6, <1>7, <1>8, <1>10, <1>11, <1>12 DEF FrameView

LEMMA LocalKept ==
  ASSUME NEW T, NEW D, NEW U, NEW E, Shared(T, D), Moves(T, D, U, E),
         NEW me, LocalView(T, D, me)
  PROVE  LocalView(U, E, me)
  BY SearchKept, FrameKept DEF LocalView

(***************************************************************************)
(* The descriptors that were there before a step.                          *)
(***************************************************************************)
LEMMA RetiredStays ==
  ASSUME NEW T, NEW D, NEW U, NEW E, Shared(T, D), Moves(T, D, U, E),
         NEW n \in DOMAIN T, T[n].retired > 0
  PROVE  U[n].retired > 0
<1>1. T[n].retired \in Nat
  BY Typed DEF NodeType
<1>2. U[n].retired = T[n].retired \/ U[n].retired = T[n].retired + 1
  BY MovesAt DEF NodeMoves
<1> QED BY <1>1, <1>2

\* What is retired before a step does not become a child in it.
LEMMA RetiredIsNoNewKid ==
  ASSUME NEW T, NEW D, NEW U, NEW E, Shared(T, D), Moves(T, D, U, E),
         NEW n \in DOMAIN T, NEW c \in DOMAIN T, T[c].retired > 0, c \notin Kids(T, n)
  PROVE  c \notin Kids(U, n)
<1>1. SUFFICES ASSUME c \in Kids(U, n) PROVE FALSE
  OBVIOUS
<1>2. CASE LiveKid(T, c)
  BY <1>2, LiveKidIsLive
<1>3. CASE \E q \in DOMAIN D :
             D[q].kind = "insert" /\ ~D[q].done /\ E[q].done /\ c = D[q].new
  BY <1>3, InsertFacts DEF InsertView
<1> QED BY <1>1, <1>2, <1>3, KidsNew

LEMMA RetiredKept ==
  ASSUME NEW T, NEW D, NEW U, NEW E, Shared(T, D), Moves(T, D, U, E),
         NEW o \in DOMAIN D
  PROVE  E[o].retired = IF Flagged(U, E, o) THEN 0 ELSE 1
<1>1. E[o].retired = IF Flagged(T, D, o) /\ ~Flagged(U, E, o) THEN D[o].retired + 1
                                                               ELSE D[o].retired
  BY MovesAt DEF InfoMoves
<1>2. D[o].retired = IF Flagged(T, D, o) THEN 0 ELSE 1
  BY DEF Shared, RetiredUnflagged
<1>3. Flagged(U, E, o) => Flagged(T, D, o)
  BY ParentIsNode, FlagBack
<1> QED BY <1>1, <1>2, <1>3

LEMMA InsertKept ==
  ASSUME NEW T, NEW D, NEW U, NEW E, Shared(T, D), Moves(T, D, U, E), Binary(U),
         NEW o \in DOMAIN D, D[o].kind = "insert"
  PROVE  InsertView(U, E, o)
<1> DEFINE d == D[o]
           e == E[o]
<1>1. InsertView(T, D, o)
  BY InsertFacts
<1>2. /\ e.kind = "insert" /\ e.p = d.p /\ e.l = d.l /\ e.new = d.new /\ e.key = d.key
      /\ (d.done => e.done)
  BY MovesAt DEF SameUpdate, InfoMoves
<1>3. /\ IsInternal(T, d.p) /\ d.p \in DOMAIN T /\ d.l \in DOMAIN T /\ IsLeaf(T, d.l)
      /\ IsInternal(T, d.new) /\ d.new \in DOMAIN T
  BY <1>1 DEF InsertView, IsInternal
<1>4. /\ IsInternal(U, d.p) /\ d.l \in DOMAIN U /\ IsLeaf(U, d.l)
      /\ IsInternal(U, d.new)
  BY <1>3, MovesStay, MovesAt DEF NodeMoves
<1>5. U[d.l].key = KeyMax => U[d.new].key = KeyMax
  BY <1>1, <1>3, MovesAt DEF NodeMoves, InsertView
<1>6. ASSUME e.done PROVE d.l \notin Kids(U, d.p) /\ U[d.l].retired > 0
  <2>1. CASE d.done
    BY <1>1, <1>3, <2>1, RetiredStays, RetiredIsNoNewKid DEF InsertView
  <2>2. CASE ~d.done
    <3>1. Parent(d) = d.p /\ Old(d) = d.l
      BY DEF Parent, Old
    <3> QED BY <1>6, <2>2, <3>1, MovesAt DEF InfoMoves
  <2> QED BY <2>1, <2>2
<1>7. ASSUME ~e.done
      PROVE  /\ Flagged(U, E, o) /\ ChildFor(U, d.p, d.key) = d.l
             /\ U[d.new].retired = 0
             /\ \A n \in LiveInternal(U) : d.new \notin Kids(U, n)
  <2>1. /\ ~d.done /\ Flagged(T, D, o) /\ ChildFor(T, d.p, d.key) = d.l
        /\ T[d.new].retired = 0
        /\ \A n \in LiveInternal(T) : d.new \notin Kids(T, n)
    BY <1>1, <1>2, <1>7 DEF InsertView
  <2>2. Parent(d) = d.p
    BY DEF Parent
  <2>3. Flagged(U, E, o)
    BY <1>3, <2>1, <2>2, FlagStays
  <2>4. U[d.p].left = T[d.p].left /\ U[d.p].right = T[d.p].right /\ U[d.p].key = T[d.p].key
    BY <1>3, <1>7, <2>1, <2>2, KidsStayFlagged, MovesAt DEF NodeMoves
  <2>5. ~LiveKid(T, d.new)
    BY <2>1 DEF LiveKid
  <2>6. U[d.new].retired = 0
    BY <1>3, <2>1, <2>5, MovesAt DEF NodeMoves
  <2>7. ASSUME NEW n \in LiveInternal(U), d.new \in Kids(U, n) PROVE FALSE
    <3>1. n \in DOMAIN U /\ ~IsLeaf(U, n) /\ U[n].retired = 0
      BY DEF LiveInternal
    <3>2. n \in DOMAIN T
      BY <1>3, <2>7, <3>1 DEF Moves
    <3>3. n \in LiveInternal(T)
      <4>1. T[n].retired = 0
        <5>1. T[n].retired \in Nat
          BY <3>2, Typed DEF NodeType
        <5> QED BY <3>1, <3>2, <5>1, RetiredStays
      <4> QED BY <3>1, <3>2, <4>1, MovesAt DEF NodeMoves, LiveInternal
    <3>4. PICK q \in DOMAIN D : D[q].kind = "insert" /\ ~D[q].done /\ E[q].done /\ d.new = D[q].new
      BY <2>1, <2>5, <2>7, <3>2, <3>3, KidsNew
    <3>5. q = o
      BY <3>4 DEF Shared, NewNodesDiffer
    <3> QED BY <1>7, <3>4, <3>5
  <2> QED BY <2>1, <2>3, <2>4, <2>6, <2>7 DEF ChildFor
<1> HIDE DEF d
<1> QED BY <1>2, <1>4, <1>5, <1>6, <1>7 DEF InsertView

LEMMA DeleteKept ==
  ASSUME NEW T, NEW D, NEW U, NEW E, Shared(T, D), Moves(T, D, U, E),
         NEW o \in DOMAIN D, D[o].kind = "delete"
  PROVE  DeleteView(U, E, o)
<1> DEFINE d == D[o]
           e == E[o]
<1>1. DeleteView(T, D, o)
  BY DeleteFacts
<1>2. /\ e.kind = "delete" /\ e.gp = d.gp /\ e.p = d.p /\ e.l = d.l /\ e.key = d.key
      /\ e.pupdate = d.pupdate /\ (d.done => e.done)
  BY MovesAt DEF SameUpdate, InfoMoves
<1>3. /\ IsInternal(T, d.gp) /\ d.gp \in DOMAIN T /\ d.l \in DOMAIN T /\ IsLeaf(T, d.l)
      /\ IsInternal(T, d.p) /\ d.p \in DOMAIN T /\ d.pupdate.flag = "clean"
  BY <1>1 DEF DeleteView, IsInternal, Since
<1>4. IsInternal(U, d.gp) /\ d.l \in DOMAIN U /\ IsLeaf(U, d.l)
  BY <1>3, MovesStay, MovesAt DEF NodeMoves
<1>5. Since(U, d.p, d.pupdate) /\ WordMeans(U, E, d.pupdate)
  BY <1>1, SinceKept, WordKept DEF DeleteView
<1>6. ASSUME MayMark(U, E, o) PROVE MayMark(T, D, o) /\ ChildFor(U, d.p, d.key) = d.l
  <2>1. MayMark(T, D, o) /\ ChildFor(T, d.p, d.key) = d.l
    BY <1>1, <1>6, MayMarkBack DEF DeleteView
  <2>2. T[d.p].update.flag \notin {"iflag", "dflag"}
    BY <1>3, <2>1 DEF MayMark, Word
  <2>3. U[d.p].left = T[d.p].left /\ U[d.p].right = T[d.p].right /\ U[d.p].key = T[d.p].key
    BY <1>3, <2>2, KidsStay, MovesAt DEF NodeMoves
  <2> QED BY <2>1, <2>3 DEF ChildFor
<1>7. Parent(d) = d.gp /\ Old(d) = d.p
  BY DEF Parent, Old
<1>8. ASSUME e.done
      PROVE  /\ U[d.p].update = Word("mark", o) /\ U[d.p].retired > 0
             /\ d.p \notin Kids(U, d.gp)
  <2>1. T[d.p].update = Word("mark", o)
    <3>1. CASE d.done
      BY <1>1, <3>1 DEF DeleteView
    <3>2. CASE ~d.done
      BY <1>8, <3>2, MovesAt DEF InfoMoves
    <3> QED BY <3>1, <3>2
  <2>2. U[d.p].update = Word("mark", o)
    BY <1>3, <2>1, MarkStays DEF Word
  <2>3. CASE d.done
    BY <1>1, <1>3, <2>2, <2>3, RetiredStays, RetiredIsNoNewKid DEF DeleteView
  <2>4. CASE ~d.done
    BY <1>7, <1>8, <2>2, <2>4, MovesAt DEF InfoMoves
  <2> QED BY <2>3, <2>4
<1>9. ASSUME ~e.done
      PROVE  IF Flagged(U, E, o) THEN ChildFor(U, d.gp, d.key) = d.p
             ELSE ~MayMark(U, E, o)
  <2>1. ~d.done
    BY <1>2, <1>9
  <2>2. CASE Flagged(U, E, o)
    <3>1. Flagged(T, D, o)
      BY <1>3, <1>7, <2>2, FlagBack
    <3>2. ChildFor(T, d.gp, d.key) = d.p
      BY <1>1, <2>1, <3>1 DEF DeleteView
    <3>3. /\ U[d.gp].left = T[d.gp].left /\ U[d.gp].right = T[d.gp].right
          /\ U[d.gp].key = T[d.gp].key
      BY <1>3, <1>7, <1>9, <3>1, KidsStayFlagged, MovesAt DEF NodeMoves
    <3> QED BY <2>2, <3>2, <3>3 DEF ChildFor
  <2>3. CASE ~Flagged(U, E, o)
    <3>1. SUFFICES ASSUME MayMark(T, D, o) PROVE FALSE
      BY <1>6, <2>3
    <3>2. Flagged(T, D, o)
      BY <2>1, <3>1, MarkedIsFlagged
    <3> QED BY <1>3, <1>7, <2>1, <2>3, <3>1, <3>2, FlagStays
  <2> QED BY <2>2, <2>3
<1> HIDE DEF d
<1> QED BY <1>2, <1>3, <1>4, <1>5, <1>6, <1>8, <1>9 DEF DeleteView

(***************************************************************************)
(* A step that moves the tree like this leads to a shared state again when *)
(* the shape, the words and the new descriptor are right.                  *)
(***************************************************************************)
LEMMA MovesShared ==
  ASSUME NEW T, NEW D, NEW U, NEW E, Shared(T, D), Moves(T, D, U, E),
         Shape(U), Retirement(U), Len(E) <= Len(D) + 1,
         \A n \in DOMAIN U : WordMeans(U, E, U[n].update),
         \A o \in DOMAIN E \ DOMAIN D :
           /\ E[o].retired = IF Flagged(U, E, o) THEN 0 ELSE 1
           /\ IF E[o].kind = "insert" THEN InsertView(U, E, o) ELSE DeleteView(U, E, o)
           /\ E[o].kind = "insert" => E[o].new \notin DOMAIN T
  PROVE  Shared(U, E)
<1>1. RetiredUnflagged(U, E)
  BY RetiredKept DEF RetiredUnflagged
<1>2. Views(U, E)
  <2>1. ASSUME NEW o \in DOMAIN E
        PROVE  IF E[o].kind = "insert" THEN InsertView(U, E, o) ELSE DeleteView(U, E, o)
    <3>1. CASE o \in DOMAIN D
      <4>1. E[o].kind = D[o].kind
        BY <3>1, MovesAt DEF SameUpdate
      <4> QED BY <3>1, <4>1, InsertKept, DeleteKept, Kinds DEF Shape
    <3>2. CASE o \notin DOMAIN D
      BY <3>2
    <3> QED BY <3>1, <3>2
  <2> QED BY <2>1 DEF Views
<1>3. ASSUME NEW a \in DOMAIN E, NEW b \in DOMAIN E, E[a].kind = "insert",
             E[b].kind = "insert", E[a].new = E[b].new
      PROVE  a = b
  <2>1. \A o \in DOMAIN D : E[o].kind = D[o].kind /\ E[o].new = D[o].new
    BY MovesAt DEF SameUpdate
  <2>2. \A o \in DOMAIN D : D[o].kind = "insert" => D[o].new \in DOMAIN T
    BY InsertFacts DEF InsertView, IsInternal
  <2>3. CASE a \in DOMAIN D /\ b \in DOMAIN D
    BY <1>3, <2>1, <2>3 DEF Shared, NewNodesDiffer
  <2>4. CASE a \notin DOMAIN D /\ b \notin DOMAIN D
    BY <2>4, Typed, MovesStay
  <2>5. CASE (a \in DOMAIN D) # (b \in DOMAIN D)
    BY <1>3, <2>1, <2>2, <2>5
  <2> QED BY <2>3, <2>4, <2>5
<1>4. NewNodesDiffer(E)
  BY <1>3 DEF NewNodesDiffer
<1> QED BY <1>1, <1>2, <1>4 DEF Shared, Moves

\* A step that only changes words leaves the shape alone.
LEMMA ShapeOfWords ==
  ASSUME NEW T, NEW U, Shape(T), DOMAIN U = DOMAIN T,
         \A n \in DOMAIN T : /\ U[n].key = T[n].key /\ U[n].left = T[n].left
                             /\ U[n].right = T[n].right /\ U[n].retired = T[n].retired
  PROVE  Shape(U)
<1>1. /\ \A n \in DOMAIN T : Kids(U, n) = Kids(T, n) /\ IsLeaf(U, n) = IsLeaf(T, n)
      /\ LiveInternal(U) = LiveInternal(T)
  BY DEF Kids, IsLeaf, LiveInternal
<1>2. Binary(U)
  BY <1>1 DEF Shape, Binary
<1>3. LiveTree(U)
  <2>1. ASSUME NEW n \in LiveInternal(T)
        PROVE  /\ \A c \in Kids(U, n) : U[c].retired = 0
               /\ \A m \in LiveInternal(T) : m # n => Kids(U, m) \cap Kids(U, n) = {}
    <3>1. n \in DOMAIN T /\ ~IsLeaf(T, n)
      BY DEF LiveInternal
    <3>2. Kids(U, n) = Kids(T, n) /\ Kids(T, n) \subseteq DOMAIN T
      BY <1>1, <3>1 DEF Shape, Binary
    <3>3. \A m \in LiveInternal(T) : Kids(U, m) = Kids(T, m)
      BY <1>1 DEF LiveInternal
    <3> QED BY <3>2, <3>3 DEF Shape, LiveTree
  <2> QED BY <1>1, <2>1 DEF LiveTree
<1>4. MaxAtRight(U)
  <2>1. \A n \in DOMAIN T : ~IsLeaf(T, n) => T[n].right \in DOMAIN T /\ T[n].left \in DOMAIN T
    BY DEF Shape, Binary, Kids
  <2> QED BY <1>1, <2>1 DEF Shape, MaxAtRight
<1> QED BY <1>2, <1>3, <1>4 DEF Shape

\* A word is set at one node.
WithWord(T, p, w) == [T EXCEPT ![p].update = w]

LEMMA SetWord ==
  ASSUME NEW T \in Seq(NodeType), NEW p \in DOMAIN T, NEW w \in WordType,
         NEW U, U = WithWord(T, p, w)
  PROVE  /\ U \in Seq(NodeType) /\ DOMAIN U = DOMAIN T /\ Len(U) = Len(T)
         /\ U[p].update = w
         /\ \A n \in DOMAIN T :
              /\ U[n].key = T[n].key /\ U[n].left = T[n].left
              /\ U[n].right = T[n].right /\ U[n].retired = T[n].retired
              /\ IsLeaf(U, n) = IsLeaf(T, n)
              /\ n # p => U[n].update = T[n].update
<1>1. T[p] \in NodeType
  OBVIOUS
<1>2. /\ U[p] = [T[p] EXCEPT !.update = w]
      /\ \A n \in DOMAIN T : n # p => U[n] = T[n]
      /\ DOMAIN U = DOMAIN T /\ Len(U) = Len(T)
  BY DEF WithWord
<1>3. U[p] \in NodeType
  BY <1>1, <1>2 DEF NodeType
<1>4. U \in Seq(NodeType)
  BY <1>2, <1>3 DEF WithWord
<1>5. /\ U[p].key = T[p].key /\ U[p].left = T[p].left /\ U[p].right = T[p].right
      /\ U[p].retired = T[p].retired /\ U[p].update = w
  BY <1>1, <1>2 DEF NodeType
<1> QED BY <1>2, <1>4, <1>5 DEF IsLeaf

LEMMA RetirementOfWords ==
  ASSUME NEW T, NEW U, NEW p, Retirement(T), T[p].update.flag # "mark", DOMAIN U = DOMAIN T,
         \A n \in DOMAIN T :
           /\ U[n].retired = T[n].retired /\ IsLeaf(U, n) = IsLeaf(T, n)
           /\ n # p => U[n].update = T[n].update
  PROVE  Retirement(U)
  BY DEF Retirement

(***************************************************************************)
(* The five writes.  First the marking of a deletion's parent.             *)
(***************************************************************************)
MarkWrite(T, D, U, E, o) ==
  /\ o \in DOMAIN D /\ D[o].kind = "delete" /\ T[D[o].p].update = D[o].pupdate
  /\ U = WithWord(T, D[o].p, Word("mark", o)) /\ E = D

LEMMA MarkMoves ==
  ASSUME NEW T, NEW D, NEW U, NEW E, NEW o, Shared(T, D), MarkWrite(T, D, U, E, o)
  PROVE  Moves(T, D, U, E) /\ Shared(U, E)
<1> DEFINE p == D[o].p
<1>1. /\ p \in DOMAIN T /\ T[p].update.flag = "clean" /\ T[p].update = D[o].pupdate
      /\ o \in Nat
  BY DeleteFacts, Typed DEF MarkWrite, DeleteView, Since, IsInternal
<1>2. Word("mark", o) \in WordType
  BY <1>1 DEF Word, WordType
<1>3. T \in Seq(NodeType) /\ U = WithWord(T, p, Word("mark", o)) /\ E = D
  BY DEF MarkWrite, Shared
<1> HIDE DEF p
<1>4. /\ U \in Seq(NodeType) /\ DOMAIN U = DOMAIN T /\ Len(U) = Len(T)
      /\ U[p].update = Word("mark", o)
      /\ \A n \in DOMAIN T :
           /\ U[n].key = T[n].key /\ U[n].left = T[n].left
           /\ U[n].right = T[n].right /\ U[n].retired = T[n].retired
           /\ IsLeaf(U, n) = IsLeaf(T, n)
           /\ n # p => U[n].update = T[n].update
  BY <1>1, <1>2, <1>3, SetWord
<1>5. \A n \in DOMAIN T : NodeMoves(T, D, U, E, n)
  <2>1. \A n \in DOMAIN T : WordMoves(T, D, U, n)
    BY <1>1, <1>4 DEF WordMoves, Word, MarkWrite, p
  <2> QED BY <1>4, <2>1 DEF NodeMoves, KidsMove
<1>6. \A q \in DOMAIN D : Flagged(T, D, q) => Flagged(U, E, q)
  <2>1. \A q \in DOMAIN D : Flagged(T, D, q) => Parent(D[q]) # p
    BY <1>1 DEF Flagged, Word, FlagOf
  <2> QED BY <1>3, <1>4, <2>1, ParentIsNode DEF Flagged
<1>7. Moves(T, D, U, E)
  <2>1. \A q \in DOMAIN D : InfoMoves(T, D, U, E, q)
    BY <1>3, <1>6 DEF InfoMoves, SameUpdate
  <2>2. E \in Seq(InfoType)
    BY <1>3 DEF Shared
  <2>3. Len(T) <= Len(U) /\ Len(D) <= Len(E)
    BY <1>3, <1>4, Typed
  <2> QED BY <1>4, <1>5, <2>1, <2>2, <2>3 DEF Moves
<1>8. Shape(U)
  BY <1>4, ShapeOfWords DEF Shared
<1>9. Retirement(U)
  BY <1>1, <1>4, RetirementOfWords DEF Shared
<1>10. ASSUME NEW n \in DOMAIN U PROVE WordMeans(U, E, U[n].update)
  <2>1. CASE n = p
    BY <1>1, <1>2, <1>3, <1>4, <2>1, Typed DEF WordMeans, Word, MarkWrite, p
  <2>2. CASE n # p
    BY <1>4, <1>7, <2>2, WordFacts, WordKept
  <2> QED BY <2>1, <2>2
<1>11. Len(E) <= Len(D) + 1 /\ DOMAIN E \ DOMAIN D = {}
  BY <1>3, Typed
<1> QED BY <1>7, <1>8, <1>9, <1>10, <1>11, MovesShared

(***************************************************************************)
(* The cleaning of a flagged word, by one whose update is done or lost.    *)
(***************************************************************************)
WithRetired(D, o) == [D EXCEPT ![o].retired = @ + 1]

CleanWrite(T, D, U, E, o) ==
  /\ o \in DOMAIN D /\ Flagged(T, D, o)
  /\ D[o].done \/ (D[o].kind = "delete" /\ ~MayMark(T, D, o))
  /\ U = WithWord(T, Parent(D[o]), Clean(o)) /\ E = WithRetired(D, o)

LEMMA SetRetired ==
  ASSUME NEW D \in Seq(InfoType), NEW o \in DOMAIN D, NEW E, E = WithRetired(D, o)
  PROVE  /\ E \in Seq(InfoType) /\ DOMAIN E = DOMAIN D /\ Len(E) = Len(D)
         /\ E[o].retired = D[o].retired + 1
         /\ \A q \in DOMAIN D : /\ SameUpdate(D[q], E[q]) /\ E[q].done = D[q].done
                                /\ q # o => E[q].retired = D[q].retired
<1>1. D[o] \in InfoType
  OBVIOUS
<1>2. /\ E[o] = [D[o] EXCEPT !.retired = @ + 1]
      /\ \A q \in DOMAIN D : q # o => E[q] = D[q]
      /\ DOMAIN E = DOMAIN D /\ Len(E) = Len(D)
  BY DEF WithRetired
<1>3. E[o] \in InfoType
  <2>1. D[o].retired + 1 \in Nat
    BY <1>1, SMTT(30) DEF InfoType
  <2> DEFINE r == D[o].retired + 1
  <2>2. E[o] = [D[o] EXCEPT !.retired = r] /\ r \in Nat
    BY <1>2, <2>1
  <2> HIDE DEF r
  <2> QED BY <1>1, <2>2 DEF InfoType
<1>4. E \in Seq(InfoType)
  BY <1>2, <1>3 DEF WithRetired
<1>5. /\ SameUpdate(D[o], E[o]) /\ E[o].done = D[o].done
      /\ E[o].retired = D[o].retired + 1
  BY <1>1, <1>2 DEF InfoType, SameUpdate
<1> QED BY <1>2, <1>4, <1>5 DEF SameUpdate

LEMMA CleanMoves ==
  ASSUME NEW T, NEW D, NEW U, NEW E, NEW o, Shared(T, D), CleanWrite(T, D, U, E, o)
  PROVE  Moves(T, D, U, E) /\ Shared(U, E)
<1> DEFINE p == Parent(D[o])
<1>1. /\ o \in DOMAIN D /\ o \in Nat /\ p \in DOMAIN T /\ T[p].update = Word(FlagOf(D[o]), o)
      /\ D[o].done \/ (D[o].kind = "delete" /\ ~MayMark(T, D, o))
  BY ParentIsNode, Typed DEF CleanWrite, Flagged
<1>2. Clean(o) \in WordType /\ FlagOf(D[o]) \in {"iflag", "dflag"}
  BY <1>1 DEF Clean, Word, WordType, FlagOf
<1>3. /\ T \in Seq(NodeType) /\ U = WithWord(T, p, Clean(o))
      /\ D \in Seq(InfoType) /\ E = WithRetired(D, o)
  BY DEF CleanWrite, Shared
<1> HIDE DEF p
<1>4. /\ U \in Seq(NodeType) /\ DOMAIN U = DOMAIN T /\ Len(U) = Len(T)
      /\ U[p].update = Clean(o)
      /\ \A n \in DOMAIN T :
           /\ U[n].key = T[n].key /\ U[n].left = T[n].left
           /\ U[n].right = T[n].right /\ U[n].retired = T[n].retired
           /\ IsLeaf(U, n) = IsLeaf(T, n)
           /\ n # p => U[n].update = T[n].update
  BY <1>1, <1>2, <1>3, SetWord
<1>5. /\ E \in Seq(InfoType) /\ DOMAIN E = DOMAIN D /\ Len(E) = Len(D)
      /\ E[o].retired = D[o].retired + 1
      /\ \A q \in DOMAIN D : /\ SameUpdate(D[q], E[q]) /\ E[q].done = D[q].done
                             /\ q # o => E[q].retired = D[q].retired
  BY <1>1, <1>3, SetRetired
<1>6. \A n \in DOMAIN T : NodeMoves(T, D, U, E, n)
  <2>1. WordMoves(T, D, U, p)
    <3>1. T[p].update.flag \in {"iflag", "dflag"} /\ T[p].update.op = o
      BY <1>1, <1>2 DEF Word
    <3> QED BY <1>1, <1>4, <3>1 DEF WordMoves
  <2>2. \A n \in DOMAIN T : WordMoves(T, D, U, n)
    BY <1>4, <2>1 DEF WordMoves
  <2> QED BY <1>4, <2>2 DEF NodeMoves, KidsMove
<1>7. ASSUME NEW q \in DOMAIN D PROVE InfoMoves(T, D, U, E, q)
  <2>1. Parent(E[q]) = Parent(D[q]) /\ FlagOf(E[q]) = FlagOf(D[q])
    BY <1>5 DEF SameUpdate, Parent, FlagOf
  <2>2. CASE q = o
    <3>1. ~Flagged(U, E, q)
      BY <1>2, <1>4, <2>1, <2>2 DEF Flagged, Word, Clean, p
    <3> QED BY <1>5, <2>2, <3>1 DEF InfoMoves, CleanWrite
  <2>3. CASE q # o
    <3>1. Flagged(T, D, q) => Flagged(U, E, q)
      <4>1. Flagged(T, D, q) => Parent(D[q]) # p
        BY <1>1, <2>3 DEF Flagged, Word
      <4> QED BY <1>4, <2>1, <4>1, ParentIsNode DEF Flagged
    <3> QED BY <1>5, <2>3, <3>1 DEF InfoMoves
  <2> QED BY <2>2, <2>3
<1>8. Moves(T, D, U, E)
  <2>1. Len(T) <= Len(U) /\ Len(D) <= Len(E)
    BY <1>4, <1>5, Typed
  <2> QED BY <1>4, <1>5, <1>6, <1>7, <2>1 DEF Moves
<1>9. Shape(U)
  BY <1>4, ShapeOfWords DEF Shared
<1>10. Retirement(U)
  <2>1. T[p].update.flag # "mark"
    BY <1>1, <1>2 DEF Word
  <2>2. Retirement(T)
    BY DEF Shared
  <2> QED BY <1>4, <2>1, <2>2, RetirementOfWords, ZenonT(40)
<1>11. ASSUME NEW n \in DOMAIN U PROVE WordMeans(U, E, U[n].update)
  <2>1. CASE n = p
    <3>1. o \in 0..Len(E)
      BY <1>1, <1>5, Typed
    <3> QED BY <1>2, <1>4, <2>1, <3>1 DEF WordMeans, Word, Clean
  <2>2. CASE n # p
    BY <1>4, <1>8, <2>2, WordFacts, WordKept
  <2> QED BY <2>1, <2>2
<1>12. Len(E) <= Len(D) + 1 /\ DOMAIN E \ DOMAIN D = {}
  BY <1>5, Typed
<1> QED BY <1>8, <1>9, <1>10, <1>11, <1>12, MovesShared

(***************************************************************************)
(* The flagging of the grandparent by a deletion.                          *)
(***************************************************************************)
FlagDeleteWrite(T, D, U, E, gp, gw, p, w, l, k) ==
  /\ gw.flag = "clean" /\ T[gp].update = gw /\ ReadUnder(T, gp, gw, k, p)
  /\ w.flag = "clean" /\ ReadUnder(T, p, w, k, l) /\ WordMeans(T, D, w)
  /\ l \in DOMAIN T /\ IsLeaf(T, l) /\ k \in AllKeys
  /\ U = WithWord(T, gp, Word("dflag", Len(D) + 1))
  /\ E = Append(D, DeleteInfo(gp, p, l, w, k))

LEMMA Appended ==
  ASSUME NEW D \in Seq(InfoType), NEW d \in InfoType, NEW E, E = Append(D, d)
  PROVE  /\ E \in Seq(InfoType) /\ Len(E) = Len(D) + 1 /\ E[Len(D) + 1] = d
         /\ DOMAIN E \ DOMAIN D = {Len(D) + 1} /\ DOMAIN D \subseteq DOMAIN E
         /\ \A q \in DOMAIN D : E[q] = D[q]
  OBVIOUS

LEMMA FlagDeleteMoves ==
  ASSUME NEW T, NEW D, NEW U, NEW E, NEW gp, NEW gw, NEW p, NEW w, NEW l, NEW k,
         Shared(T, D), FlagDeleteWrite(T, D, U, E, gp, gw, p, w, l, k)
  PROVE  Moves(T, D, U, E) /\ Shared(U, E)
<1> DEFINE o == Len(D) + 1
           d == DeleteInfo(gp, p, l, w, k)
<1>1. /\ gp \in DOMAIN T /\ p \in DOMAIN T /\ l \in DOMAIN T
      /\ gp \in Nat /\ p \in Nat /\ l \in Nat /\ w \in WordType /\ k \in AllKeys
      /\ T[gp].update.flag = "clean"
  BY Typed DEF FlagDeleteWrite, ReadUnder, Since, IsInternal, WordMeans
<1>2. o \in Nat /\ o # 0 /\ Word("dflag", o) \in WordType
  BY Typed DEF Word, WordType
<1>3. d \in InfoType
  BY <1>1 DEF InfoType, DeleteInfo
<1>4. /\ T \in Seq(NodeType) /\ U = WithWord(T, gp, Word("dflag", o))
      /\ D \in Seq(InfoType) /\ E = Append(D, d)
  BY DEF FlagDeleteWrite, Shared
<1>5. /\ d.kind = "delete" /\ d.gp = gp /\ d.p = p /\ d.l = l /\ d.pupdate = w /\ d.key = k
      /\ d.done = FALSE /\ d.retired = 0
  BY DEF DeleteInfo
<1> HIDE DEF o, d
<1>6. /\ U \in Seq(NodeType) /\ DOMAIN U = DOMAIN T /\ Len(U) = Len(T)
      /\ U[gp].update = Word("dflag", o)
      /\ \A n \in DOMAIN T :
           /\ U[n].key = T[n].key /\ U[n].left = T[n].left
           /\ U[n].right = T[n].right /\ U[n].retired = T[n].retired
           /\ IsLeaf(U, n) = IsLeaf(T, n)
           /\ n # gp => U[n].update = T[n].update
  <2>1. gp \in DOMAIN T /\ Word("dflag", o) \in WordType
    BY <1>1, <1>2
  <2>2. T \in Seq(NodeType) /\ U = WithWord(T, gp, Word("dflag", o))
    BY <1>4
  <2> QED BY ONLY <2>1, <2>2, SetWord
<1>7. /\ E \in Seq(InfoType) /\ Len(E) = Len(D) + 1 /\ E[o] = d
      /\ DOMAIN E \ DOMAIN D = {o} /\ DOMAIN D \subseteq DOMAIN E
      /\ \A q \in DOMAIN D : E[q] = D[q]
  BY <1>3, <1>4, Appended DEF o
<1>8. \A n \in DOMAIN T : NodeMoves(T, D, U, E, n)
  <2>1. WordMoves(T, D, U, gp)
    BY <1>1, <1>6 DEF WordMoves, Word, o
  <2>2. \A n \in DOMAIN T : WordMoves(T, D, U, n)
    BY <1>6, <2>1 DEF WordMoves
  <2> QED BY <1>6, <2>2 DEF NodeMoves, KidsMove
<1>9. ASSUME NEW q \in DOMAIN D PROVE InfoMoves(T, D, U, E, q)
  <2>1. Flagged(T, D, q) => Flagged(U, E, q)
    <3>1. Flagged(T, D, q) => Parent(D[q]) # gp
      BY <1>1 DEF Flagged, Word, FlagOf
    <3> QED BY <1>6, <1>7, <3>1, ParentIsNode DEF Flagged
  <2> QED BY <1>7, <2>1 DEF InfoMoves, SameUpdate
<1>10. Moves(T, D, U, E)
  <2>1. Len(T) <= Len(U) /\ Len(D) <= Len(E)
    BY <1>6, <1>7, Typed
  <2> QED BY <1>6, <1>7, <1>8, <1>9, <2>1 DEF Moves
<1>11. Shape(U)
  BY <1>6, ShapeOfWords DEF Shared
<1>12. Retirement(U)
  BY <1>1, <1>6, RetirementOfWords DEF Shared
<1>13. ASSUME NEW n \in DOMAIN U PROVE WordMeans(U, E, U[n].update)
  <2>1. CASE n = gp
    <3>1. o \in 0..Len(E)
      BY <1>2, <1>7, Typed DEF o
    <3> QED BY <1>2, <1>5, <1>6, <1>7, <2>1, <3>1 DEF WordMeans, Word
  <2>2. CASE n # gp
    BY <1>6, <1>10, <2>2, WordFacts, WordKept
  <2> QED BY <2>1, <2>2
<1>14. Flagged(U, E, o)
  BY <1>5, <1>6, <1>7 DEF Flagged, Parent, FlagOf
<1>15. DeleteView(U, E, o)
  <2>1. IsInternal(U, gp) /\ l \in DOMAIN U /\ IsLeaf(U, l)
    BY <1>1, <1>6 DEF FlagDeleteWrite, ReadUnder, Since, IsInternal
  <2>2. /\ w.flag = "clean" /\ WordMeans(U, E, w)
        /\ Since(U, p, w) /\ (U[p].update = w => T[p].update = w)
    BY <1>10, SinceKept, WordKept DEF FlagDeleteWrite, ReadUnder
  <2>3. ASSUME U[p].update \in {w, Word("mark", o)} PROVE ChildFor(U, p, k) = l
    <3>1. U[p].update # Word("mark", o)
      <4>1. T[p].update.op # o
        BY <1>1, WordFacts, Typed DEF WordMeans, o
      <4> QED BY <1>6, <1>1, <4>1 DEF Word
    <3>2. T[p].update = w
      BY <2>2, <2>3, <3>1
    <3> QED BY <1>1, <1>6, <3>2 DEF FlagDeleteWrite, ReadUnder, ChildFor
  <2>4. ChildFor(U, gp, k) = p
    BY <1>1, <1>6 DEF FlagDeleteWrite, ReadUnder, ChildFor
  <2> QED BY <1>5, <1>7, <1>14, <2>1, <2>2, <2>3, <2>4 DEF DeleteView, MayMark
<1>16. ASSUME NEW q \in DOMAIN E \ DOMAIN D
       PROVE  /\ E[q].retired = IF Flagged(U, E, q) THEN 0 ELSE 1
              /\ IF E[q].kind = "insert" THEN InsertView(U, E, q) ELSE DeleteView(U, E, q)
              /\ E[q].kind = "insert" => E[q].new \notin DOMAIN T
  BY <1>5, <1>7, <1>14, <1>15
<1>17. Len(E) <= Len(D) + 1
  BY <1>7, Typed
<1> QED BY <1>10, <1>11, <1>12, <1>13, <1>16, <1>17, MovesShared

(***************************************************************************)
(* The flagging of the parent by an insertion, with the three new nodes.   *)
(***************************************************************************)
LEMMA NewNodesAre ==
  ASSUME NEW T, NEW D, Shared(T, D), NEW l \in DOMAIN T, NEW k \in AllKeys,
         NEW N, N = NewNodes(T, l, k)
  PROVE  /\ N \in Seq(NodeType) /\ Len(N) = 3
         /\ \A i \in {1, 2} : N[i].left = 0 /\ N[i].right = 0
         /\ \A i \in 1..3 : N[i].update = Clean(0) /\ N[i].retired = 0
         /\ \/ N[3].left = Len(T) + 1 /\ N[3].right = Len(T) + 2
            \/ N[3].left = Len(T) + 2 /\ N[3].right = Len(T) + 1 /\ N[3].key # KeyMax
         /\ N[2].key = T[l].key
         /\ T[l].key = KeyMax <=> N[3].key = KeyMax
<1> DEFINE a == Len(T) + 1
           b == Len(T) + 2
           lk == T[l].key
<1>1. a \in Nat /\ b \in Nat
  BY Typed
<1>2. lk \in 1..KeyMax
  BY Typed DEF NodeType
<1>3. KeyMax \in Nat /\ k \in 1..KeyMax /\ k < KeyMax
  BY EllenTreeAssumption DEF AllKeys
<1>4. Clean(0) \in WordType
  BY DEF Clean, Word, WordType
<1>5. N = <<Leaf(k), Leaf(lk), IF k < lk THEN Node(lk, a, b) ELSE Node(k, b, a)>>
  BY DEF NewNodes
<1> HIDE DEF a, b, lk
<1>6. /\ Leaf(k) \in NodeType /\ Leaf(lk) \in NodeType
      /\ Node(lk, a, b) \in NodeType /\ Node(k, b, a) \in NodeType
  BY <1>1, <1>2, <1>3, <1>4 DEF Leaf, Node, NodeType
<1>7. /\ Len(N) = 3 /\ N[1] = Leaf(k) /\ N[2] = Leaf(lk)
      /\ N[3] = IF k < lk THEN Node(lk, a, b) ELSE Node(k, b, a)
  BY <1>5
<1>8. N \in Seq(NodeType)
  <2>1. (IF k < lk THEN Node(lk, a, b) ELSE Node(k, b, a)) \in NodeType
    BY <1>6
  <2> HIDE DEF Leaf, Node
  <2> QED BY <1>5, <1>6, <2>1
<1>9. \A i \in 1..3 : i = 1 \/ i = 2 \/ i = 3
  OBVIOUS
<1>10. /\ \A i \in {1, 2} : N[i].left = 0 /\ N[i].right = 0
       /\ \A i \in 1..3 : N[i].update = Clean(0) /\ N[i].retired = 0
  BY <1>7, <1>9 DEF Leaf, Node
<1>11. /\ \/ N[3].left = a /\ N[3].right = b
          \/ N[3].left = b /\ N[3].right = a /\ N[3].key # KeyMax
       /\ lk = KeyMax <=> N[3].key = KeyMax
  BY <1>2, <1>3, <1>7 DEF Node
<1>12. N[2].key = lk
  BY <1>7 DEF Leaf, Node
<1> QED BY <1>7, <1>8, <1>10, <1>11, <1>12 DEF a, b, lk

Join(s, t) == s \o t

LEMMA Joined ==
  ASSUME NEW V, NEW N, V \in Seq(NodeType), N \in Seq(NodeType), Len(N) = 3, NEW U, U = Join(V, N)
  PROVE  /\ U \in Seq(NodeType) /\ Len(U) = Len(V) + 3
         /\ \A n \in DOMAIN V : U[n] = V[n]
         /\ U[Len(V) + 1] = N[1] /\ U[Len(V) + 2] = N[2] /\ U[Len(V) + 3] = N[3]
<1>1. /\ U \in Seq(NodeType) /\ Len(U) = Len(V) + Len(N)
      /\ \A i \in 1..Len(V) + Len(N) : U[i] = IF i <= Len(V) THEN V[i] ELSE N[i - Len(V)]
  BY ConcatProperties DEF Join
<1>2. Len(V) \in Nat /\ DOMAIN V = 1..Len(V)
  OBVIOUS
<1> DEFINE m == Len(V)
<1>3. \A i \in 1..m + 3 : U[i] = IF i <= m THEN V[i] ELSE N[i - m]
  BY <1>1
<1> HIDE DEF m
<1>4. m \in Nat
  BY <1>2 DEF m
<1>5. \A n \in 1..m : n \in 1..m + 3 /\ n <= m
  BY <1>4
<1>7. \A n \in 1..m : U[n] = V[n]
  BY <1>3, <1>5
<1>8. ASSUME NEW j \in 1..3, NEW i, i = m + j PROVE U[i] = N[j]
  <2>1. i \in 1..m + 3 /\ ~(i <= m) /\ i - m = j
    BY <1>4, <1>8
  <2> QED BY <1>3, <2>1
<1>9. U[m + 1] = N[1] /\ U[m + 2] = N[2] /\ U[m + 3] = N[3]
  BY <1>8
<1> QED BY <1>1, <1>2, <1>7, <1>9 DEF m

FlagInsertWrite(T, D, U, E, p, w, l, k) ==
  /\ w.flag = "clean" /\ T[p].update = w /\ ReadUnder(T, p, w, k, l)
  /\ l \in DOMAIN T /\ IsLeaf(T, l) /\ k \in AllKeys
  /\ U = WithWord(T, p, Word("iflag", Len(D) + 1)) \o NewNodes(T, l, k)
  /\ E = Append(D, InsertInfo(p, l, Len(T) + 3, k))

\* The tree after it: the old nodes, and a new internal node with two leaves.
Planted(T, U, p, w, l) ==
  LET a == Len(T) + 1
      b == Len(T) + 2
      c == Len(T) + 3
  IN /\ U \in Seq(NodeType) /\ Len(U) = Len(T) + 3
     /\ DOMAIN U = DOMAIN T \cup {a, b, c} /\ {a, b, c} \cap DOMAIN T = {}
     /\ a # b /\ a # c /\ b # c
     /\ U[p].update = w
     /\ \A n \in DOMAIN T :
          /\ U[n].key = T[n].key /\ U[n].left = T[n].left
          /\ U[n].right = T[n].right /\ U[n].retired = T[n].retired
          /\ IsLeaf(U, n) = IsLeaf(T, n)
          /\ n # p => U[n].update = T[n].update
     /\ U[a].left = 0 /\ U[a].right = 0 /\ U[b].left = 0 /\ U[b].right = 0
     /\ U[c].left # 0
     /\ \A n \in {a, b, c} : U[n].update = Clean(0) /\ U[n].retired = 0
     /\ \/ U[c].left = a /\ U[c].right = b
        \/ U[c].left = b /\ U[c].right = a /\ U[c].key # KeyMax
     /\ U[b].key = T[l].key
     /\ T[l].key = KeyMax <=> U[c].key = KeyMax

LEMMA InsertPlants ==
  ASSUME NEW T, NEW D, Shared(T, D), NEW p \in DOMAIN T, NEW w \in WordType,
         NEW l \in DOMAIN T, NEW k \in AllKeys,
         NEW U, U = WithWord(T, p, w) \o NewNodes(T, l, k)
  PROVE  Planted(T, U, p, w, l)
<1> DEFINE V == WithWord(T, p, w)
           N == NewNodes(T, l, k)
           a == Len(T) + 1
           b == Len(T) + 2
           c == Len(T) + 3
<1>1. T \in Seq(NodeType) /\ Len(T) \in Nat /\ DOMAIN T = 1..Len(T)
  BY Typed DEF Shared
<1> HIDE DEF V, N
<1>2. /\ V \in Seq(NodeType) /\ DOMAIN V = DOMAIN T /\ Len(V) = Len(T)
      /\ V[p].update = w
      /\ \A n \in DOMAIN T :
           /\ V[n].key = T[n].key /\ V[n].left = T[n].left
           /\ V[n].right = T[n].right /\ V[n].retired = T[n].retired
           /\ IsLeaf(V, n) = IsLeaf(T, n)
           /\ n # p => V[n].update = T[n].update
  <2>1. V = WithWord(T, p, w) /\ T \in Seq(NodeType)
    BY <1>1 DEF V
  <2> QED BY <2>1, SetWord, SMTT(30)
<1>3. /\ N \in Seq(NodeType) /\ Len(N) = 3
      /\ \A i \in {1, 2} : N[i].left = 0 /\ N[i].right = 0
      /\ \A i \in 1..3 : N[i].update = Clean(0) /\ N[i].retired = 0
      /\ \/ N[3].left = a /\ N[3].right = b
         \/ N[3].left = b /\ N[3].right = a /\ N[3].key # KeyMax
      /\ N[2].key = T[l].key
      /\ T[l].key = KeyMax <=> N[3].key = KeyMax
  BY NewNodesAre DEF N
<1>4. /\ U \in Seq(NodeType) /\ Len(U) = Len(T) + 3
      /\ \A n \in DOMAIN T : U[n] = V[n]
      /\ U[a] = N[1] /\ U[b] = N[2] /\ U[c] = N[3]
  <2>1. U = Join(V, N)
    BY DEF V, N, Join
  <2>2. Len(V) = Len(T) /\ DOMAIN V = DOMAIN T
    BY <1>2
  <2>3. V \in Seq(NodeType) /\ N \in Seq(NodeType) /\ Len(N) = 3
    BY <1>2, <1>3
  <2>4. /\ U \in Seq(NodeType) /\ Len(U) = Len(V) + 3
        /\ \A n \in DOMAIN V : U[n] = V[n]
        /\ U[Len(V) + 1] = N[1] /\ U[Len(V) + 2] = N[2] /\ U[Len(V) + 3] = N[3]
    BY ONLY <2>1, <2>3, Joined
  <2> QED BY ONLY <2>2, <2>4
<1>5. /\ DOMAIN U = DOMAIN T \cup {a, b, c} /\ {a, b, c} \cap DOMAIN T = {}
      /\ a # b /\ a # c /\ b # c /\ a # 0 /\ b # 0
  <2>1. DOMAIN U = 1..Len(T) + 3
    BY <1>4
  <2> DEFINE m == Len(T)
  <2>2. m \in Nat /\ DOMAIN U = 1..m + 3 /\ DOMAIN T = 1..m
    BY <1>1, <2>1
  <2> HIDE DEF m
  <2>3. \A n \in 1..m + 3 : n \in 1..m \/ n = m + 1 \/ n = m + 2 \/ n = m + 3
    BY <2>2
  <2>4. /\ 1..m \subseteq 1..m + 3
        /\ m + 1 \in 1..m + 3 /\ m + 2 \in 1..m + 3 /\ m + 3 \in 1..m + 3
    BY <2>2
  <2>5. /\ m + 1 \notin 1..m /\ m + 2 \notin 1..m /\ m + 3 \notin 1..m
        /\ m + 1 # m + 2 /\ m + 1 # m + 3 /\ m + 2 # m + 3 /\ m + 1 # 0 /\ m + 2 # 0
    BY <2>2
  <2>6. DOMAIN U = DOMAIN T \cup {m + 1, m + 2, m + 3}
    BY <2>2, <2>3, <2>4
  <2> QED BY <2>2, <2>5, <2>6 DEF m
<1>6. \A n \in DOMAIN T :
        /\ U[n].key = T[n].key /\ U[n].left = T[n].left
        /\ U[n].right = T[n].right /\ U[n].retired = T[n].retired
        /\ IsLeaf(U, n) = IsLeaf(T, n)
        /\ n # p => U[n].update = T[n].update
  <2>1. ASSUME NEW n \in DOMAIN T
        PROVE  /\ U[n].key = T[n].key /\ U[n].left = T[n].left
               /\ U[n].right = T[n].right /\ U[n].retired = T[n].retired
               /\ n # p => U[n].update = T[n].update
    <3>1. U[n] = V[n]
      BY <1>4
    <3> QED BY ONLY <1>2, <2>1, <3>1
  <2>2. ASSUME NEW n \in DOMAIN T PROVE IsLeaf(U, n) = IsLeaf(T, n)
    <3>1. U[n].left = T[n].left
      BY <2>1
    <3> QED BY ONLY <3>1 DEF IsLeaf
  <2> QED BY ONLY <2>1, <2>2
<1>7. U[p].update = w
  BY <1>2, <1>4
<1>8. /\ U[a].left = 0 /\ U[a].right = 0 /\ U[b].left = 0 /\ U[b].right = 0
      /\ \A n \in {a, b, c} : U[n].update = Clean(0) /\ U[n].retired = 0
      /\ \/ U[c].left = a /\ U[c].right = b
         \/ U[c].left = b /\ U[c].right = a /\ U[c].key # KeyMax
      /\ U[b].key = T[l].key
      /\ T[l].key = KeyMax <=> U[c].key = KeyMax
  <2>1. 1 \in 1..3 /\ 2 \in 1..3 /\ 3 \in 1..3
    OBVIOUS
  <2> HIDE DEF a, b, c
  <2>2. U[a].left = 0 /\ U[a].right = 0 /\ U[b].left = 0 /\ U[b].right = 0
    BY <1>3, <1>4
  <2>4. /\ U[a].update = Clean(0) /\ U[a].retired = 0
        /\ U[b].update = Clean(0) /\ U[b].retired = 0
        /\ U[c].update = Clean(0) /\ U[c].retired = 0
    BY <1>3, <1>4, <2>1
  <2>3. /\ \/ U[c].left = a /\ U[c].right = b
           \/ U[c].left = b /\ U[c].right = a /\ U[c].key # KeyMax
        /\ U[b].key = T[l].key
        /\ T[l].key = KeyMax <=> U[c].key = KeyMax
    BY <1>3, <1>4
  <2> QED BY <2>2, <2>3, <2>4
<1>9. U[c].left # 0
  BY <1>5, <1>8
<1> QED BY <1>4, <1>5, <1>6, <1>7, <1>8, <1>9 DEF Planted

LEMMA PlantedShape ==
  ASSUME NEW T, NEW D, NEW U, NEW p \in DOMAIN T, NEW w, NEW l \in DOMAIN T,
         Shared(T, D), Planted(T, U, p, w, l)
  PROVE  /\ Shape(U)
         /\ LiveInternal(U) = LiveInternal(T) \cup {Len(T) + 3}
         /\ Kids(U, Len(T) + 3) = {Len(T) + 1, Len(T) + 2}
         /\ \A n \in DOMAIN T : Kids(U, n) = Kids(T, n)
<1> DEFINE a == Len(T) + 1
           b == Len(T) + 2
           c == Len(T) + 3
<1>1. /\ DOMAIN U = DOMAIN T \cup {a, b, c} /\ {a, b, c} \cap DOMAIN T = {}
      /\ a # b /\ a # c /\ b # c
      /\ \A n \in DOMAIN T :
           /\ U[n].key = T[n].key /\ U[n].left = T[n].left
           /\ U[n].right = T[n].right /\ U[n].retired = T[n].retired
           /\ IsLeaf(U, n) = IsLeaf(T, n)
      /\ U[a].left = 0 /\ U[a].right = 0 /\ U[b].left = 0 /\ U[b].right = 0
      /\ U[c].left # 0
      /\ \A n \in {a, b, c} : U[n].retired = 0
      /\ \/ U[c].left = a /\ U[c].right = b
         \/ U[c].left = b /\ U[c].right = a /\ U[c].key # KeyMax
      /\ U[b].key = T[l].key
      /\ T[l].key = KeyMax <=> U[c].key = KeyMax
  BY DEF Planted
<1>2. a \in Nat /\ b \in Nat /\ c \in Nat
  BY Typed
<1> HIDE DEF a, b, c
<1>3. IsLeaf(U, a) /\ IsLeaf(U, b) /\ ~IsLeaf(U, c)
  BY <1>1 DEF IsLeaf
<1>4. Kids(U, c) = {a, b} /\ U[c].left # U[c].right
  BY <1>1 DEF Kids
<1>5. \A n \in DOMAIN T : Kids(U, n) = Kids(T, n)
  BY <1>1 DEF Kids
<1>6. LiveInternal(U) = LiveInternal(T) \cup {c}
  BY <1>1, <1>3 DEF LiveInternal
<1>7. Binary(U)
  <2>1. ASSUME NEW n \in DOMAIN U
        PROVE  IF IsLeaf(U, n) THEN U[n].right = 0
               ELSE Kids(U, n) \subseteq DOMAIN U /\ U[n].left # U[n].right
    <3>1. CASE n \in DOMAIN T
      BY <1>1, <1>5, <3>1 DEF Shared, Shape, Binary
    <3>2. CASE n = a \/ n = b
      BY <1>1, <1>3, <3>2
    <3>3. CASE n = c
      BY <1>1, <1>3, <1>4, <3>3
    <3> QED BY <1>1, <3>1, <3>2, <3>3
  <2> QED BY <2>1 DEF Binary
<1>8. \A n \in LiveInternal(T) : Kids(T, n) \subseteq DOMAIN T /\ n \in DOMAIN T
  BY DEF Shared, Shape, Binary, LiveInternal
<1>9. LiveTree(U)
  <2>1. ASSUME NEW n \in LiveInternal(U)
        PROVE  /\ \A k \in Kids(U, n) : U[k].retired = 0
               /\ \A m \in LiveInternal(U) : m # n => Kids(U, m) \cap Kids(U, n) = {}
    <3>1. CASE n \in LiveInternal(T)
      <4>1. \A k \in Kids(U, n) : U[k].retired = 0
        BY <1>1, <1>5, <1>8, <3>1 DEF Shared, Shape, LiveTree
      <4>2. ASSUME NEW m \in LiveInternal(T), m # n PROVE Kids(U, m) \cap Kids(U, n) = {}
        BY <1>5, <1>8, <3>1, <4>2 DEF Shared, Shape, LiveTree
      <4>3. Kids(U, c) \cap Kids(U, n) = {}
        BY <1>1, <1>4, <1>5, <1>8, <3>1
      <4> QED BY <1>6, <4>1, <4>2, <4>3
    <3>2. CASE n = c
      <4>1. \A k \in Kids(U, n) : U[k].retired = 0
        BY <1>1, <1>4, <3>2
      <4>2. ASSUME NEW m \in LiveInternal(T) PROVE Kids(U, m) \cap Kids(U, n) = {}
        BY <1>1, <1>4, <1>5, <1>8, <3>2
      <4> QED BY <1>6, <3>2, <4>1, <4>2
    <3> QED BY <1>6, <3>1, <3>2
  <2> QED BY <2>1 DEF LiveTree
<1>10. MaxAtRight(U)
  <2>1. /\ \A n \in DOMAIN T : ~IsLeaf(T, n) => T[n].right \in DOMAIN T /\ T[n].left \in DOMAIN T
        /\ MaxAtRight(T)
    BY DEF Shared, Shape, Binary, Kids
  <2>2. ASSUME NEW n \in DOMAIN T, ~IsLeaf(U, n), U[n].key = KeyMax
        PROVE  IsLeaf(U, U[n].right) /\ U[U[n].right].key = KeyMax
    BY <1>1, <2>1, <2>2 DEF MaxAtRight
  <2>3. U[c].key = KeyMax => IsLeaf(U, U[c].right) /\ U[U[c].right].key = KeyMax
    BY <1>1, <1>3
  <2>4. /\ Root \in DOMAIN U /\ ~IsLeaf(U, Root)
        /\ U[Root].key = KeyMax /\ U[U[Root].left].key = KeyMax
    BY <1>1, <2>1 DEF MaxAtRight
  <2> QED BY <1>1, <1>3, <2>2, <2>3, <2>4 DEF MaxAtRight
<1> QED BY <1>4, <1>5, <1>6, <1>7, <1>9, <1>10 DEF Shape, a, b, c

LEMMA FlagInsertMoves ==
  ASSUME NEW T, NEW D, NEW U, NEW E, NEW p, NEW w, NEW l, NEW k,
         Shared(T, D), FlagInsertWrite(T, D, U, E, p, w, l, k)
  PROVE  Moves(T, D, U, E) /\ Shared(U, E)
<1> DEFINE o == Len(D) + 1
           a == Len(T) + 1
           b == Len(T) + 2
           c == Len(T) + 3
           d == InsertInfo(p, l, c, k)
           v == Word("iflag", o)
<1>1. /\ p \in DOMAIN T /\ l \in DOMAIN T /\ p \in Nat /\ l \in Nat /\ k \in AllKeys
      /\ T[p].update.flag = "clean" /\ IsInternal(T, p) /\ IsLeaf(T, l)
      /\ ChildFor(T, p, k) = l
  BY Typed DEF FlagInsertWrite, ReadUnder, Since, IsInternal
<1>2. /\ o \in Nat /\ o # 0 /\ c \in Nat /\ v \in WordType /\ Len(T) \in Nat /\ Len(D) \in Nat
      /\ Clean(0) \in WordType
  BY Typed DEF Word, WordType, Clean
<1>3. d \in InfoType
  <2> HIDE DEF c
  <2>1. Clean(0) \in WordType /\ c \in Nat /\ p \in Nat /\ l \in Nat /\ k \in AllKeys
    BY <1>1, <1>2
  <2> QED BY ONLY <2>1 DEF InfoType, InsertInfo
<1>4. /\ d.kind = "insert" /\ d.p = p /\ d.l = l /\ d.new = c /\ d.key = k
      /\ d.done = FALSE /\ d.retired = 0
  BY DEF InsertInfo
<1>5. U = WithWord(T, p, v) \o NewNodes(T, l, k) /\ D \in Seq(InfoType) /\ E = Append(D, d)
  BY DEF FlagInsertWrite, Shared
<1>6. Planted(T, U, p, v, l)
  BY <1>1, <1>2, <1>5, InsertPlants
<1>7. /\ E \in Seq(InfoType) /\ Len(E) = Len(D) + 1 /\ E[o] = d
      /\ DOMAIN E \ DOMAIN D = {o} /\ DOMAIN D \subseteq DOMAIN E
      /\ \A q \in DOMAIN D : E[q] = D[q]
  <2> HIDE DEF d
  <2> QED BY <1>3, <1>5, Appended
<1>8. /\ Shape(U) /\ LiveInternal(U) = LiveInternal(T) \cup {c}
      /\ Kids(U, c) = {a, b} /\ \A n \in DOMAIN T : Kids(U, n) = Kids(T, n)
  BY <1>1, <1>6, PlantedShape
<1>9. /\ U \in Seq(NodeType) /\ Len(U) = Len(T) + 3
      /\ DOMAIN U = DOMAIN T \cup {a, b, c} /\ {a, b, c} \cap DOMAIN T = {}
      /\ a # b /\ a # c /\ b # c
      /\ U[p].update = v
      /\ \A n \in DOMAIN T :
           /\ U[n].key = T[n].key /\ U[n].left = T[n].left
           /\ U[n].right = T[n].right /\ U[n].retired = T[n].retired
           /\ IsLeaf(U, n) = IsLeaf(T, n)
           /\ n # p => U[n].update = T[n].update
      /\ U[a].left = 0 /\ U[a].right = 0 /\ U[b].left = 0 /\ U[b].right = 0
      /\ U[c].left # 0
      /\ \A n \in {a, b, c} : U[n].update = Clean(0) /\ U[n].retired = 0
      /\ T[l].key = KeyMax <=> U[c].key = KeyMax
  BY <1>6 DEF Planted
<1>10. v.flag = "iflag" /\ v.op = o /\ Clean(0).flag = "clean" /\ Clean(0).op = 0
  BY DEF Word, Clean
<1>11. o = Len(D) + 1
  OBVIOUS
<1>12. a \in Nat /\ b \in Nat /\ a # 0 /\ b # 0
  BY <1>2
<1> HIDE DEF o, a, b, c, d, v
<1>13. \A n \in DOMAIN T : NodeMoves(T, D, U, E, n)
  <2>1. WordMoves(T, D, U, p)
    BY <1>1, <1>9, <1>10, <1>11 DEF WordMoves
  <2>2. \A n \in DOMAIN T : WordMoves(T, D, U, n)
    BY <1>9, <2>1 DEF WordMoves
  <2> QED BY <1>9, <2>2 DEF NodeMoves, KidsMove
<1>14. ASSUME NEW q \in DOMAIN D PROVE InfoMoves(T, D, U, E, q)
  <2>1. Flagged(T, D, q) => Flagged(U, E, q)
    <3>1. Flagged(T, D, q) => Parent(D[q]) # p
      BY <1>1 DEF Flagged, Word, FlagOf
    <3> QED BY <1>7, <1>9, <3>1, ParentIsNode DEF Flagged
  <2> QED BY <1>7, <2>1 DEF InfoMoves, SameUpdate
<1>15. Moves(T, D, U, E)
  <2>1. Len(T) <= Len(U) /\ Len(D) <= Len(E)
    BY <1>2, <1>7, <1>9
  <2>2. ASSUME NEW n \in DOMAIN U \ DOMAIN T PROVE Kids(U, n) \cap DOMAIN T = {}
    <3>1. 0 \notin DOMAIN T
      BY Typed
    <3>2. Kids(U, a) = {0} /\ Kids(U, b) = {0}
      BY <1>9 DEF Kids
    <3> QED BY <1>8, <1>9, <3>1, <3>2
  <2> QED BY <1>7, <1>9, <1>13, <1>14, <2>1, <2>2 DEF Moves
<1>16. Retirement(U)
  <2>1. ASSUME NEW n \in DOMAIN U
        PROVE  /\ U[n].retired <= 1
               /\ U[n].retired > 0 /\ ~IsLeaf(U, n) => U[n].update.flag = "mark"
    <3>1. CASE n \in DOMAIN T /\ n # p
      BY <1>9, <3>1 DEF Shared, Retirement
    <3>2. CASE n = p
      <4>1. T[p].retired <= 1 /\ ~(T[p].retired > 0)
        BY <1>1 DEF Shared, Retirement, IsInternal
      <4> QED BY <1>1, <1>9, <3>2, <4>1
    <3>3. CASE n \in {a, b, c}
      BY <1>9, <3>3
    <3> QED BY <1>9, <3>1, <3>2, <3>3
  <2> QED BY <2>1 DEF Retirement
<1>17. ASSUME NEW n \in DOMAIN U PROVE WordMeans(U, E, U[n].update)
  <2>1. CASE n = p
    <3>1. o \in 0..Len(E)
      BY <1>2, <1>7, <1>11
    <3> QED BY <1>2, <1>4, <1>7, <1>9, <1>10, <2>1, <3>1 DEF WordMeans
  <2>2. CASE n \in DOMAIN T /\ n # p
    BY <1>9, <1>15, <2>2, WordFacts, WordKept
  <2>3. CASE n \in {a, b, c}
    <3>1. 0 \in 0..Len(E)
      BY <1>2, <1>7
    <3> QED BY <1>2, <1>9, <1>10, <2>3, <3>1 DEF WordMeans
  <2> QED BY <1>9, <2>1, <2>2, <2>3
<1>18. Flagged(U, E, o)
  BY <1>4, <1>7, <1>9 DEF Flagged, Parent, FlagOf, v
<1>19. InsertView(U, E, o)
  <2>1. IsInternal(U, p) /\ l \in DOMAIN U /\ IsLeaf(U, l) /\ IsInternal(U, c)
    BY <1>1, <1>9 DEF IsInternal, IsLeaf
  <2>2. U[l].key = KeyMax => U[c].key = KeyMax
    BY <1>1, <1>9
  <2>3. ChildFor(U, p, k) = l
    BY <1>1, <1>9 DEF ChildFor
  <2>4. U[c].retired = 0
    BY <1>9
  <2>5. ASSUME NEW n \in LiveInternal(U) PROVE c \notin Kids(U, n)
    <3>1. CASE n \in LiveInternal(T)
      <4>1. Kids(U, n) \subseteq DOMAIN T
        BY <1>8, <3>1 DEF Shared, Shape, Binary, LiveInternal
      <4> QED BY <1>9, <4>1
    <3>2. CASE n = c
      BY <1>8, <1>9, <3>2
    <3> QED BY <1>8, <3>1, <3>2
  <2> QED BY <1>4, <1>7, <1>18, <2>1, <2>2, <2>3, <2>4, <2>5 DEF InsertView
<1>20. ASSUME NEW q \in DOMAIN E \ DOMAIN D
       PROVE  /\ E[q].retired = IF Flagged(U, E, q) THEN 0 ELSE 1
              /\ IF E[q].kind = "insert" THEN InsertView(U, E, q) ELSE DeleteView(U, E, q)
              /\ E[q].kind = "insert" => E[q].new \notin DOMAIN T
  BY <1>4, <1>7, <1>9, <1>18, <1>19
<1>21. Len(E) <= Len(D) + 1
  BY <1>2, <1>7
<1> QED BY <1>8, <1>15, <1>16, <1>17, <1>20, <1>21, MovesShared

(***************************************************************************)
(* The child CAS.  In the lemmas n is the parent, old the child it loses,  *)
(* c the one it gets, s the one that stays, and G what is retired.         *)
(***************************************************************************)
Swung(T, U, n, old, c, G) ==
  /\ U \in Seq(NodeType) /\ DOMAIN U = DOMAIN T /\ Len(U) = Len(T)
  /\ \A m \in DOMAIN T :
       /\ U[m].key = T[m].key /\ U[m].update = T[m].update
       /\ U[m].retired = IF m \in G THEN T[m].retired + 1 ELSE T[m].retired
       /\ m # n => U[m].left = T[m].left /\ U[m].right = T[m].right
  /\ \/ T[n].left = old /\ U[n].left = c /\ U[n].right = T[n].right
     \/ T[n].right = old /\ U[n].right = c /\ U[n].left = T[n].left

WithDone(D, o) == [D EXCEPT ![o].done = TRUE]

ChildWrite(T, D, U, E, o, c) ==
  /\ o \in DOMAIN D
  /\ IF D[o].kind = "insert" THEN c = D[o].new
     ELSE T[D[o].p].update = Word("mark", o) /\ c \in Kids(T, D[o].p) \ {D[o].l}
  /\ Swung(T, U, Parent(D[o]), Old(D[o]), c, Unlinked(D[o]))
  /\ E = WithDone(D, o)

\* What an update that is not done knows about the place it will change.
Fits(T, D, o, n, old, c, s, G) ==
  /\ ~D[o].done /\ Flagged(T, D, o) /\ n \in LiveInternal(T) /\ n \in DOMAIN T
  /\ ChildFor(T, n, D[o].key) = old
  /\ Kids(T, n) = {old, s} /\ old # s /\ s \in DOMAIN T /\ T[s].retired = 0
  /\ \A k \in G : LiveKid(T, k) /\ k \in DOMAIN T /\ T[k].retired = 0
  /\ \A k \in G : ~IsLeaf(T, k) => T[k].update.flag = "mark"
  /\ c \in DOMAIN T /\ T[c].retired = 0 /\ old \in G
  /\ c \notin G /\ n \notin G /\ s \notin G /\ c # s
  /\ \A m \in LiveInternal(T) \ G : m # n => c \notin Kids(T, m) /\ Kids(T, m) \cap G = {}
  /\ n = Root => T[c].key = KeyMax
  /\ LiveKid(T, c) \/ (D[o].kind = "insert" /\ c = D[o].new)

LEMMA LiveFacts ==
  ASSUME NEW T, NEW D, Shared(T, D)
  PROVE  /\ \A n \in LiveInternal(T) :
              /\ n \in DOMAIN T /\ ~IsLeaf(T, n) /\ T[n].retired = 0
              /\ Kids(T, n) \subseteq DOMAIN T /\ T[n].left # T[n].right
              /\ \A k \in Kids(T, n) : LiveKid(T, k) /\ T[k].retired = 0
         /\ \A m, n \in LiveInternal(T) : m # n => Kids(T, m) \cap Kids(T, n) = {}
         /\ \A n : IsInternal(T, n) /\ T[n].update.flag # "mark" => n \in LiveInternal(T)
<1>1. ASSUME NEW n \in LiveInternal(T)
      PROVE  /\ n \in DOMAIN T /\ ~IsLeaf(T, n) /\ T[n].retired = 0
             /\ Kids(T, n) \subseteq DOMAIN T /\ T[n].left # T[n].right
             /\ \A k \in Kids(T, n) : LiveKid(T, k) /\ T[k].retired = 0
  <2>1. n \in DOMAIN T /\ ~IsLeaf(T, n) /\ T[n].retired = 0
    BY DEF LiveInternal
  <2>2. Kids(T, n) \subseteq DOMAIN T /\ T[n].left # T[n].right
    BY <2>1 DEF Shared, Shape, Binary
  <2>3. \A k \in Kids(T, n) : LiveKid(T, k) /\ T[k].retired = 0
    BY DEF Shared, Shape, LiveTree, LiveKid
  <2> QED BY <2>1, <2>2, <2>3
<1>2. \A m, n \in LiveInternal(T) : m # n => Kids(T, m) \cap Kids(T, n) = {}
  BY DEF Shared, Shape, LiveTree
<1>3. ASSUME NEW n, IsInternal(T, n), T[n].update.flag # "mark" PROVE n \in LiveInternal(T)
  <2>1. n \in DOMAIN T /\ ~IsLeaf(T, n)
    BY <1>3 DEF IsInternal
  <2>2. T[n].retired \in Nat
    BY <2>1, Typed DEF NodeType
  <2>3. ~(T[n].retired > 0)
    BY <1>3, <2>1 DEF Shared, Retirement
  <2>4. T[n].retired = 0
    BY <2>2, <2>3
  <2> QED BY <2>1, <2>4 DEF LiveInternal
<1> QED BY <1>1, <1>2, <1>3

\* The key of an update sends it to the left of a node with key KEY_MAX.
LEMMA KeyGoesLeft ==
  ASSUME NEW T, NEW D, Shared(T, D), NEW o \in DOMAIN D, NEW n, T[n].key = KeyMax
  PROVE  ChildFor(T, n, D[o].key) = T[n].left
<1>1. D[o].key \in 1..(KeyMax - 1) /\ KeyMax \in Nat
  BY Kinds, EllenTreeAssumption DEF AllKeys
<1>2. D[o].key < KeyMax
  BY <1>1
<1> QED BY <1>2 DEF ChildFor

LEMMA InsertFits ==
  ASSUME NEW T, NEW D, NEW U, NEW E, NEW o, NEW c, Shared(T, D), ChildWrite(T, D, U, E, o, c),
         D[o].kind = "insert"
  PROVE  \E s : Fits(T, D, o, Parent(D[o]), Old(D[o]), c, s, Unlinked(D[o]))
<1> DEFINE n == D[o].p
           old == D[o].l
           G == {old}
<1>1. o \in DOMAIN D /\ Parent(D[o]) = n /\ Old(D[o]) = old /\ Unlinked(D[o]) = G /\ c = D[o].new
  BY DEF ChildWrite, Parent, Old, Unlinked
<1>2. InsertView(T, D, o)
  BY <1>1, InsertFacts
<1>3. old \in Kids(T, n)
  BY <1>1 DEF ChildWrite, Swung, Kids
<1>4. /\ ~D[o].done /\ Flagged(T, D, o) /\ ChildFor(T, n, D[o].key) = old
      /\ IsInternal(T, n) /\ IsLeaf(T, old) /\ old \in DOMAIN T
      /\ c \in DOMAIN T /\ ~IsLeaf(T, c) /\ T[c].retired = 0
      /\ \A m \in LiveInternal(T) : c \notin Kids(T, m)
      /\ T[old].key = KeyMax => T[c].key = KeyMax
  BY <1>1, <1>2, <1>3 DEF InsertView, IsInternal
<1>5. n \in LiveInternal(T)
  BY <1>1, <1>4, LiveFacts DEF Flagged, Word, FlagOf
<1>6. /\ n \in DOMAIN T /\ ~IsLeaf(T, n) /\ Kids(T, n) \subseteq DOMAIN T
      /\ T[n].left # T[n].right
      /\ \A k \in Kids(T, n) : LiveKid(T, k) /\ T[k].retired = 0
  BY <1>5, LiveFacts
<1>7. PICK s \in Kids(T, n) : s # old /\ Kids(T, n) = {old, s}
  BY <1>3, <1>6 DEF Kids
<1>8. n = Root => T[c].key = KeyMax
  <2>1. T[Root].key = KeyMax /\ T[T[Root].left].key = KeyMax
    BY DEF Shared, Shape, MaxAtRight
  <2>2. n = Root => old = T[Root].left
    BY <1>1, <1>4, <2>1, KeyGoesLeft
  <2> QED BY <1>4, <2>1, <2>2
<1>9. \A m \in LiveInternal(T) : m # n => Kids(T, m) \cap G = {}
  BY <1>3, <1>5, LiveFacts
<1>10. /\ \A k \in G : LiveKid(T, k) /\ k \in DOMAIN T /\ T[k].retired = 0
       /\ \A k \in G : ~IsLeaf(T, k) => T[k].update.flag = "mark"
  BY <1>3, <1>4, <1>6
<1>11. c \notin G /\ n \notin G /\ s \notin G /\ c # s /\ old \in G
  BY <1>4, <1>5, <1>6, <1>7
<1>12. s \in DOMAIN T /\ T[s].retired = 0
  BY <1>6, <1>7
<1> HIDE DEF n, old, G
<1>13. Fits(T, D, o, n, old, c, s, G)
  BY <1>1, <1>4, <1>5, <1>6, <1>7, <1>8, <1>9, <1>10, <1>11, <1>12 DEF Fits
<1> QED BY <1>1, <1>13

LEMMA DeleteFits ==
  ASSUME NEW T, NEW D, NEW U, NEW E, NEW o, NEW c, Shared(T, D), ChildWrite(T, D, U, E, o, c),
         D[o].kind = "delete"
  PROVE  \E s : Fits(T, D, o, Parent(D[o]), Old(D[o]), c, s, Unlinked(D[o]))
<1> DEFINE n == D[o].gp
           old == D[o].p
           l == D[o].l
           G == {l, old}
<1>1. /\ o \in DOMAIN D /\ Parent(D[o]) = n /\ Old(D[o]) = old /\ Unlinked(D[o]) = G
      /\ T[old].update = Word("mark", o) /\ c \in Kids(T, old) /\ c # l
  BY DEF ChildWrite, Parent, Old, Unlinked
<1>2. DeleteView(T, D, o)
  BY <1>1, DeleteFacts
<1>3. old \in Kids(T, n)
  BY <1>1 DEF ChildWrite, Swung, Kids
<1>4. /\ IsInternal(T, n) /\ l \in DOMAIN T /\ IsLeaf(T, l)
      /\ old \in DOMAIN T /\ ~IsLeaf(T, old)
  BY <1>2 DEF DeleteView, Since, IsInternal
<1>5. MayMark(T, D, o)
  BY <1>1 DEF MayMark
<1>6. ~D[o].done
  BY <1>2, <1>3 DEF DeleteView
<1>7. Flagged(T, D, o)
  BY <1>1, <1>5, <1>6, MarkedIsFlagged
<1>8. ChildFor(T, n, D[o].key) = old /\ ChildFor(T, old, D[o].key) = l
  BY <1>2, <1>5, <1>6, <1>7 DEF DeleteView
<1>9. T[n].update.flag = "dflag" /\ T[old].update.flag = "mark"
  BY <1>1, <1>7 DEF Flagged, Word, FlagOf
<1>10. n \in LiveInternal(T)
  BY <1>4, <1>9, LiveFacts
<1>11. /\ n \in DOMAIN T /\ ~IsLeaf(T, n) /\ Kids(T, n) \subseteq DOMAIN T
       /\ T[n].left # T[n].right
       /\ \A k \in Kids(T, n) : LiveKid(T, k) /\ T[k].retired = 0
  BY <1>10, LiveFacts
<1>12. old \in LiveInternal(T) /\ old # n
  BY <1>3, <1>4, <1>9, <1>11 DEF LiveInternal
<1>13. l \in Kids(T, old)
  BY <1>8 DEF ChildFor, Kids
<1>14. /\ Kids(T, old) \subseteq DOMAIN T /\ Kids(T, old) \cap Kids(T, n) = {}
       /\ \A k \in Kids(T, old) : LiveKid(T, k) /\ T[k].retired = 0
  BY <1>10, <1>12, LiveFacts
<1>15. PICK s \in Kids(T, n) : s # old /\ Kids(T, n) = {old, s}
  BY <1>3, <1>11 DEF Kids
<1>16. n = Root => T[c].key = KeyMax
  <2>1. SUFFICES ASSUME n = Root PROVE T[c].key = KeyMax
    OBVIOUS
  <2>2. T[Root].key = KeyMax /\ T[T[Root].left].key = KeyMax
    BY DEF Shared, Shape, MaxAtRight
  <2>3. old = T[Root].left
    BY <1>1, <1>8, <2>1, <2>2, KeyGoesLeft
  <2>4. l = T[old].left
    BY <1>1, <1>8, <2>2, <2>3, KeyGoesLeft
  <2>5. c = T[old].right
    BY <1>1, <2>4 DEF Kids
  <2> QED BY <1>4, <2>2, <2>3, <2>5 DEF Shared, Shape, MaxAtRight
<1>17. \A m \in LiveInternal(T) \ G : m # n => c \notin Kids(T, m) /\ Kids(T, m) \cap G = {}
  <2>1. ASSUME NEW m \in LiveInternal(T) \ G, m # n
        PROVE  c \notin Kids(T, m) /\ Kids(T, m) \cap G = {}
    <3>1. m # old /\ Kids(T, m) \cap Kids(T, old) = {} /\ Kids(T, m) \cap Kids(T, n) = {}
      BY <1>10, <1>12, <2>1, LiveFacts
    <3> QED BY <1>1, <1>3, <1>13, <3>1
  <2> QED BY <2>1
<1>18. /\ \A k \in G : LiveKid(T, k) /\ k \in DOMAIN T /\ T[k].retired = 0
       /\ \A k \in G : ~IsLeaf(T, k) => T[k].update.flag = "mark"
  BY <1>3, <1>4, <1>9, <1>11, <1>13, <1>14
<1>19. c \notin G /\ n \notin G /\ s \notin G /\ c # s /\ old \in G
  BY <1>1, <1>3, <1>4, <1>11, <1>12, <1>13, <1>14, <1>15
<1>20. /\ s \in DOMAIN T /\ T[s].retired = 0
       /\ c \in DOMAIN T /\ T[c].retired = 0 /\ LiveKid(T, c)
  BY <1>1, <1>11, <1>14, <1>15
<1> HIDE DEF n, old, l, G
<1>21. Fits(T, D, o, n, old, c, s, G)
  BY <1>6, <1>7, <1>8, <1>10, <1>11, <1>15, <1>16, <1>17, <1>18, <1>19, <1>20 DEF Fits
<1> QED BY <1>1, <1>21

LEMMA SwungShape ==
  ASSUME NEW T, NEW D, NEW U, NEW o \in DOMAIN D, NEW n, NEW old, NEW c, NEW s, NEW G,
         Shared(T, D), Fits(T, D, o, n, old, c, s, G), Swung(T, U, n, old, c, G)
  PROVE  /\ Shape(U) /\ Retirement(U) /\ Kids(U, n) = {c, s}
         /\ \A m \in DOMAIN T : IsLeaf(U, m) = IsLeaf(T, m)
<1>1. /\ n \in LiveInternal(T) /\ n \in DOMAIN T /\ ~IsLeaf(T, n) /\ n \notin G
      /\ T[n].left # T[n].right /\ Kids(T, n) = {old, s} /\ old # s
      /\ c \in DOMAIN T /\ c \notin G /\ T[c].retired = 0 /\ c # s /\ old \in G
      /\ s \in DOMAIN T /\ s \notin G /\ T[s].retired = 0
  BY LiveFacts DEF Fits
<1>2. /\ DOMAIN U = DOMAIN T
      /\ \A m \in DOMAIN T :
           /\ U[m].key = T[m].key /\ U[m].update = T[m].update
           /\ U[m].retired = IF m \in G THEN T[m].retired + 1 ELSE T[m].retired
           /\ m # n => U[m].left = T[m].left /\ U[m].right = T[m].right
  BY DEF Swung
<1>3. \/ T[n].left = old /\ T[n].right = s /\ U[n].left = c /\ U[n].right = s
      \/ T[n].right = old /\ T[n].left = s /\ U[n].right = c /\ U[n].left = s
  BY <1>1 DEF Swung, Kids
<1>4. Kids(U, n) = {c, s} /\ U[n].left # U[n].right
  BY <1>1, <1>3 DEF Kids
<1>5. \A m \in DOMAIN T : m # n => Kids(U, m) = Kids(T, m)
  BY <1>2 DEF Kids
<1>6. 0 \notin DOMAIN T
  BY Typed
<1>7. \A m \in DOMAIN T : IsLeaf(U, m) = IsLeaf(T, m)
  <2>1. ~IsLeaf(U, n)
    BY <1>1, <1>3, <1>6 DEF IsLeaf
  <2> QED BY <1>1, <1>2, <2>1 DEF IsLeaf
<1>8. \A k \in G : k \in DOMAIN T /\ T[k].retired = 0 /\ U[k].retired = 1
  BY <1>2 DEF Fits
<1>9. LiveInternal(U) = LiveInternal(T) \ G
  BY <1>2, <1>7, <1>8 DEF LiveInternal
<1>10. Binary(U)
  <2>1. ASSUME NEW m \in DOMAIN U
        PROVE  IF IsLeaf(U, m) THEN U[m].right = 0
               ELSE Kids(U, m) \subseteq DOMAIN U /\ U[m].left # U[m].right
    <3>1. CASE m = n
      BY <1>1, <1>2, <1>4, <1>7, <3>1
    <3>2. CASE m # n
      BY <1>2, <1>5, <1>7, <3>2 DEF Shared, Shape, Binary
    <3> QED BY <3>1, <3>2
  <2> QED BY <2>1 DEF Binary
<1>11. \A m \in LiveInternal(U) : m # n => c \notin Kids(T, m) /\ Kids(T, m) \cap G = {}
  BY <1>9 DEF Fits
<1>12. LiveTree(U)
  <2>1. ASSUME NEW m \in LiveInternal(U), NEW k \in Kids(U, m) PROVE U[k].retired = 0
    <3>1. CASE m = n
      BY <1>1, <1>2, <1>4, <3>1
    <3>2. CASE m # n
      <4>1. m \in LiveInternal(T) /\ k \in Kids(T, m)
        BY <1>2, <1>5, <1>9, <3>2 DEF LiveInternal
      <4>2. k \in DOMAIN T /\ T[k].retired = 0
        BY <4>1, LiveFacts
      <4>3. k \notin G
        BY <1>11, <3>2, <4>1
      <4> QED BY <1>2, <4>2, <4>3
    <3> QED BY <3>1, <3>2
  <2>2. ASSUME NEW m \in LiveInternal(U), m # n PROVE Kids(U, m) \cap Kids(U, n) = {}
    <3>1. m \in LiveInternal(T) /\ Kids(U, m) = Kids(T, m) /\ c \notin Kids(T, m)
      BY <1>2, <1>5, <1>9, <1>11, <2>2 DEF LiveInternal
    <3>2. s \notin Kids(T, m)
      BY <1>1, <2>2, <3>1, LiveFacts
    <3> QED BY <1>4, <3>1, <3>2
  <2>3. ASSUME NEW m \in LiveInternal(U), NEW q \in LiveInternal(U), m # n, q # n, m # q
        PROVE  Kids(U, m) \cap Kids(U, q) = {}
    <3>1. /\ m \in LiveInternal(T) /\ Kids(U, m) = Kids(T, m)
          /\ q \in LiveInternal(T) /\ Kids(U, q) = Kids(T, q)
      BY <1>2, <1>5, <1>9, <2>3 DEF LiveInternal
    <3> QED BY <2>3, <3>1, LiveFacts
  <2>4. ASSUME NEW m \in LiveInternal(U), NEW q \in LiveInternal(U), q # m
        PROVE  Kids(U, q) \cap Kids(U, m) = {}
    <3>1. CASE m = n
      BY <2>2, <2>4, <3>1
    <3>2. CASE q = n
      BY <2>2, <2>4, <3>2
    <3>3. CASE m # n /\ q # n
      BY <2>3, <2>4, <3>3
    <3> QED BY <3>1, <3>2, <3>3
  <2> QED BY <2>1, <2>4 DEF LiveTree
<1>13. MaxAtRight(U)
  <2>1. /\ \A m \in DOMAIN T : ~IsLeaf(T, m) => T[m].right \in DOMAIN T /\ T[m].left \in DOMAIN T
        /\ \A m \in DOMAIN T : ~IsLeaf(T, m) /\ T[m].key = KeyMax =>
             IsLeaf(T, T[m].right) /\ T[T[m].right].key = KeyMax
        /\ Root \in DOMAIN T /\ ~IsLeaf(T, Root)
        /\ T[Root].key = KeyMax /\ T[T[Root].left].key = KeyMax
    BY DEF Shared, Shape, Binary, Kids, MaxAtRight
  <2>2. T[n].key = KeyMax => U[n].right = T[n].right /\ U[n].left = c
    <3>1. T[n].key = KeyMax => T[n].left = old
      BY KeyGoesLeft DEF Fits
    <3> QED BY <1>1, <1>3, <3>1
  <2>3. ASSUME NEW m \in DOMAIN U, ~IsLeaf(U, m), U[m].key = KeyMax
        PROVE  IsLeaf(U, U[m].right) /\ U[U[m].right].key = KeyMax
    <3>1. /\ m \in DOMAIN T /\ ~IsLeaf(T, m) /\ T[m].key = KeyMax
          /\ U[m].right = T[m].right
      BY <1>2, <1>7, <2>2, <2>3
    <3>2. T[m].right \in DOMAIN T /\ IsLeaf(T, T[m].right) /\ T[T[m].right].key = KeyMax
      BY <2>1, <3>1
    <3> QED BY <1>2, <1>7, <3>1, <3>2
  <2>4. U[Root].key = KeyMax /\ U[U[Root].left].key = KeyMax
    <3>1. CASE Root = n
      BY <1>1, <1>2, <2>1, <2>2, <3>1 DEF Fits
    <3>2. CASE Root # n
      BY <1>2, <2>1, <3>2
    <3> QED BY <3>1, <3>2
  <2> QED BY <1>2, <1>7, <2>1, <2>3, <2>4 DEF MaxAtRight
<1>14. Retirement(U)
  <2>1. ASSUME NEW m \in DOMAIN U
        PROVE  /\ U[m].retired <= 1
               /\ U[m].retired > 0 /\ ~IsLeaf(U, m) => U[m].update.flag = "mark"
    <3>1. CASE m \in G
      BY <1>2, <1>7, <1>8, <3>1 DEF Fits
    <3>2. CASE m \notin G
      BY <1>2, <1>7, <3>2 DEF Shared, Retirement
    <3> QED BY <3>1, <3>2
  <2> QED BY <2>1 DEF Retirement
<1> QED BY <1>4, <1>7, <1>10, <1>12, <1>13, <1>14 DEF Shape

LEMMA SetDone ==
  ASSUME NEW D \in Seq(InfoType), NEW o \in DOMAIN D, NEW E, E = WithDone(D, o)
  PROVE  /\ E \in Seq(InfoType) /\ DOMAIN E = DOMAIN D /\ Len(E) = Len(D)
         /\ E[o].done
         /\ \A q \in DOMAIN D : /\ SameUpdate(D[q], E[q]) /\ E[q].retired = D[q].retired
                                /\ q # o => E[q].done = D[q].done
<1>1. D[o] \in InfoType
  OBVIOUS
<1>2. /\ E[o] = [D[o] EXCEPT !.done = TRUE]
      /\ \A q \in DOMAIN D : q # o => E[q] = D[q]
      /\ DOMAIN E = DOMAIN D /\ Len(E) = Len(D)
  BY DEF WithDone
<1>3. E[o] \in InfoType
  BY <1>1, <1>2 DEF InfoType
<1>4. E \in Seq(InfoType)
  BY <1>2, <1>3 DEF WithDone
<1>5. SameUpdate(D[o], E[o]) /\ E[o].done = TRUE /\ E[o].retired = D[o].retired
  BY <1>1, <1>2 DEF InfoType, SameUpdate
<1> QED BY <1>2, <1>4, <1>5 DEF SameUpdate

LEMMA ChildMoves ==
  ASSUME NEW T, NEW D, NEW U, NEW E, NEW o, NEW c, Shared(T, D), ChildWrite(T, D, U, E, o, c)
  PROVE  Moves(T, D, U, E) /\ Shared(U, E)
<1> DEFINE n == Parent(D[o])
           old == Old(D[o])
           G == Unlinked(D[o])
<1>1. /\ o \in DOMAIN D /\ Swung(T, U, n, old, c, G) /\ E = WithDone(D, o)
      /\ D \in Seq(InfoType)
  BY DEF ChildWrite, Shared
<1>2. PICK s : Fits(T, D, o, n, old, c, s, G)
  BY <1>1, InsertFits, DeleteFits, Kinds
<1>3. D[o].l \in G /\ (D[o].kind = "delete" => D[o].p \in G)
  BY <1>1, Kinds DEF Unlinked
<1>4. D[o].kind = "delete" => T[D[o].p].update = Word("mark", o)
  BY DEF ChildWrite
<1> HIDE DEF n, old, G
<1>5. /\ Shape(U) /\ Retirement(U) /\ Kids(U, n) = {c, s}
      /\ \A m \in DOMAIN T : IsLeaf(U, m) = IsLeaf(T, m)
  BY <1>1, <1>2, SwungShape
<1>6. /\ E \in Seq(InfoType) /\ DOMAIN E = DOMAIN D /\ Len(E) = Len(D) /\ E[o].done
      /\ \A q \in DOMAIN D : /\ SameUpdate(D[q], E[q]) /\ E[q].retired = D[q].retired
                             /\ q # o => E[q].done = D[q].done
  BY <1>1, SetDone
<1>7. /\ U \in Seq(NodeType) /\ DOMAIN U = DOMAIN T /\ Len(U) = Len(T)
      /\ \A m \in DOMAIN T :
           /\ U[m].key = T[m].key /\ U[m].update = T[m].update
           /\ U[m].retired = IF m \in G THEN T[m].retired + 1 ELSE T[m].retired
           /\ m # n => U[m].left = T[m].left /\ U[m].right = T[m].right
  BY <1>1 DEF Swung
<1>8. /\ ~D[o].done /\ Flagged(T, D, o) /\ n \in LiveInternal(T)
      /\ Kids(T, n) = {old, s} /\ old # s /\ c # old
      /\ \A k \in G : LiveKid(T, k) /\ k \in DOMAIN T /\ T[k].retired = 0
      /\ LiveKid(T, c) \/ (D[o].kind = "insert" /\ c = D[o].new)
  BY <1>2 DEF Fits
<1>9. ASSUME NEW m \in DOMAIN T PROVE NodeMoves(T, D, U, E, m)
  <2>1. KidsMove(T, D, U, E, m)
    <3>1. CASE m = n
      <4>1. T[n].update.op = o
        BY <1>8 DEF Flagged, Word, n
      <4>2. old \in Kids(T, n) \ Kids(U, n)
        BY <1>5, <1>8
      <4>3. LiveKid(T, s)
        BY <1>8, LiveFacts
      <4>4. \A k \in Kids(U, n) : LiveKid(T, k) \/ (D[o].kind = "insert" /\ k = D[o].new)
        BY <1>5, <1>8, <4>3
      <4> QED BY <1>1, <1>6, <1>8, <3>1, <4>1, <4>2, <4>4 DEF KidsMove, n, old
    <3>2. CASE m # n
      BY <1>7, <3>2 DEF KidsMove
    <3> QED BY <3>1, <3>2
  <2>2. \/ U[m].retired = T[m].retired
        \/ U[m].retired = T[m].retired + 1 /\ LiveKid(T, m)
    BY <1>7, <1>8
  <2> QED BY <1>5, <1>7, <2>1, <2>2 DEF NodeMoves, WordMoves
<1>10. ASSUME NEW q \in DOMAIN D PROVE InfoMoves(T, D, U, E, q)
  <2>1. Flagged(U, E, q) <=> Flagged(T, D, q)
    <3>1. Parent(E[q]) = Parent(D[q]) /\ FlagOf(E[q]) = FlagOf(D[q])
      BY <1>6 DEF SameUpdate, Parent, FlagOf
    <3> QED BY <1>7, <3>1, ParentIsNode DEF Flagged
  <2>2. CASE q = o
    <3>1. \A k \in G : U[k].retired > 0
      BY <1>7, <1>8
    <3>2. Old(D[o]) \notin Kids(U, Parent(D[o]))
      BY <1>5, <1>8 DEF n, old
    <3> QED BY <1>3, <1>4, <1>6, <1>8, <2>1, <2>2, <3>1, <3>2 DEF InfoMoves
  <2>3. CASE q # o
    BY <1>6, <2>1, <2>3 DEF InfoMoves
  <2> QED BY <2>2, <2>3
<1>11. Moves(T, D, U, E)
  <2>1. Len(T) <= Len(U) /\ Len(D) <= Len(E)
    BY <1>6, <1>7, Typed
  <2> QED BY <1>6, <1>7, <1>9, <1>10, <2>1 DEF Moves
<1>12. \A m \in DOMAIN U : WordMeans(U, E, U[m].update)
  BY <1>7, <1>11, WordFacts, WordKept
<1>13. Len(E) <= Len(D) + 1 /\ DOMAIN E \ DOMAIN D = {}
  BY <1>6, Typed
<1> QED BY <1>5, <1>11, <1>12, <1>13, MovesShared

(***************************************************************************)
(* The threads.  A step gives one thread new locals.                       *)
(***************************************************************************)
LEMMA Still ==
  ASSUME NEW T, NEW D, Shared(T, D)
  PROVE  Moves(T, D, T, D)
<1>1. T \in Seq(NodeType) /\ D \in Seq(InfoType) /\ Len(T) <= Len(T) /\ Len(D) <= Len(D)
  BY Typed DEF Shared
<1> QED BY <1>1 DEF Moves, NodeMoves, WordMoves, KidsMove, InfoMoves, SameUpdate

Turn(L, t, me) == [L EXCEPT ![t] = me]

LEMMA Turned ==
  ASSUME NEW T, NEW D, NEW U, NEW E, NEW L, NEW M, NEW t \in Threads, NEW me \in LocalType,
         Shared(T, D), Moves(T, D, U, E), L \in [Threads -> LocalType],
         \A u \in Threads : LocalView(T, D, L[u]),
         M = Turn(L, t, me), LocalView(U, E, me)
  PROVE  M \in [Threads -> LocalType] /\ \A u \in Threads : LocalView(U, E, M[u])
<1>1. /\ M \in [Threads -> LocalType] /\ M[t] = me
      /\ \A u \in Threads : u # t => M[u] = L[u]
  BY DEF Turn
<1>2. ASSUME NEW u \in Threads PROVE LocalView(U, E, M[u])
  <2>1. CASE u = t
    BY <1>1, <2>1
  <2>2. CASE u # t
    BY <1>1, <2>2, LocalKept
  <2> QED BY <2>1, <2>2
<1> QED BY <1>1, <1>2

LEMMA Close ==
  ASSUME TreeInv, NEW t \in Threads, NEW me \in LocalType,
         Moves(node, info, node', info'), Shared(node', info'),
         local' = Turn(local, t, me), LocalView(node', info', me),
         calls' \in [Threads -> 0..MaxCalls]
  PROVE  TreeInv'
<1>1. /\ Shared(node, info) /\ local \in [Threads -> LocalType]
      /\ \A u \in Threads : LocalView(node, info, local[u])
  BY DEF TreeInv, TypeOK
<1>2. local' \in [Threads -> LocalType] /\ \A u \in Threads : LocalView(node', info', local'[u])
  <2> DEFINE L == local
             M == local'
             U == node'
             E == info'
  <2>1. /\ Moves(node, info, U, E) /\ M = Turn(L, t, me) /\ LocalView(U, E, me)
        /\ L \in [Threads -> LocalType] /\ \A u \in Threads : LocalView(node, info, L[u])
    BY <1>1
  <2> HIDE DEF L, M, U, E
  <2>2. M \in [Threads -> LocalType] /\ \A u \in Threads : LocalView(U, E, M[u])
    BY <1>1, <2>1, Turned
  <2> QED BY <2>2 DEF M, U, E
<1>3. TypeOK'
  BY <1>2 DEF TypeOK, Shared
<1> QED BY <1>2, <1>3 DEF TreeInv

LEMMA CloseStill ==
  ASSUME TreeInv, NEW t \in Threads, NEW me \in LocalType,
         node' = node, info' = info, calls' \in [Threads -> 0..MaxCalls],
         local' = Turn(local, t, me), LocalView(node, info, me)
  PROVE  Moves(node, info, node', info') /\ TreeInv'
<1>1. Shared(node, info)
  BY DEF TreeInv
<1>2. Moves(node, info, node', info') /\ Shared(node', info') /\ LocalView(node', info', me)
  BY <1>1, Still
<1> QED BY <1>2, Close

\* What a step of thread t starts from.
LEMMA Starts ==
  ASSUME TreeInv, NEW t \in Threads
  PROVE  /\ Shared(node, info) /\ calls \in [Threads -> 0..MaxCalls]
         /\ local \in [Threads -> LocalType] /\ local[t] \in LocalType
         /\ LocalView(node, info, local[t])
  BY DEF TreeInv, TypeOK

LEMMA RestartView ==
  ASSUME NEW T, NEW D, Shared(T, D), NEW me \in LocalType,
         me.key \in AllKeys, me.op \in Ops
  PROVE  /\ Restart(me) \in LocalType /\ LocalView(T, D, Restart(me))
<1> DEFINE r == Restart(me)
<1>1. Clean(0) \in WordType
  BY DEF Clean, Word, WordType
<1>2. /\ r.pc = (IF me.op = "find" THEN "child" ELSE "update") /\ r.op = me.op /\ r.key = me.key
      /\ r.gpupdate = Clean(0) /\ r.p = Root /\ r.pupdate = Clean(0) /\ r.help = <<>>
  BY DEF Restart, LocalType
<1>3. r \in LocalType
  <2> DEFINE x == IF me.op = "find" THEN "child" ELSE "update"
  <2>1. /\ r = [me EXCEPT !.pc = x, !.gp = 0, !.gpupdate = Clean(0), !.p = 1,
                          !.pupdate = Clean(0), !.l = 0, !.own = 0, !.help = <<>>]
        /\ x \in {"idle", "update", "child", "cas", "help", "done"}
        /\ <<>> \in Seq(FrameType)
    BY DEF Restart, Root
  <2> HIDE DEF x, r
  <2> QED BY <1>1, <2>1 DEF LocalType
<1>4. WordMeans(T, D, Clean(0))
  BY <1>1, Typed DEF WordMeans, Clean, Word
<1>5. IsInternal(T, Root)
  BY DEF Shared, Shape, MaxAtRight, IsInternal
<1> HIDE DEF r
<1>6. SearchView(T, D, r)
  BY <1>2, <1>4, <1>5 DEF SearchView
<1>7. LocalView(T, D, r)
  BY <1>2, <1>6 DEF LocalView
<1> QED BY <1>3, <1>7 DEF r

\* The help functions a flag asks for.
LEMMA FrameForView ==
  ASSUME Shared(node, info), NEW u, WordMeans(node, info, u)
  PROVE  /\ FrameFor(u) \in Seq(FrameType)
         /\ u.flag = "clean" => FrameFor(u) = <<>>
         /\ u.flag # "clean" => FrameFor(u) # <<>>
         /\ \A i \in DOMAIN FrameFor(u) : FrameView(node, info, FrameFor(u)[i])
<1>1. u \in WordType /\ u.op \in Nat /\ u.flag \in {"clean", "iflag", "dflag", "mark"}
  BY DEF WordMeans, WordType
<1>2. ASSUME u.flag # "clean"
      PROVE  /\ u.op \in DOMAIN info
             /\ info[u.op].kind = (IF u.flag = "iflag" THEN "insert" ELSE "delete")
  BY <1>2, Typed DEF WordMeans
<1>3. ASSUME NEW f \in FrameType, FrameFor(u) = <<f>>, FrameView(node, info, f), u.flag # "clean"
      PROVE  /\ FrameFor(u) \in Seq(FrameType)
             /\ u.flag = "clean" => FrameFor(u) = <<>>
             /\ u.flag # "clean" => FrameFor(u) # <<>>
             /\ \A i \in DOMAIN FrameFor(u) : FrameView(node, info, FrameFor(u)[i])
  BY <1>3
<1>4. CASE u.flag = "clean"
  BY <1>4 DEF FrameFor
<1>5. CASE u.flag = "dflag"
  <2> DEFINE f == Frame("mark", u.op, 0)
  <2>1. FrameFor(u) = <<f>>
    BY <1>5 DEF FrameFor
  <2>2. f \in FrameType /\ f.at = "mark" /\ f.op = u.op
    BY <1>1 DEF Frame, FrameType
  <2>3. FrameView(node, info, f)
    BY <1>2, <1>5, <2>2 DEF FrameView
  <2> HIDE DEF f
  <2> QED BY <1>3, <1>5, <2>1, <2>2, <2>3
<1>6. CASE u.flag = "iflag"
  <2> DEFINE f == Frame("left", u.op, info[u.op].new)
  <2>1. FrameFor(u) = <<f>>
    BY <1>6 DEF FrameFor
  <2>2. info[u.op].new \in Nat
    BY <1>2, <1>6, Typed, SMTT(30) DEF InfoType
  <2>3. f \in FrameType /\ f.at = "left" /\ f.op = u.op /\ f.other = info[u.op].new
    BY <1>1, <2>2 DEF Frame, FrameType
  <2>4. FrameView(node, info, f)
    BY <1>2, <1>6, <2>3 DEF FrameView
  <2> HIDE DEF f
  <2> QED BY <1>3, <1>6, <2>1, <2>3, <2>4
<1>7. CASE u.flag = "mark"
  <2> DEFINE f == Frame("other", u.op, 0)
  <2>1. FrameFor(u) = <<f>>
    BY <1>7 DEF FrameFor
  <2>2. f \in FrameType /\ f.at = "other" /\ f.op = u.op
    BY <1>1 DEF Frame, FrameType
  <2>3. node[info[u.op].p].update = Word("mark", u.op)
    BY <1>1, <1>7 DEF WordMeans, Word, WordType
  <2>4. FrameView(node, info, f)
    BY <1>2, <1>7, <2>2, <2>3 DEF FrameView
  <2> HIDE DEF f
  <2> QED BY <1>3, <1>7, <2>1, <2>2, <2>4
<1> QED BY <1>1, <1>4, <1>5, <1>6, <1>7

\* Locals of a thread that helps.
LEMMA HelpingView ==
  ASSUME NEW T, NEW D, NEW me \in LocalType, NEW r \in LocalType, SearchView(T, D, me),
         me.pc # "idle", r.pc = "help", r.key = me.key, r.op = me.op,
         r.pupdate = me.pupdate, r.gpupdate = me.gpupdate, r.help # <<>>,
         \A i \in DOMAIN r.help : FrameView(T, D, r.help[i])
  PROVE  LocalView(T, D, r)
<1>1. SearchView(T, D, r)
  BY DEF SearchView
<1> QED BY <1>1 DEF LocalView

LEMMA HelpStep ==
  ASSUME TreeInv, NEW t \in Threads, local[t].pc # "idle",
         NEW u, WordMeans(node, info, u), Help(t, u), UNCHANGED <<node, info, calls>>
  PROVE  Moves(node, info, node', info') /\ TreeInv'
<1> DEFINE me == local[t]
<1>1. /\ Shared(node, info) /\ me \in LocalType /\ LocalView(node, info, me)
      /\ SearchView(node, info, me) /\ me.key \in AllKeys /\ me.op \in Ops
      /\ calls' \in [Threads -> 0..MaxCalls]
  BY Starts DEF LocalView, SearchView
<1>2. CASE u.flag = "clean"
  <2>1. local' = Turn(local, t, Restart(me))
    BY <1>2 DEF Help, Become, Turn
  <2>2. Restart(me) \in LocalType /\ LocalView(node, info, Restart(me))
    BY <1>1, RestartView
  <2> QED BY <1>1, <2>1, <2>2, CloseStill
<1>3. CASE u.flag # "clean"
  <2> DEFINE r == [me EXCEPT !.pc = "help", !.help = FrameFor(u)]
  <2>1. local' = Turn(local, t, r)
    BY <1>3 DEF Help, Become, Turn
  <2>2. /\ FrameFor(u) \in Seq(FrameType) /\ FrameFor(u) # <<>>
        /\ \A i \in DOMAIN FrameFor(u) : FrameView(node, info, FrameFor(u)[i])
    BY <1>1, <1>3, FrameForView
  <2>3. /\ r \in LocalType /\ r.pc = "help" /\ r.key = me.key /\ r.op = me.op
        /\ r.pupdate = me.pupdate /\ r.gpupdate = me.gpupdate /\ r.help = FrameFor(u)
    BY <1>1, <2>2 DEF LocalType
  <2> HIDE DEF r, me
  <2>4. LocalView(node, info, r)
    BY <1>1, <2>2, <2>3, HelpingView DEF me
  <2> QED BY <1>1, <2>1, <2>3, <2>4, CloseStill
<1> QED BY <1>2, <1>3

LEMMA NothingRead ==
  ASSUME NEW T, NEW D, Shared(T, D)
  PROVE  WordMeans(T, D, Clean(0)) /\ Clean(0) \in WordType /\ KeyMax \in 1..KeyMax
<1>1. Clean(0) \in WordType
  BY DEF Clean, Word, WordType
<1>2. WordMeans(T, D, Clean(0))
  BY <1>1, Typed DEF WordMeans, Clean, Word
<1>3. Root \in DOMAIN T /\ T[Root].key = KeyMax
  BY DEF Shared, Shape, MaxAtRight
<1> QED BY <1>1, <1>2, <1>3, Typed DEF NodeType

LEMMA IdleView ==
  ASSUME NEW T, NEW D, Shared(T, D)
  PROVE  Idle \in LocalType /\ LocalView(T, D, Idle)
<1>1. WordMeans(T, D, Clean(0)) /\ Clean(0) \in WordType /\ KeyMax \in 1..KeyMax
  BY NothingRead
<1>2. Idle \in LocalType
  <2>1. <<>> \in Seq(FrameType)
    OBVIOUS
  <2> QED BY <1>1, <2>1 DEF Idle, LocalType, Ops
<1>3. /\ Idle.pc = "idle" /\ Idle.pupdate = Clean(0) /\ Idle.gpupdate = Clean(0)
      /\ Idle.help = <<>>
  BY DEF Idle
<1>4. SearchView(T, D, Idle)
  BY <1>1, <1>3 DEF SearchView
<1> QED BY <1>2, <1>3, <1>4 DEF LocalView

LEMMA InitHolds ==
  ASSUME Init
  PROVE  TreeInv
<1>1. Shared(Built, <<>>)
  <2>1. /\ Built \in Seq(NodeType) /\ Shape(Built)
        /\ \A n \in DOMAIN Built : Built[n].update = Clean(0) /\ Built[n].retired = 0
    BY EllenTreeAssumption
  <2>2. /\ <<>> \in Seq(InfoType) /\ DOMAIN <<>> = {} /\ Len(<<>>) = 0
    OBVIOUS
  <2>3. Retirement(Built)
    BY <2>1 DEF Retirement
  <2>4. \A n \in DOMAIN Built : WordMeans(Built, <<>>, Built[n].update)
    <3>1. WordMeans(Built, <<>>, Clean(0))
      BY <2>2 DEF WordMeans, Clean, Word, WordType
    <3> QED BY <2>1, <3>1
  <2>5. RetiredUnflagged(Built, <<>>) /\ Views(Built, <<>>) /\ NewNodesDiffer(<<>>)
    BY <2>2 DEF RetiredUnflagged, Views, NewNodesDiffer
  <2> QED BY <2>1, <2>2, <2>3, <2>4, <2>5 DEF Shared
<1>2. Shared(node, info)
  BY <1>1 DEF Init
<1>3. Idle \in LocalType /\ LocalView(node, info, Idle)
  BY <1>2, IdleView
<1>4. TypeOK
  <2>1. calls \in [Threads -> 0..MaxCalls]
    BY EllenTreeAssumption DEF Init
  <2>2. local \in [Threads -> LocalType]
    BY <1>3 DEF Init
  <2> QED BY <1>2, <2>1, <2>2 DEF TypeOK, Shared
<1>5. \A t \in Threads : LocalView(node, info, local[t])
  BY <1>3 DEF Init
<1> QED BY <1>2, <1>4, <1>5 DEF TreeInv

(***************************************************************************)
(* One lemma for each action that does not write.                          *)
(***************************************************************************)
LEMMA InvokeStep ==
  ASSUME TreeInv, NEW t \in Threads, NEW op \in Ops, NEW k \in Keys, Invoke(t, op, k)
  PROVE  Moves(node, info, node', info') /\ TreeInv'
<1> DEFINE s == {(k \in KeysOf(node))}
           me == [Idle EXCEPT !.op = op, !.key = k, !.seen = s]
<1>1. Shared(node, info) /\ calls \in [Threads -> 0..MaxCalls]
  BY Starts
<1>2. Idle \in LocalType
  BY <1>1, IdleView
<1>3. k \in AllKeys /\ k \in 1..KeyMax
  BY EllenTreeAssumption DEF AllKeys
<1>4. s \in SUBSET BOOLEAN
  OBVIOUS
<1>5. local' = Turn(local, t, Restart(me))
  BY DEF Invoke, Become, Turn
<1>6. calls' \in [Threads -> 0..MaxCalls] /\ node' = node /\ info' = info
  <2>1. calls[t] + 1 \in 0..MaxCalls
    BY <1>1, EllenTreeAssumption DEF Invoke
  <2> QED BY <1>1, <2>1 DEF Invoke
<1> HIDE DEF s
<1>7. me \in LocalType /\ me.key \in AllKeys /\ me.op \in Ops
  BY <1>2, <1>3, <1>4 DEF LocalType
<1> HIDE DEF me
<1>8. Restart(me) \in LocalType /\ LocalView(node, info, Restart(me))
  BY <1>1, <1>7, RestartView
<1> QED BY <1>5, <1>6, <1>8, CloseStill

LEMMA ReturnStep ==
  ASSUME TreeInv, NEW t \in Threads, Return(t)
  PROVE  Moves(node, info, node', info') /\ TreeInv'
<1>1. Shared(node, info) /\ calls \in [Threads -> 0..MaxCalls]
  BY Starts
<1>2. local' = Turn(local, t, Idle) /\ calls' = calls /\ node' = node /\ info' = info
  BY DEF Return, Turn
<1> QED BY <1>1, <1>2, IdleView, CloseStill

LEMMA ReadUpdateStep ==
  ASSUME TreeInv, NEW t \in Threads, ReadUpdate(t)
  PROVE  Moves(node, info, node', info') /\ TreeInv'
<1> DEFINE me == local[t]
           w == node[me.p].update
           r == [me EXCEPT !.pc = "child", !.pupdate = w]
<1>1. /\ Shared(node, info) /\ calls \in [Threads -> 0..MaxCalls]
      /\ me \in LocalType /\ LocalView(node, info, me) /\ me.pc = "update"
  BY Starts DEF ReadUpdate
<1>2. local' = Turn(local, t, r) /\ calls' = calls /\ node' = node /\ info' = info
  BY DEF ReadUpdate, Become, Turn
<1>3. SearchView(node, info, me) /\ \A i \in DOMAIN me.help : FrameView(node, info, me.help[i])
  BY <1>1 DEF LocalView
<1>4. IsInternal(node, me.p) /\ me.p \in DOMAIN node
  BY <1>1, <1>3 DEF SearchView, IsInternal
<1>5. w \in WordType /\ WordMeans(node, info, w) /\ Since(node, me.p, w)
  BY <1>1, <1>4, WordFacts DEF Since
<1> HIDE DEF me, w
<1>6. /\ r \in LocalType /\ r.pc = "child" /\ r.pupdate = w /\ r.gpupdate = me.gpupdate
      /\ r.gp = me.gp /\ r.p = me.p /\ r.key = me.key /\ r.op = me.op /\ r.help = me.help
  BY <1>1, <1>5 DEF LocalType
<1> HIDE DEF r
<1>7. SearchView(node, info, r)
  BY <1>1, <1>3, <1>4, <1>5, <1>6 DEF SearchView
<1>8. LocalView(node, info, r)
  BY <1>3, <1>6, <1>7 DEF LocalView
<1> QED BY <1>1, <1>2, <1>6, <1>8, CloseStill

LEMMA ChildIsNode ==
  ASSUME NEW T, NEW D, Shared(T, D), NEW n, IsInternal(T, n), NEW k
  PROVE  /\ ChildFor(T, n, k) \in Kids(T, n)
         /\ ChildFor(T, n, k) \in DOMAIN T /\ ChildFor(T, n, k) \in Nat
<1>1. ChildFor(T, n, k) \in Kids(T, n)
  BY DEF ChildFor, Kids
<1>2. Kids(T, n) \subseteq DOMAIN T
  BY DEF Shared, Shape, Binary, IsInternal
<1> QED BY <1>1, <1>2, Typed

\* Nobody finds its key in the leaf below the root itself.
LEMMA NoKeyBelowRoot ==
  ASSUME NEW T, NEW D, Shared(T, D), NEW k \in AllKeys
  PROVE  T[ChildFor(T, Root, k)].key # k
<1>1. k < KeyMax /\ k # KeyMax
  BY EllenTreeAssumption DEF AllKeys
<1> QED BY <1>1 DEF Shared, Shape, MaxAtRight, ChildFor

LEMMA StepDown ==
  ASSUME TreeInv, NEW t \in Threads, ReadChild(t),
         ~IsLeaf(node, ChildFor(node, local[t].p, local[t].key))
  PROVE  Moves(node, info, node', info') /\ TreeInv'
<1> DEFINE me == local[t]
           c == ChildFor(node, me.p, me.key)
<1>1. /\ Shared(node, info) /\ calls \in [Threads -> 0..MaxCalls]
      /\ me \in LocalType /\ LocalView(node, info, me) /\ me.pc = "child"
      /\ calls' = calls /\ node' = node /\ info' = info
  BY Starts DEF ReadChild
<1>2. SearchView(node, info, me) /\ \A i \in DOMAIN me.help : FrameView(node, info, me.help[i])
  BY <1>1 DEF LocalView
<1>3. IsInternal(node, me.p)
  BY <1>1, <1>2 DEF SearchView
<1>4. c \in DOMAIN node /\ c \in Nat /\ IsInternal(node, c)
  BY <1>1, <1>3, ChildIsNode DEF IsInternal
<1>5. ASSUME NEW r \in LocalType, local' = Turn(local, t, r), SearchView(node, info, r),
             r.pc # "help", r.help = me.help
      PROVE  Moves(node, info, node', info') /\ TreeInv'
  <2>1. LocalView(node, info, r)
    BY <1>2, <1>5 DEF LocalView
  <2> QED BY <1>1, <1>5, <2>1, CloseStill
<1>6. CASE me.op = "find"
  <2> DEFINE r == [me EXCEPT !.p = c]
  <2>1. local' = Turn(local, t, r)
    BY <1>6 DEF ReadChild, Become, Turn
  <2> HIDE DEF me, c
  <2>2. /\ r \in LocalType /\ r.pc = me.pc /\ r.pupdate = me.pupdate /\ r.gpupdate = me.gpupdate
        /\ r.p = c /\ r.key = me.key /\ r.op = me.op /\ r.help = me.help
    BY <1>1, <1>4 DEF LocalType
  <2> HIDE DEF r
  <2>3. SearchView(node, info, r)
    BY <1>1, <1>2, <1>4, <1>6, <2>2 DEF SearchView
  <2> QED BY <1>1, <1>5, <2>1, <2>2, <2>3
<1>7. CASE me.op = "insert"
  <2> DEFINE r == [me EXCEPT !.p = c, !.pc = "update"]
  <2>1. local' = Turn(local, t, r)
    BY <1>7 DEF ReadChild, Become, Turn
  <2> HIDE DEF me, c
  <2>2. /\ r \in LocalType /\ r.pc = "update" /\ r.pupdate = me.pupdate
        /\ r.gpupdate = me.gpupdate /\ r.p = c /\ r.key = me.key /\ r.op = me.op
        /\ r.help = me.help
    BY <1>1, <1>4 DEF LocalType
  <2> HIDE DEF r
  <2>3. SearchView(node, info, r)
    BY <1>1, <1>2, <1>4, <1>7, <2>2 DEF SearchView
  <2> QED BY <1>5, <2>1, <2>2, <2>3
<1>8. CASE me.op = "delete"
  <2> DEFINE r == [me EXCEPT !.p = c, !.pc = "update", !.gp = me.p, !.gpupdate = me.pupdate]
  <2>1. local' = Turn(local, t, r)
    BY <1>8 DEF ReadChild, Become, Turn
  <2>2. ReadUnder(node, me.p, me.pupdate, me.key, c)
    BY <1>1, <1>2, <1>8 DEF SearchView, ReadUnder
  <2> HIDE DEF me, c
  <2>3. /\ r \in LocalType /\ r.pc = "update" /\ r.pupdate = me.pupdate
        /\ r.gpupdate = me.pupdate /\ r.gp = me.p /\ r.p = c /\ r.key = me.key /\ r.op = me.op
        /\ r.help = me.help
    BY <1>1, <1>4 DEF LocalType
  <2> HIDE DEF r
  <2>4. SearchView(node, info, r)
    BY <1>1, <1>2, <1>4, <1>8, <2>2, <2>3 DEF SearchView
  <2> QED BY <1>5, <2>1, <2>3, <2>4
<1>9. me.op = "find" \/ me.op = "insert" \/ me.op = "delete"
  BY <1>1, <1>2 DEF SearchView, Ops
<1> QED BY <1>6, <1>7, <1>8, <1>9

LEMMA AtLeafStep ==
  ASSUME TreeInv, NEW t \in Threads, ReadChild(t),
         IsLeaf(node, ChildFor(node, local[t].p, local[t].key))
  PROVE  Moves(node, info, node', info') /\ TreeInv'
<1> DEFINE me == local[t]
           c == ChildFor(node, me.p, me.key)
           found == node[c].key = me.key
<1>1. /\ Shared(node, info) /\ calls \in [Threads -> 0..MaxCalls]
      /\ me \in LocalType /\ LocalView(node, info, me) /\ me.pc = "child"
      /\ calls' = calls /\ node' = node /\ info' = info /\ AtLeaf(t, c)
  BY Starts DEF ReadChild
<1>2. SearchView(node, info, me) /\ \A i \in DOMAIN me.help : FrameView(node, info, me.help[i])
  BY <1>1 DEF LocalView
<1>3. /\ IsInternal(node, me.p) /\ me.key \in AllKeys /\ me.op \in Ops
      /\ WordMeans(node, info, me.pupdate) /\ WordMeans(node, info, me.gpupdate)
  BY <1>1, <1>2 DEF SearchView
<1>4. c \in DOMAIN node /\ c \in Nat /\ IsLeaf(node, c)
  BY <1>1, <1>3, ChildIsNode
<1>5. \/ Answered(t, found)
      \/ Goes(t, found) /\ Help(t, me.gpupdate)
      \/ Goes(t, found) /\ Help(t, me.pupdate)
      \/ /\ Goes(t, found) /\ me.gpupdate.flag = "clean" /\ me.pupdate.flag = "clean"
         /\ Become(t, [me EXCEPT !.pc = "cas", !.l = c])
  BY <1>1 DEF AtLeaf
<1>6. CASE Answered(t, found)
  <2>1. PICK b \in BOOLEAN : local' = Turn(local, t, [me EXCEPT !.pc = "done", !.res = b])
    BY <1>6 DEF Answered, Finish, Become, Turn
  <2> DEFINE r == [me EXCEPT !.pc = "done", !.res = b]
  <2>2. local' = Turn(local, t, r)
    BY <2>1
  <2> HIDE DEF me
  <2>3. /\ r \in LocalType /\ r.pc = "done" /\ r.pupdate = me.pupdate
        /\ r.gpupdate = me.gpupdate /\ r.key = me.key /\ r.op = me.op /\ r.help = me.help
    BY <1>1 DEF LocalType
  <2> HIDE DEF r
  <2>4. SearchView(node, info, r)
    BY <1>3, <2>3 DEF SearchView
  <2>5. LocalView(node, info, r)
    BY <1>2, <2>3, <2>4 DEF LocalView
  <2> QED BY <1>1, <2>2, <2>3, <2>5, CloseStill
<1>7. CASE Help(t, me.gpupdate)
  BY <1>1, <1>3, <1>7, HelpStep
<1>8. CASE Help(t, me.pupdate)
  BY <1>1, <1>3, <1>8, HelpStep
<1>9. CASE /\ Goes(t, found) /\ me.gpupdate.flag = "clean" /\ me.pupdate.flag = "clean"
           /\ Become(t, [me EXCEPT !.pc = "cas", !.l = c])
  <2> DEFINE r == [me EXCEPT !.pc = "cas", !.l = c]
  <2>1. local' = Turn(local, t, r)
    BY <1>9 DEF Become, Turn
  <2>2. me.op # "find" /\ (me.op = "delete" => found)
    BY <1>9 DEF Goes
  <2>3. me.op = "delete" => me.p # Root
    BY <1>1, <1>3, <2>2, NoKeyBelowRoot
  <2>4. Since(node, me.p, me.pupdate) /\ ReadUnder(node, me.p, me.pupdate, me.key, c)
    BY <1>1, <1>2, <2>2 DEF SearchView, ReadUnder
  <2>5. me.op = "delete" => ReadUnder(node, me.gp, me.gpupdate, me.key, me.p)
    BY <1>1, <1>2, <2>3 DEF SearchView
  <2>6. me.gpupdate.flag = "clean" /\ me.pupdate.flag = "clean"
    BY <1>9
  <2> HIDE DEF me, c
  <2>7. /\ r \in LocalType /\ r.pc = "cas" /\ r.pupdate = me.pupdate
        /\ r.gpupdate = me.gpupdate /\ r.gp = me.gp /\ r.p = me.p /\ r.l = c
        /\ r.key = me.key /\ r.op = me.op /\ r.help = me.help
    BY <1>1, <1>4 DEF LocalType
  <2> HIDE DEF r
  <2>8. SearchView(node, info, r)
    BY <1>3, <1>4, <2>2, <2>4, <2>5, <2>6, <2>7 DEF SearchView
  <2>9. LocalView(node, info, r)
    BY <1>2, <2>7, <2>8 DEF LocalView
  <2> QED BY <1>1, <2>1, <2>7, <2>9, CloseStill
<1> QED BY <1>5, <1>6, <1>7, <1>8, <1>9

LEMMA ReadChildStep ==
  ASSUME TreeInv, NEW t \in Threads, ReadChild(t)
  PROVE  Moves(node, info, node', info') /\ TreeInv'
  BY StepDown, AtLeafStep

(***************************************************************************)
(* One lemma for each action that may write.                               *)
(***************************************************************************)

\* After a flagging CAS the thread is in the help function for its own update.
LEMMA OwnHelp ==
  ASSUME TreeInv, NEW t \in Threads, NEW f \in FrameType,
         Moves(node, info, node', info'), Shared(node', info'), calls' = calls,
         local[t].pc # "idle", FrameView(node', info', f), NEW o \in Nat,
         local' = Turn(local, t, [local[t] EXCEPT !.pc = "help", !.own = o, !.help = <<f>>])
  PROVE  TreeInv'
<1> DEFINE me == local[t]
           r == [me EXCEPT !.pc = "help", !.own = o, !.help = <<f>>]
           U == node'
           E == info'
<1>1. /\ Shared(node, info) /\ calls \in [Threads -> 0..MaxCalls]
      /\ me \in LocalType /\ SearchView(node, info, me) /\ me.pc # "idle"
  BY Starts DEF LocalView
<1>2. Moves(node, info, U, E) /\ FrameView(U, E, f) /\ local' = Turn(local, t, r)
  OBVIOUS
<1> HIDE DEF me, U, E
<1>3. SearchView(U, E, me)
  BY <1>1, <1>2, SearchKept
<1>4. /\ r \in LocalType /\ r.pc = "help" /\ r.key = me.key /\ r.op = me.op
      /\ r.pupdate = me.pupdate /\ r.gpupdate = me.gpupdate /\ r.help = <<f>>
  <2>1. <<f>> \in Seq(FrameType)
    OBVIOUS
  <2> QED BY <1>1, <2>1 DEF LocalType
<1> HIDE DEF r
<1>5. r.help # <<>> /\ \A i \in DOMAIN r.help : FrameView(U, E, r.help[i])
  BY <1>2, <1>4
<1>6. LocalView(U, E, r)
  BY <1>1, <1>3, <1>4, <1>5, HelpingView
<1>7. LocalView(node', info', r)
  BY <1>6 DEF U, E
<1> QED BY <1>1, <1>2, <1>4, <1>7, Close

LEMMA FlagInsertStep ==
  ASSUME TreeInv, NEW t \in Threads, FlagInsert(t)
  PROVE  Moves(node, info, node', info') /\ TreeInv'
<1> DEFINE me == local[t]
           new == Len(node) + 3
           f == Frame("left", NewInfo, new)
<1>1. /\ Shared(node, info) /\ me \in LocalType /\ LocalView(node, info, me)
      /\ me.pc = "cas" /\ me.op = "insert" /\ calls' = calls
  BY Starts DEF FlagInsert
<1>2. SearchView(node, info, me)
  BY <1>1 DEF LocalView
<1>3. /\ IsInternal(node, me.p) /\ me.key \in AllKeys /\ me.l \in DOMAIN node
      /\ IsLeaf(node, me.l) /\ me.pupdate.flag = "clean"
      /\ ReadUnder(node, me.p, me.pupdate, me.key, me.l)
  BY <1>1, <1>2 DEF SearchView
<1>4. CASE /\ node[me.p].update = me.pupdate
           /\ node' = [node EXCEPT ![me.p].update = Word("iflag", NewInfo)]
                      \o NewNodes(node, me.l, me.key)
           /\ info' = Append(info, InsertInfo(me.p, me.l, new, me.key))
           /\ Become(t, [me EXCEPT !.pc = "help", !.own = NewInfo, !.help = <<f>>])
  <2> DEFINE U == node'
             E == info'
             o == Len(info) + 1
             d == InsertInfo(me.p, me.l, new, me.key)
  <2>1. FlagInsertWrite(node, info, U, E, me.p, me.pupdate, me.l, me.key)
    BY <1>3, <1>4 DEF FlagInsertWrite, WithWord, NewInfo
  <2>2. E = Append(info, d) /\ NewInfo = o
    BY <1>4 DEF NewInfo
  <2>3. /\ o \in Nat /\ new \in Nat /\ info \in Seq(InfoType)
        /\ local' = Turn(local, t, [me EXCEPT !.pc = "help", !.own = o, !.help = <<f>>])
    BY <1>1, <1>4, <2>2, Typed DEF Shared, Become, Turn
  <2> HIDE DEF U, E
  <2>4. Moves(node, info, U, E) /\ Shared(U, E)
    BY <1>1, <2>1, FlagInsertMoves
  <2>5. f \in FrameType /\ f.at = "left" /\ f.op = o /\ f.other = new
    BY <2>2, <2>3 DEF Frame, FrameType
  <2>6. o \in DOMAIN E /\ E[o] = d /\ d.kind = "insert" /\ d.new = new
    <3>1. d.kind = "insert" /\ d.new = new
      BY DEF InsertInfo
    <3> HIDE DEF d
    <3>2. Len(E) = Len(info) + 1 /\ DOMAIN E = 1..Len(E) /\ E[o] = d /\ o \in 1..o
      BY <2>2, <2>3
    <3> QED BY <3>1, <3>2
  <2> HIDE DEF f, new, o, d
  <2>7. FrameView(U, E, f)
    BY <2>5, <2>6 DEF FrameView
  <2> QED BY <1>1, <2>3, <2>4, <2>5, <2>7, OwnHelp DEF U, E
<1>5. CASE /\ node[me.p].update # me.pupdate /\ Help(t, node[me.p].update)
           /\ UNCHANGED <<node, info>>
  <2>1. WordMeans(node, info, node[me.p].update)
    BY <1>1, <1>3, WordFacts DEF IsInternal
  <2> QED BY <1>1, <1>5, <2>1, HelpStep
<1> QED BY <1>4, <1>5 DEF FlagInsert

LEMMA FlagDeleteStep ==
  ASSUME TreeInv, NEW t \in Threads, FlagDelete(t)
  PROVE  Moves(node, info, node', info') /\ TreeInv'
<1> DEFINE me == local[t]
           f == Frame("mark", NewInfo, 0)
<1>1. /\ Shared(node, info) /\ me \in LocalType /\ LocalView(node, info, me)
      /\ me.pc = "cas" /\ me.op = "delete" /\ calls' = calls
  BY Starts DEF FlagDelete
<1>2. SearchView(node, info, me)
  BY <1>1 DEF LocalView
<1>3. /\ me.key \in AllKeys /\ me.l \in DOMAIN node /\ IsLeaf(node, me.l)
      /\ me.pupdate.flag = "clean" /\ WordMeans(node, info, me.pupdate)
      /\ ReadUnder(node, me.p, me.pupdate, me.key, me.l)
      /\ me.gpupdate.flag = "clean" /\ ReadUnder(node, me.gp, me.gpupdate, me.key, me.p)
  BY <1>1, <1>2 DEF SearchView
<1>4. CASE /\ node[me.gp].update = me.gpupdate
           /\ node' = [node EXCEPT ![me.gp].update = Word("dflag", NewInfo)]
           /\ info' = Append(info, DeleteInfo(me.gp, me.p, me.l, me.pupdate, me.key))
           /\ Become(t, [me EXCEPT !.pc = "help", !.own = NewInfo, !.help = <<f>>])
  <2> DEFINE U == node'
             E == info'
             o == Len(info) + 1
             d == DeleteInfo(me.gp, me.p, me.l, me.pupdate, me.key)
  <2>1. FlagDeleteWrite(node, info, U, E, me.gp, me.gpupdate, me.p, me.pupdate, me.l, me.key)
    BY <1>3, <1>4 DEF FlagDeleteWrite, WithWord, NewInfo
  <2>2. E = Append(info, d) /\ NewInfo = o
    BY <1>4 DEF NewInfo
  <2>3. /\ o \in Nat /\ info \in Seq(InfoType)
        /\ local' = Turn(local, t, [me EXCEPT !.pc = "help", !.own = o, !.help = <<f>>])
    BY <1>1, <1>4, <2>2, Typed DEF Shared, Become, Turn
  <2> HIDE DEF U, E
  <2>4. Moves(node, info, U, E) /\ Shared(U, E)
    BY <1>1, <2>1, FlagDeleteMoves
  <2>5. f \in FrameType /\ f.at = "mark" /\ f.op = o
    BY <2>2, <2>3 DEF Frame, FrameType
  <2>6. o \in DOMAIN E /\ E[o] = d /\ d.kind = "delete"
    <3>1. d.kind = "delete"
      BY DEF DeleteInfo
    <3> HIDE DEF d
    <3>2. Len(E) = Len(info) + 1 /\ DOMAIN E = 1..Len(E) /\ E[o] = d /\ o \in 1..o
      BY <2>2, <2>3
    <3> QED BY <3>1, <3>2
  <2> HIDE DEF f, o, d
  <2>7. FrameView(U, E, f)
    BY <2>5, <2>6 DEF FrameView
  <2> QED BY <1>1, <2>3, <2>4, <2>5, <2>7, OwnHelp DEF U, E
<1>5. CASE /\ node[me.gp].update # me.gpupdate /\ Help(t, node[me.gp].update)
           /\ UNCHANGED <<node, info>>
  <2>1. WordMeans(node, info, node[me.gp].update)
    BY <1>1, <1>3, WordFacts DEF IsInternal, ReadUnder, Since
  <2> QED BY <1>1, <1>5, <2>1, HelpStep
<1> QED BY <1>4, <1>5 DEF FlagDelete

(***************************************************************************)
(* The help functions.  A step changes the innermost frame.                *)
(***************************************************************************)
WithTop(me, g) == [me EXCEPT !.help = [me.help EXCEPT ![1] = g]]

LEMMA TopView ==
  ASSUME NEW T, NEW D, NEW me \in LocalType, LocalView(T, D, me), me.pc = "help",
         NEW g \in FrameType, FrameView(T, D, g), NEW r, r = WithTop(me, g)
  PROVE  r \in LocalType /\ LocalView(T, D, r)
<1>1. /\ me.help \in Seq(FrameType) /\ me.help # <<>> /\ SearchView(T, D, me)
      /\ \A i \in DOMAIN me.help : FrameView(T, D, me.help[i])
  BY DEF LocalView, LocalType
<1>2. 1 \in DOMAIN me.help
  BY <1>1
<1> DEFINE h == [me.help EXCEPT ![1] = g]
<1>3. /\ h \in Seq(FrameType) /\ h # <<>> /\ DOMAIN h = DOMAIN me.help /\ h[1] = g
      /\ \A i \in DOMAIN me.help : i # 1 => h[i] = me.help[i]
  BY <1>1, <1>2
<1>4. r = [me EXCEPT !.help = h]
  BY DEF WithTop
<1> HIDE DEF h
<1>5. /\ r \in LocalType /\ r.pc = "help" /\ r.key = me.key /\ r.op = me.op
      /\ r.pupdate = me.pupdate /\ r.gpupdate = me.gpupdate /\ r.help = h
  BY <1>3, <1>4 DEF LocalType
<1>6. r.help # <<>> /\ \A i \in DOMAIN r.help : FrameView(T, D, r.help[i])
  BY <1>1, <1>3, <1>5
<1>7. LocalView(T, D, r)
  BY <1>1, <1>5, <1>6, HelpingView
<1> QED BY <1>5, <1>7

LEMMA TopStep ==
  ASSUME TreeInv, NEW t \in Threads, NEW g \in FrameType,
         Moves(node, info, node', info'), Shared(node', info'), calls' = calls,
         local[t].pc = "help", FrameView(node', info', g),
         local' = Turn(local, t, WithTop(local[t], g))
  PROVE  TreeInv'
<1> DEFINE me == local[t]
           r == WithTop(me, g)
           U == node'
           E == info'
<1>1. /\ Shared(node, info) /\ calls \in [Threads -> 0..MaxCalls] /\ me \in LocalType
      /\ LocalView(node, info, me) /\ me.pc = "help"
      /\ Moves(node, info, U, E) /\ FrameView(U, E, g)
  BY Starts
<1> HIDE DEF me, r, U, E
<1>2. LocalView(U, E, me)
  BY <1>1, LocalKept
<1>3. r \in LocalType /\ LocalView(U, E, r)
  BY <1>1, <1>2, TopView DEF r
<1>4. r \in LocalType /\ LocalView(node', info', r) /\ local' = Turn(local, t, r)
  BY <1>3 DEF me, r, U, E
<1> QED BY <1>1, <1>4, Close

LEMMA TopStill ==
  ASSUME TreeInv, NEW t \in Threads, NEW g \in FrameType, UNCHANGED <<node, info, calls>>,
         local[t].pc = "help", FrameView(node, info, g),
         local' = Turn(local, t, WithTop(local[t], g))
  PROVE  Moves(node, info, node', info') /\ TreeInv'
<1>1. Shared(node, info)
  BY Starts
<1>2. Moves(node, info, node', info') /\ Shared(node', info') /\ FrameView(node', info', g)
  BY <1>1, Still, SMTT(30)
<1> QED BY <1>2, TopStep

\* The frame a help function works in.
LEMMA TopFrame ==
  ASSUME TreeInv, NEW t \in Threads, NEW at, Helping(t, at),
         NEW f, f = Head(local[t].help)
  PROVE  /\ f \in FrameType /\ f.at = at /\ f = local[t].help[1]
         /\ FrameView(node, info, f) /\ f.op = TopOp(t) /\ f.op \in DOMAIN info
         /\ Descriptor(t) = info[f.op] /\ local[t].pc = "help" /\ f.op \in Nat
         /\ Shared(node, info)
<1>1. /\ Shared(node, info) /\ local[t] \in LocalType /\ LocalView(node, info, local[t])
      /\ local[t].pc = "help"
  BY Starts DEF Helping
<1>2. local[t].help \in Seq(FrameType) /\ local[t].help # <<>>
  BY <1>1 DEF LocalType, LocalView
<1>3. f = local[t].help[1] /\ 1 \in DOMAIN local[t].help /\ f \in FrameType
  BY <1>2
<1>4. FrameView(node, info, f)
  BY <1>1, <1>3 DEF LocalView
<1> QED BY <1>1, <1>3, <1>4 DEF Helping, TopOp, Descriptor, FrameType, FrameView

\* The top frame goes on to another point of its function.
At(f, at) == [f EXCEPT !.at = at]

LEMMA AdvanceIs ==
  ASSUME TreeInv, NEW t \in Threads, local[t].pc = "help", NEW at, Advance(t, at)
  PROVE  local' = Turn(local, t, WithTop(local[t], At(local[t].help[1], at)))
<1>1. /\ local \in [Threads -> LocalType] /\ local[t] \in LocalType
      /\ LocalView(node, info, local[t])
  BY Starts
<1>2. local[t].help \in Seq(FrameType) /\ local[t].help # <<>>
  BY <1>1 DEF LocalType, LocalView
<1>3. 1 \in DOMAIN local[t].help /\ local[t].help[1] \in FrameType
  BY <1>2
<1> QED BY <1>1, <1>2, <1>3 DEF Advance, Turn, WithTop, At

LEMMA AtIs ==
  ASSUME NEW f \in FrameType,
         NEW at \in {"mark", "other", "left", "lookRight", "casLeft", "casRight", "unflag", "backoff"}
  PROVE  /\ At(f, at) \in FrameType /\ At(f, at).at = at
         /\ At(f, at).op = f.op /\ At(f, at).other = f.other
  BY DEF At, FrameType

LEMMA StackStep ==
  ASSUME TreeInv, NEW t \in Threads, NEW h \in Seq(FrameType), h # <<>>,
         Moves(node, info, node', info'), Shared(node', info'), calls' = calls,
         local[t].pc = "help", \A i \in DOMAIN h : FrameView(node', info', h[i]),
         local' = Turn(local, t, [local[t] EXCEPT !.help = h])
  PROVE  TreeInv'
<1> DEFINE me == local[t]
           r == [me EXCEPT !.help = h]
           U == node'
           E == info'
<1>1. /\ Shared(node, info) /\ calls \in [Threads -> 0..MaxCalls] /\ me \in LocalType
      /\ SearchView(node, info, me) /\ me.pc = "help"
  BY Starts DEF LocalView
<1>2. /\ Moves(node, info, U, E) /\ \A i \in DOMAIN h : FrameView(U, E, h[i])
      /\ local' = Turn(local, t, r)
  OBVIOUS
<1> HIDE DEF me, U, E
<1>3. SearchView(U, E, me)
  BY <1>1, <1>2, SearchKept
<1>4. /\ r \in LocalType /\ r.pc = "help" /\ r.key = me.key /\ r.op = me.op
      /\ r.pupdate = me.pupdate /\ r.gpupdate = me.gpupdate /\ r.help = h
  BY <1>1 DEF LocalType
<1> HIDE DEF r
<1>5. LocalView(U, E, r)
  BY <1>1, <1>2, <1>3, <1>4, HelpingView
<1>6. LocalView(node', info', r)
  BY <1>5 DEF U, E
<1> QED BY <1>1, <1>2, <1>4, <1>6, Close

\* Two stacks of frames, one upon the other.
Frames(T, D, h) == h \in Seq(FrameType) /\ \A i \in DOMAIN h : FrameView(T, D, h[i])

LEMMA Stacked ==
  ASSUME NEW T, NEW D, NEW g, NEW h, Frames(T, D, g), Frames(T, D, h)
  PROVE  /\ Frames(T, D, Join(g, h))
         /\ g # <<>> \/ h # <<>> => Join(g, h) # <<>>
<1> DEFINE k == Join(g, h)
<1>0. /\ g \in Seq(FrameType) /\ h \in Seq(FrameType)
      /\ \A i \in DOMAIN g : FrameView(T, D, g[i])
      /\ \A i \in DOMAIN h : FrameView(T, D, h[i])
  BY DEF Frames
<1>1. /\ k \in Seq(FrameType) /\ Len(k) = Len(g) + Len(h)
      /\ \A i \in 1..Len(g) + Len(h) : k[i] = IF i <= Len(g) THEN g[i] ELSE h[i - Len(g)]
  BY <1>0, ConcatProperties DEF Join
<1> DEFINE m == Len(g)
           n == Len(h)
<1>2. /\ m \in Nat /\ n \in Nat /\ DOMAIN k = 1..m + n /\ DOMAIN g = 1..m /\ DOMAIN h = 1..n
      /\ \A i \in 1..m + n : k[i] = IF i <= m THEN g[i] ELSE h[i - m]
  BY <1>0, <1>1
<1>3. g # <<>> \/ h # <<>> => k # <<>>
  <2>1. (g # <<>> => Len(g) # 0) /\ (h # <<>> => Len(h) # 0)
    BY <1>0
  <2>2. Len(<<>>) = 0
    OBVIOUS
  <2>3. Len(g) \in Nat /\ Len(h) \in Nat
    BY <1>0
  <2> QED BY <1>1, <2>1, <2>2, <2>3
<1> HIDE DEF k, m, n
<1>4. ASSUME NEW i \in DOMAIN k PROVE FrameView(T, D, k[i])
  <2>1. CASE i <= m
    <3>1. i \in DOMAIN g /\ k[i] = g[i]
      BY <1>2, <2>1
    <3> QED BY <1>0, <3>1
  <2>2. CASE ~(i <= m)
    <3>1. i - m \in DOMAIN h /\ k[i] = h[i - m]
      BY <1>2, <2>2
    <3> QED BY <1>0, <3>1
  <2> QED BY <2>1, <2>2
<1>5. Frames(T, D, k)
  BY <1>1, <1>4 DEF Frames
<1> QED BY <1>3, <1>5 DEF k

LEMMA Unstacked ==
  ASSUME NEW T, NEW D, NEW h, Frames(T, D, h), h # <<>>
  PROVE  Frames(T, D, Tail(h)) /\ (Len(h) > 1 => Tail(h) # <<>>)
<1>0. h \in Seq(FrameType) /\ \A i \in DOMAIN h : FrameView(T, D, h[i])
  BY DEF Frames
<1>1. /\ Tail(h) \in Seq(FrameType) /\ Len(Tail(h)) = Len(h) - 1 /\ Len(h) \in Nat
      /\ \A i \in 1..Len(Tail(h)) : Tail(h)[i] = h[i + 1]
  BY <1>0
<1>2. ASSUME NEW i \in DOMAIN Tail(h) PROVE FrameView(T, D, Tail(h)[i])
  <2>1. i \in 1..Len(Tail(h)) /\ i + 1 \in DOMAIN h
    BY <1>0, <1>1
  <2> QED BY <1>0, <1>1, <2>1
<1>3. Len(h) > 1 => Len(Tail(h)) # 0
  BY <1>1
<1>4. Len(<<>>) = 0
  OBVIOUS
<1> QED BY <1>1, <1>2, <1>3, <1>4 DEF Frames

LEMMA HelpFrames ==
  ASSUME TreeInv, NEW t \in Threads, local[t].pc = "help"
  PROVE  Frames(node, info, local[t].help) /\ local[t].help # <<>>
  BY Starts, SMTT(30) DEF LocalType, LocalView, Frames

LEMMA MarkStep ==
  ASSUME TreeInv, NEW t \in Threads, Mark(t)
  PROVE  Moves(node, info, node', info') /\ TreeInv'
<1> DEFINE me == local[t]
           f == Head(me.help)
           o == TopOp(t)
           d == info[o]
           result == node[d.p].update
           marked == Word("mark", o)
<1>1. /\ Helping(t, "mark") /\ info' = info /\ calls' = calls
      /\ d = Descriptor(t)
  BY Zenon DEF Mark, Descriptor
<1>2. /\ f \in FrameType /\ f.at = "mark" /\ f = me.help[1] /\ f.op = o
      /\ FrameView(node, info, f) /\ o \in DOMAIN info /\ me.pc = "help" /\ Shared(node, info)
  BY <1>1, TopFrame
<1>3. d.kind = "delete" /\ o \in DOMAIN info
  BY <1>2 DEF FrameView
<1>4. CASE /\ result = d.pupdate /\ node' = [node EXCEPT ![d.p].update = marked]
           /\ Advance(t, "other")
  <2> DEFINE U == node'
             E == info'
             g == At(f, "other")
  <2>1. MarkWrite(node, info, U, E, o)
    BY <1>1, <1>3, <1>4 DEF MarkWrite, WithWord
  <2>2. local' = Turn(local, t, WithTop(me, g))
    BY <1>2, <1>4, AdvanceIs
  <2>3. g \in FrameType /\ g.at = "other" /\ g.op = o
    BY <1>2, AtIs
  <2>4. U[d.p].update = marked
    <3>1. d.p \in DOMAIN node /\ node[d.p] \in NodeType
      BY <1>2, <1>3, DeleteFacts, Typed DEF DeleteView, Since, IsInternal
    <3> QED BY <1>4, <3>1 DEF NodeType
  <2> HIDE DEF U, g
  <2>5. Moves(node, info, U, E) /\ Shared(U, E)
    BY <1>2, <2>1, MarkMoves
  <2>6. FrameView(U, E, g)
    BY <1>1, <1>3, <2>3, <2>4 DEF FrameView
  <2> QED BY <1>1, <1>2, <2>2, <2>3, <2>5, <2>6, TopStep DEF U
<1>5. CASE result = marked /\ Advance(t, "other") /\ UNCHANGED node
  <2> DEFINE g == At(f, "other")
  <2>1. local' = Turn(local, t, WithTop(me, g))
    BY <1>2, <1>5, AdvanceIs
  <2>2. g \in FrameType /\ g.at = "other" /\ g.op = o
    BY <1>2, AtIs
  <2> HIDE DEF g
  <2>3. FrameView(node, info, g)
    BY <1>3, <1>5, <2>2 DEF FrameView
  <2> QED BY <1>1, <1>2, <1>5, <2>1, <2>2, <2>3, TopStill
<1>6. CASE /\ result # d.pupdate /\ result # marked /\ UNCHANGED node
           /\ local' = [local EXCEPT ![t].help =
                FrameFor(result) \o <<[Head(@) EXCEPT !.at = "backoff"]>> \o Tail(@)]
  <2> DEFINE g == At(f, "backoff")
             h == Join(FrameFor(result), <<g>>)
             k == Join(h, Tail(me.help))
  <2>1. local' = Turn(local, t, [me EXCEPT !.help = k])
    BY <1>6 DEF Turn, Join, At
  <2>2. g \in FrameType /\ g.at = "backoff" /\ g.op = o
    BY <1>2, AtIs
  <2> HIDE DEF g
  <2>3. FrameView(node, info, g)
    BY <1>3, <1>6, <2>2 DEF FrameView, MayMark
  <2>4. WordMeans(node, info, result)
    BY <1>2, <1>3, DeleteFacts, WordFacts DEF DeleteView, Since, IsInternal
  <2>5. Frames(node, info, FrameFor(result))
    BY <1>2, <2>4, FrameForView DEF Frames
  <2>6. Frames(node, info, <<g>>) /\ <<g>> # <<>>
    BY <2>2, <2>3 DEF Frames
  <2>7. Frames(node, info, h) /\ h # <<>>
    BY <2>5, <2>6, Stacked
  <2>8. Frames(node, info, Tail(me.help))
    BY <1>2, HelpFrames, Unstacked
  <2> HIDE DEF h
  <2>9. Frames(node, info, k) /\ k # <<>>
    BY <2>7, <2>8, Stacked
  <2> HIDE DEF k
  <2>10. Moves(node, info, node', info') /\ Shared(node', info')
    BY <1>1, <1>2, <1>6, Still
  <2>11. k \in Seq(FrameType) /\ \A i \in DOMAIN k : FrameView(node', info', k[i])
    BY <1>1, <1>6, <2>9 DEF Frames
  <2> QED BY <1>1, <1>2, <2>1, <2>9, <2>10, <2>11, StackStep, SMTT(30)
<1> QED BY <1>1, <1>4, <1>5, <1>6, ZenonT(40) DEF Mark

LEMMA ReadOtherStep ==
  ASSUME TreeInv, NEW t \in Threads, ReadOther(t)
  PROVE  Moves(node, info, node', info') /\ TreeInv'
<1> DEFINE me == local[t]
           f == Head(me.help)
           o == TopOp(t)
           d == info[o]
           c == IF node[d.p].right = d.l THEN node[d.p].left ELSE node[d.p].right
           g == Frame("left", o, c)
<1>1. Helping(t, "other") /\ UNCHANGED <<node, info, calls>> /\ d = Descriptor(t)
  BY DEF ReadOther, Descriptor
<1>2. /\ f \in FrameType /\ f.at = "other" /\ f = me.help[1] /\ f.op = o /\ o \in Nat
      /\ FrameView(node, info, f) /\ o \in DOMAIN info /\ me.pc = "help" /\ Shared(node, info)
  BY <1>1, TopFrame
<1>3. d.kind = "delete" /\ node[d.p].update = Word("mark", o)
  BY <1>2 DEF FrameView
<1>4. local' = Turn(local, t, WithTop(me, g))
  <2>1. local' = [local EXCEPT ![t].help[1] = Frame("left", @.op, c)]
    BY <1>1 DEF ReadOther
  <2> HIDE DEF c
  <2>2. /\ local \in [Threads -> LocalType] /\ me.help \in Seq(FrameType) /\ me.help # <<>>
        /\ me \in LocalType
    BY <1>2, Starts, HelpFrames DEF LocalType
  <2>3. 1 \in DOMAIN me.help /\ me.help[1].op = o
    BY <1>2, <2>2
  <2> QED BY <2>1, <2>2, <2>3 DEF Turn, WithTop
<1>5. /\ IsInternal(node, d.p) /\ Kids(node, d.p) \subseteq DOMAIN node
      /\ node[d.p].left # node[d.p].right
  <2>1. IsInternal(node, d.p)
    BY <1>2, <1>3, DeleteFacts DEF DeleteView, Since
  <2> QED BY <1>2, <2>1 DEF Shared, Shape, Binary, IsInternal
<1>6. c \in Kids(node, d.p) \ {d.l}
  BY <1>5 DEF Kids
<1>7. c \in Nat
  BY <1>2, <1>5, <1>6, Typed
<1> HIDE DEF c
<1>8. g \in FrameType /\ g.at = "left" /\ g.op = o /\ g.other = c
  BY <1>2, <1>7 DEF Frame, FrameType
<1> HIDE DEF g
<1>9. FrameView(node, info, g)
  BY <1>2, <1>3, <1>6, <1>8 DEF FrameView
<1> QED BY <1>1, <1>2, <1>4, <1>8, <1>9, TopStill

\* The old child is on one side of the parent as long as the update is not done,
\* and on neither when it is.
LEMMA OldSide ==
  ASSUME NEW T, NEW D, Shared(T, D), NEW o \in DOMAIN D
  PROVE  /\ D[o].done => Old(D[o]) \notin Kids(T, Parent(D[o]))
         /\ ~D[o].done /\ (D[o].kind = "insert" \/ MayMark(T, D, o)) =>
              \/ T[Parent(D[o])].left = Old(D[o])
              \/ T[Parent(D[o])].right = Old(D[o])
<1>1. CASE D[o].kind = "insert"
  BY <1>1, InsertFacts DEF InsertView, Parent, Old, ChildFor
<1>2. CASE D[o].kind = "delete"
  BY <1>2, DeleteFacts DEF DeleteView, Parent, Old, ChildFor
<1> QED BY <1>1, <1>2, Kinds

\* What the child CAS needs to know from its frame.
ChildKnown(T, D, o, c) ==
  IF D[o].kind = "insert" THEN c = D[o].new
  ELSE T[D[o].p].update = Word("mark", o) /\ c \in Kids(T, D[o].p) \ {D[o].l}

LEMMA ChildFrame ==
  ASSUME TreeInv, NEW t \in Threads, NEW at \in {"left", "lookRight", "casLeft", "casRight"},
         Helping(t, at), NEW f, f = Head(local[t].help), NEW o, o = TopOp(t)
  PROVE  /\ f \in FrameType /\ f.at = at /\ f = local[t].help[1] /\ f.op = o
         /\ o \in DOMAIN info /\ Descriptor(t) = info[o] /\ local[t].pc = "help"
         /\ Shared(node, info) /\ FrameView(node, info, f)
         /\ ChildKnown(node, info, o, f.other)
         /\ info[o].kind = "insert" \/ MayMark(node, info, o)
<1>1. /\ f \in FrameType /\ f.at = at /\ f = local[t].help[1] /\ f.op = o
      /\ o \in DOMAIN info /\ Descriptor(t) = info[o] /\ local[t].pc = "help"
      /\ Shared(node, info) /\ FrameView(node, info, f)
  BY TopFrame
<1>2. ChildKnown(node, info, o, f.other)
  BY <1>1 DEF FrameView, ChildKnown
<1>3. info[o].kind = "insert" \/ MayMark(node, info, o)
  BY <1>2 DEF ChildKnown, MayMark
<1> QED BY <1>1, <1>2, <1>3

\* The frame goes on to at, where it knows what it needs.
LEMMA GoOn ==
  ASSUME TreeInv, NEW t \in Threads, local[t].pc = "help", UNCHANGED <<node, info, calls>>,
         NEW at \in {"lookRight", "casLeft", "casRight", "unflag"}, Advance(t, at),
         NEW f \in FrameType, f = local[t].help[1], NEW o, f.op = o, o \in DOMAIN info,
         ChildKnown(node, info, o, f.other),
         at = "casLeft" => info[o].done \/ node[Parent(info[o])].left = Old(info[o]),
         at \in {"lookRight", "casRight"} =>
           info[o].done \/ node[Parent(info[o])].right = Old(info[o]),
         at = "unflag" => info[o].done
  PROVE  Moves(node, info, node', info') /\ TreeInv'
<1> DEFINE g == At(f, at)
<1>1. local' = Turn(local, t, WithTop(local[t], g))
  BY AdvanceIs
<1>2. g \in FrameType /\ g.at = at /\ g.op = o /\ g.other = f.other
  BY AtIs
<1> HIDE DEF g
<1>3. FrameView(node, info, g)
  BY <1>2 DEF FrameView, ChildKnown
<1> QED BY <1>1, <1>2, <1>3, TopStill

LEMMA LookLeftStep ==
  ASSUME TreeInv, NEW t \in Threads, LookLeft(t)
  PROVE  Moves(node, info, node', info') /\ TreeInv'
<1> DEFINE f == Head(local[t].help)
           o == TopOp(t)
           d == info[o]
<1>1. Helping(t, "left") /\ UNCHANGED <<node, info, calls>>
  BY DEF LookLeft
<1>2. /\ f \in FrameType /\ f = local[t].help[1] /\ f.op = o
      /\ o \in DOMAIN info /\ Descriptor(t) = d /\ local[t].pc = "help"
      /\ Shared(node, info) /\ ChildKnown(node, info, o, f.other)
      /\ d.kind = "insert" \/ MayMark(node, info, o)
  BY <1>1, ChildFrame
<1>3. CASE node[Parent(d)].left = Old(d)
  <2>1. Advance(t, "casLeft")
    BY <1>2, <1>3 DEF LookLeft
  <2> HIDE DEF f, o
  <2> QED BY <1>1, <1>2, <1>3, <2>1, GoOn
<1>4. CASE node[Parent(d)].left # Old(d)
  <2>1. Advance(t, "lookRight")
    BY <1>2, <1>4 DEF LookLeft
  <2>2. d.done \/ node[Parent(d)].right = Old(d)
    BY <1>2, <1>4, OldSide
  <2> HIDE DEF f, o
  <2> QED BY <1>1, <1>2, <2>1, <2>2, GoOn
<1> QED BY <1>3, <1>4

LEMMA LookRightStep ==
  ASSUME TreeInv, NEW t \in Threads, LookRight(t)
  PROVE  Moves(node, info, node', info') /\ TreeInv'
<1> DEFINE f == Head(local[t].help)
           o == TopOp(t)
           d == info[o]
<1>1. Helping(t, "lookRight") /\ UNCHANGED <<node, info, calls>>
  BY DEF LookRight
<1>2. /\ f \in FrameType /\ f.at = "lookRight" /\ f = local[t].help[1] /\ f.op = o
      /\ o \in DOMAIN info /\ Descriptor(t) = d /\ local[t].pc = "help"
      /\ FrameView(node, info, f) /\ ChildKnown(node, info, o, f.other)
  BY <1>1, ChildFrame, SMTT(30)
<1>3. d.done \/ node[Parent(d)].right = Old(d)
  BY <1>2 DEF FrameView
<1>4. CASE node[Parent(d)].right = Old(d)
  <2>1. Advance(t, "casRight")
    BY <1>2, <1>4 DEF LookRight
  <2> HIDE DEF f, o
  <2> QED BY <1>1, <1>2, <1>4, <2>1, GoOn
<1>5. CASE node[Parent(d)].right # Old(d)
  <2>1. Advance(t, "unflag") /\ d.done
    BY <1>2, <1>3, <1>5 DEF LookRight
  <2> HIDE DEF f, o
  <2> QED BY <1>1, <1>2, <2>1, GoOn
<1> QED BY <1>4, <1>5

LEMMA CleanStep ==
  ASSUME TreeInv, NEW t \in Threads, NEW at \in {"unflag", "backoff"}, Helping(t, at),
         CleanWord(t)
  PROVE  Moves(node, info, node', info') /\ Shared(node', info') /\ local[t].pc = "help"
<1> DEFINE f == Head(local[t].help)
           o == TopOp(t)
           d == info[o]
           U == node'
           E == info'
<1>1. /\ f.at = at /\ f.op = o /\ o \in DOMAIN info /\ Descriptor(t) = d
      /\ Shared(node, info) /\ FrameView(node, info, f) /\ local[t].pc = "help"
  BY TopFrame
<1>2. d.done \/ (d.kind = "delete" /\ ~MayMark(node, info, o))
  BY <1>1 DEF FrameView
<1>3. CASE Flagged(node, info, o)
  <2>1. /\ U = WithWord(node, Parent(d), Clean(o)) /\ E = WithRetired(info, o)
    BY <1>1, <1>3 DEF CleanWord, Flagged, WithWord, WithRetired
  <2>2. CleanWrite(node, info, U, E, o)
    BY <1>1, <1>2, <1>3, <2>1 DEF CleanWrite
  <2> HIDE DEF U, E, o
  <2>3. Moves(node, info, U, E) /\ Shared(U, E)
    BY <1>1, <2>2, CleanMoves
  <2> QED BY <1>1, <2>3 DEF U, E
<1>4. CASE ~Flagged(node, info, o)
  <2>1. node' = node /\ info' = info
    BY <1>1, <1>4 DEF CleanWord, Flagged
  <2> QED BY <1>1, <2>1, Still
<1> QED BY <1>3, <1>4

LEMMA LeaveStep ==
  ASSUME TreeInv, NEW t \in Threads, local[t].pc = "help", NEW answer, LeaveHelp(t, answer),
         Moves(node, info, node', info'), Shared(node', info'), calls' = calls
  PROVE  TreeInv'
<1> DEFINE me == local[t]
           U == node'
           E == info'
<1>1. /\ Shared(node, info) /\ calls' \in [Threads -> 0..MaxCalls] /\ me \in LocalType
      /\ SearchView(node, info, me) /\ me.key \in AllKeys /\ me.op \in Ops
  BY Starts DEF LocalView, SearchView
<1>2. Frames(node, info, me.help) /\ me.help # <<>>
  BY HelpFrames
<1>3. CASE Len(me.help) > 1 /\ Become(t, [me EXCEPT !.help = Tail(me.help)])
  <2> DEFINE h == Tail(me.help)
  <2>1. local' = Turn(local, t, [me EXCEPT !.help = h])
    BY <1>3 DEF Become, Turn
  <2>2. Frames(node, info, h) /\ h # <<>>
    BY <1>2, <1>3, Unstacked
  <2> HIDE DEF h, U, E
  <2>3. h \in Seq(FrameType) /\ \A i \in DOMAIN h : FrameView(node, info, h[i])
    BY <2>2 DEF Frames
  <2>4. Moves(node, info, U, E)
    BY DEF U, E
  <2>5. \A i \in DOMAIN h : FrameView(U, E, h[i])
    BY <1>1, <2>3, <2>4, FrameKept
  <2>6. \A i \in DOMAIN h : FrameView(node', info', h[i])
    BY <2>5 DEF U, E
  <2> QED BY <2>1, <2>2, <2>3, <2>6, StackStep
<1>4. CASE Become(t, [me EXCEPT !.pc = "done", !.res = TRUE, !.help = <<>>])
  <2> DEFINE r == [me EXCEPT !.pc = "done", !.res = TRUE, !.help = <<>>]
  <2>1. local' = Turn(local, t, r)
    BY <1>4 DEF Become, Turn
  <2>2. /\ r \in LocalType /\ r.pc = "done" /\ r.key = me.key /\ r.op = me.op
        /\ r.pupdate = me.pupdate /\ r.gpupdate = me.gpupdate /\ r.help = <<>>
    <3>1. <<>> \in Seq(FrameType)
      OBVIOUS
    <3> QED BY <1>1, <3>1 DEF LocalType
  <2> HIDE DEF r, U, E
  <2>3. Moves(node, info, U, E)
    BY DEF U, E
  <2>4. SearchView(U, E, me)
    BY <1>1, <2>3, SearchKept
  <2>5. SearchView(U, E, r)
    BY <1>1, <2>2, <2>4 DEF SearchView
  <2>6. LocalView(U, E, r)
    BY <2>2, <2>5 DEF LocalView
  <2>7. LocalView(node', info', r)
    BY <2>6 DEF U, E
  <2> QED BY <1>1, <2>1, <2>2, <2>7, Close
<1>5. CASE Become(t, Restart(me))
  <2>1. local' = Turn(local, t, Restart(me))
    BY <1>5 DEF Become, Turn
  <2>2. Shared(U, E)
    OBVIOUS
  <2> HIDE DEF U, E
  <2>3. Restart(me) \in LocalType /\ LocalView(U, E, Restart(me))
    BY <1>1, <2>2, RestartView
  <2>4. LocalView(node', info', Restart(me))
    BY <2>3 DEF U, E
  <2> QED BY <1>1, <2>1, <2>3, <2>4, Close
<1> QED BY <1>3, <1>4, <1>5 DEF LeaveHelp

LEMMA UnflagStep ==
  ASSUME TreeInv, NEW t \in Threads, Unflag(t)
  PROVE  Moves(node, info, node', info') /\ TreeInv'
<1>1. Helping(t, "unflag") /\ CleanWord(t) /\ LeaveHelp(t, TRUE) /\ calls' = calls
  BY DEF Unflag
<1>2. Moves(node, info, node', info') /\ Shared(node', info') /\ local[t].pc = "help"
  BY <1>1, CleanStep
<1> QED BY <1>1, <1>2, LeaveStep

LEMMA BackoffStep ==
  ASSUME TreeInv, NEW t \in Threads, Backoff(t)
  PROVE  Moves(node, info, node', info') /\ TreeInv'
<1>1. Helping(t, "backoff") /\ CleanWord(t) /\ LeaveHelp(t, FALSE) /\ calls' = calls
  BY DEF Backoff
<1>2. Moves(node, info, node', info') /\ Shared(node', info') /\ local[t].pc = "help"
  BY <1>1, CleanStep
<1> QED BY <1>1, <1>2, LeaveStep

(***************************************************************************)
(* The child CAS also changes what the calls on its key have seen.         *)
(***************************************************************************)
WithLeft(T, n, c) == [T EXCEPT ![n].left = c]
WithRight(T, n, c) == [T EXCEPT ![n].right = c]
Retire(S, T, G) == [m \in S |-> IF m \in G THEN [T[m] EXCEPT !.retired = @ + 1] ELSE T[m]]

LEMMA SwungIs ==
  ASSUME NEW T, NEW D, Shared(T, D), NEW n \in DOMAIN T, NEW old, NEW c \in Nat, NEW G,
         NEW V, \/ T[n].left = old /\ V = WithLeft(T, n, c)
                \/ T[n].right = old /\ V = WithRight(T, n, c),
         NEW U, U = Retire(DOMAIN T, V, G)
  PROVE  Swung(T, U, n, old, c, G)
<1>1. T \in Seq(NodeType) /\ DOMAIN T = 1..Len(T) /\ Len(T) \in Nat
      /\ \A m \in DOMAIN T : T[m] \in NodeType
  BY Typed DEF Shared
<1>2. /\ \A m \in DOMAIN T :
           /\ V[m] \in NodeType /\ V[m].key = T[m].key
           /\ V[m].update = T[m].update /\ V[m].retired = T[m].retired
           /\ m # n => V[m].left = T[m].left /\ V[m].right = T[m].right
      /\ \/ T[n].left = old /\ V[n].left = c /\ V[n].right = T[n].right
         \/ T[n].right = old /\ V[n].right = c /\ V[n].left = T[n].left
  <2>1. CASE T[n].left = old /\ V = WithLeft(T, n, c)
    <3>1. V[n] = [T[n] EXCEPT !.left = c] /\ \A m \in DOMAIN T : m # n => V[m] = T[m]
      BY <2>1 DEF WithLeft
    <3>2. /\ V[n] \in NodeType /\ V[n].key = T[n].key /\ V[n].update = T[n].update
          /\ V[n].retired = T[n].retired /\ V[n].left = c /\ V[n].right = T[n].right
      BY <1>1, <3>1 DEF NodeType
    <3> QED BY <1>1, <2>1, <3>1, <3>2
  <2>2. CASE T[n].right = old /\ V = WithRight(T, n, c)
    <3>1. V[n] = [T[n] EXCEPT !.right = c] /\ \A m \in DOMAIN T : m # n => V[m] = T[m]
      BY <2>2 DEF WithRight
    <3>2. /\ V[n] \in NodeType /\ V[n].key = T[n].key /\ V[n].update = T[n].update
          /\ V[n].retired = T[n].retired /\ V[n].right = c /\ V[n].left = T[n].left
      BY <1>1, <3>1 DEF NodeType
    <3> QED BY <1>1, <2>2, <3>1, <3>2
  <2> QED BY <2>1, <2>2
<1>3. DOMAIN U = DOMAIN T
  BY DEF Retire
<1>4. ASSUME NEW m \in DOMAIN T
      PROVE  /\ U[m] \in NodeType /\ U[m].key = V[m].key /\ U[m].update = V[m].update
             /\ U[m].retired = IF m \in G THEN V[m].retired + 1 ELSE V[m].retired
             /\ U[m].left = V[m].left /\ U[m].right = V[m].right
  <2> DEFINE r == V[m].retired + 1
  <2>1. V[m] \in NodeType
    BY <1>2
  <2>2. r \in Nat /\ U[m] = IF m \in G THEN [V[m] EXCEPT !.retired = r] ELSE V[m]
    BY <2>1 DEF NodeType, Retire
  <2> HIDE DEF r
  <2>3. /\ U[m] \in NodeType /\ U[m].key = V[m].key /\ U[m].update = V[m].update
        /\ U[m].retired = IF m \in G THEN r ELSE V[m].retired
        /\ U[m].left = V[m].left /\ U[m].right = V[m].right
    BY <2>1, <2>2 DEF NodeType
  <2> QED BY <2>3 DEF r
<1>5. U \in Seq(NodeType) /\ Len(U) = Len(T)
  <2>1. U \in [1..Len(T) -> NodeType]
    BY <1>1, <1>3, <1>4 DEF Retire
  <2> QED BY <1>1, <2>1
<1> QED BY <1>2, <1>3, <1>4, <1>5 DEF Swung

LEMMA WitnessView ==
  ASSUME NEW T, NEW D, NEW me \in LocalType, LocalView(T, D, me), NEW d,
         NEW r, r = Witness(me, d)
  PROVE  r \in LocalType /\ LocalView(T, D, r) /\ r.pc = me.pc /\ r.help = me.help
<1> DEFINE S == IF me.key = d.key /\ me.pc # "done"
                THEN me.seen \cup {d.kind = "insert"} ELSE me.seen
<1>1. S \in SUBSET BOOLEAN
  <2>1. me.seen \in SUBSET BOOLEAN
    BY DEF LocalType
  <2>2. (d.kind = "insert") \in BOOLEAN
    OBVIOUS
  <2> QED BY <2>1, <2>2
<1>2. r = [me EXCEPT !.seen = S]
  BY DEF Witness
<1> HIDE DEF S
<1>3. /\ r \in LocalType /\ r.pc = me.pc /\ r.op = me.op /\ r.key = me.key /\ r.gp = me.gp
      /\ r.gpupdate = me.gpupdate /\ r.p = me.p /\ r.pupdate = me.pupdate /\ r.l = me.l
      /\ r.help = me.help
  BY <1>1, <1>2 DEF LocalType
<1>4. SearchView(T, D, r)
  BY <1>3 DEF SearchView, LocalView
<1> QED BY <1>3, <1>4 DEF LocalView

LEMMA ChangedLocals ==
  ASSUME TreeInv, NEW t \in Threads, local[t].pc = "help", NEW V, ChildChanged(t, V),
         NEW f \in FrameType, f = local[t].help[1]
  PROVE  /\ local' = [u \in Threads |-> local'[u]]
         /\ \A u \in Threads : u # t => local'[u] = Witness(local[u], Descriptor(t))
         /\ local'[t] = WithTop(Witness(local[t], Descriptor(t)), At(f, "unflag"))
<1> DEFINE w(u) == Witness(local[u], Descriptor(t))
<1>1. local' = [u \in Threads |->
                  IF u = t THEN [w(u) EXCEPT !.help[1].at = "unflag"] ELSE w(u)]
  BY DEF ChildChanged
<1>2. w(t) \in LocalType /\ w(t).help = local[t].help
  BY Starts, WitnessView
<1> HIDE DEF w
<1>3. /\ local' = [u \in Threads |-> local'[u]]
      /\ \A u \in Threads : u # t => local'[u] = w(u)
      /\ local'[t] = [w(t) EXCEPT !.help[1].at = "unflag"]
  BY <1>1
<1>4. [w(t) EXCEPT !.help[1].at = "unflag"] = WithTop(w(t), At(f, "unflag"))
  BY <1>2 DEF WithTop, At
<1> QED BY <1>3, <1>4 DEF w

LEMMA ChildStep ==
  ASSUME TreeInv, NEW t \in Threads, NEW at \in {"casLeft", "casRight"}, Helping(t, at),
         NEW o, o = TopOp(t), NEW d, d = info[o],
         NEW f, f = Head(local[t].help), NEW V, ChildChanged(t, V),
         \/ node[Parent(d)].left = Old(d) /\ V = WithLeft(node, Parent(d), f.other)
         \/ node[Parent(d)].right = Old(d) /\ V = WithRight(node, Parent(d), f.other),
         calls' = calls
  PROVE  Moves(node, info, node', info') /\ TreeInv'
<1> DEFINE me == local[t]
           U == node'
           E == info'
           g == At(f, "unflag")
<1>1. /\ f \in FrameType /\ f.op = o /\ f = me.help[1]
      /\ o \in DOMAIN info /\ Descriptor(t) = d /\ me.pc = "help"
      /\ Shared(node, info) /\ ChildKnown(node, info, o, f.other)
  BY ChildFrame
<1>2. U = Retire(DOMAIN node, V, Unlinked(d)) /\ E = WithDone(info, o)
  <2>1. /\ node' = [m \in DOMAIN node |->
                      IF m \in Unlinked(Descriptor(t)) THEN [V[m] EXCEPT !.retired = @ + 1]
                      ELSE V[m]]
        /\ info' = [info EXCEPT ![TopOp(t)].done = TRUE]
    BY DEF ChildChanged
  <2> QED BY <1>1, <2>1 DEF Retire, WithDone
<1>3. /\ local' = [u \in Threads |-> local'[u]]
      /\ \A u \in Threads : u # t => local'[u] = Witness(local[u], d)
      /\ local'[t] = WithTop(Witness(me, d), g)
  BY <1>1, ChangedLocals
<1>4. f.other \in Nat /\ Parent(d) \in DOMAIN node
  BY <1>1, ParentIsNode DEF FrameType
<1> HIDE DEF U, E
<1>5. Swung(node, U, Parent(d), Old(d), f.other, Unlinked(d))
  BY <1>1, <1>2, <1>4, SwungIs
<1>6. ChildWrite(node, info, U, E, o, f.other)
  BY <1>1, <1>2, <1>5 DEF ChildWrite, ChildKnown
<1>7. Moves(node, info, U, E) /\ Shared(U, E)
  BY <1>1, <1>6, ChildMoves
<1>8. E[o].done /\ o \in DOMAIN E
  <2>1. info \in Seq(InfoType)
    BY <1>1 DEF Shared
  <2> QED BY <1>1, <1>2, <2>1, SetDone
<1>9. g \in FrameType /\ g.at = "unflag" /\ g.op = o
  BY <1>1, AtIs
<1> HIDE DEF g
<1>10. FrameView(U, E, g)
  BY <1>8, <1>9 DEF FrameView
<1>11. ASSUME NEW u \in Threads, NEW r, r = Witness(local[u], d)
       PROVE  r \in LocalType /\ LocalView(U, E, r) /\ r.pc = local[u].pc
  <2>1. local[u] \in LocalType /\ LocalView(node, info, local[u])
    BY Starts
  <2>2. LocalView(U, E, local[u])
    BY <1>1, <1>7, <2>1, LocalKept
  <2> QED BY <1>11, <2>1, <2>2, WitnessView
<1>12. ASSUME NEW u \in Threads PROVE local'[u] \in LocalType /\ LocalView(U, E, local'[u])
  <2> DEFINE r == Witness(local[u], d)
             q == local'[u]
  <2>1. r \in LocalType /\ LocalView(U, E, r) /\ r.pc = local[u].pc
    BY <1>11
  <2>2. IF u = t THEN q = WithTop(r, g) /\ r.pc = "help" ELSE q = r
    BY <1>1, <1>3, <2>1
  <2> HIDE DEF q, r
  <2>3. q \in LocalType /\ LocalView(U, E, q)
    BY <1>9, <1>10, <2>1, <2>2, TopView
  <2> QED BY <2>3 DEF q
<1>13. TypeOK'
  <2>1. local' \in [Threads -> LocalType]
    BY <1>3, <1>12
  <2>2. calls' \in [Threads -> 0..MaxCalls]
    BY Starts
  <2> QED BY <1>7, <2>1, <2>2 DEF TypeOK, Shared, U, E
<1> QED BY <1>7, <1>12, <1>13 DEF TreeInv, U, E

LEMMA CasLeftStep ==
  ASSUME TreeInv, NEW t \in Threads, CasLeft(t)
  PROVE  Moves(node, info, node', info') /\ TreeInv'
<1> DEFINE f == Head(local[t].help)
           o == TopOp(t)
           d == info[o]
<1>1. Helping(t, "casLeft") /\ UNCHANGED calls
  BY DEF CasLeft
<1>2. /\ f \in FrameType /\ f.at = "casLeft" /\ f = local[t].help[1] /\ f.op = o
      /\ o \in DOMAIN info /\ Descriptor(t) = d /\ local[t].pc = "help"
      /\ FrameView(node, info, f) /\ ChildKnown(node, info, o, f.other)
  BY <1>1, ChildFrame
<1>3. CASE node[Parent(d)].left = Old(d)
  <2> DEFINE V == WithLeft(node, Parent(d), f.other)
  <2>1. ChildChanged(t, V)
    BY <1>2, <1>3 DEF CasLeft, WithLeft
  <2> HIDE DEF V, f, o, d
  <2>2. V = WithLeft(node, Parent(d), f.other) /\ f = Head(local[t].help) /\ o = TopOp(t)
        /\ d = info[o]
    BY DEF V, f, o, d
  <2> QED BY <1>1, <1>3, <2>1, <2>2, ChildStep
<1>4. CASE node[Parent(d)].left # Old(d)
  <2>1. Advance(t, "unflag") /\ UNCHANGED <<node, info>>
    BY <1>2, <1>4 DEF CasLeft
  <2>2. d.done
    BY <1>2, <1>4 DEF FrameView
  <2> HIDE DEF f, o
  <2> QED BY <1>1, <1>2, <2>1, <2>2, GoOn
<1> QED BY <1>3, <1>4

LEMMA CasRightStep ==
  ASSUME TreeInv, NEW t \in Threads, CasRight(t)
  PROVE  Moves(node, info, node', info') /\ TreeInv'
<1> DEFINE f == Head(local[t].help)
           o == TopOp(t)
           d == info[o]
<1>1. Helping(t, "casRight") /\ UNCHANGED calls
  BY DEF CasRight
<1>2. /\ f \in FrameType /\ f.at = "casRight" /\ f = local[t].help[1] /\ f.op = o
      /\ o \in DOMAIN info /\ Descriptor(t) = d /\ local[t].pc = "help"
      /\ FrameView(node, info, f) /\ ChildKnown(node, info, o, f.other)
  BY <1>1, ChildFrame
<1>3. CASE node[Parent(d)].right = Old(d)
  <2> DEFINE V == WithRight(node, Parent(d), f.other)
  <2>1. ChildChanged(t, V)
    BY <1>2, <1>3 DEF CasRight, WithRight
  <2> HIDE DEF V, f, o, d
  <2>2. V = WithRight(node, Parent(d), f.other) /\ f = Head(local[t].help) /\ o = TopOp(t)
        /\ d = info[o]
    BY DEF V, f, o, d
  <2> QED BY <1>1, <1>3, <2>1, <2>2, ChildStep
<1>4. CASE node[Parent(d)].right # Old(d)
  <2>1. Advance(t, "unflag") /\ UNCHANGED <<node, info>>
    BY <1>2, <1>4 DEF CasRight
  <2>2. d.done
    BY <1>2, <1>4 DEF FrameView
  <2> HIDE DEF f, o
  <2> QED BY <1>1, <1>2, <2>1, <2>2, GoOn
<1> QED BY <1>3, <1>4

(***************************************************************************)
(* Every step moves the tree, and keeps the invariant.                     *)
(***************************************************************************)
LEMMA NextHolds ==
  ASSUME TreeInv, [Next]_vars
  PROVE  Moves(node, info, node', info') /\ TreeInv'
<1>1. CASE UNCHANGED vars
  <2>1. node' = node /\ info' = info /\ local' = local /\ calls' = calls
    BY <1>1 DEF vars
  <2>2. Shared(node, info)
    BY DEF TreeInv
  <2> QED BY <2>1, <2>2, Still DEF TreeInv, TypeOK
<1>2. ASSUME NEW t \in Threads, Step(t) PROVE Moves(node, info, node', info') /\ TreeInv'
  <2>1. CASE ReadUpdate(t)
    BY <2>1, ReadUpdateStep
  <2>2. CASE ReadChild(t)
    BY <2>2, ReadChildStep
  <2>3. CASE FlagInsert(t)
    BY <2>3, FlagInsertStep
  <2>4. CASE FlagDelete(t)
    BY <2>4, FlagDeleteStep
  <2>5. CASE Mark(t)
    BY <2>5, MarkStep
  <2>6. CASE ReadOther(t)
    BY <2>6, ReadOtherStep
  <2>7. CASE LookLeft(t)
    BY <2>7, LookLeftStep
  <2>8. CASE LookRight(t)
    BY <2>8, LookRightStep
  <2>9. CASE CasLeft(t)
    BY <2>9, CasLeftStep
  <2>10. CASE CasRight(t)
    BY <2>10, CasRightStep
  <2>11. CASE Unflag(t)
    BY <2>11, UnflagStep
  <2>12. CASE Backoff(t)
    BY <2>12, BackoffStep
  <2>13. CASE Return(t)
    BY <2>13, ReturnStep
  <2> QED
    BY <1>2, <2>1, <2>2, <2>3, <2>4, <2>5, <2>6, <2>7, <2>8, <2>9, <2>10, <2>11, <2>12, <2>13
    DEF Step
<1>3. ASSUME NEW t \in Threads, NEW op \in Ops, NEW k \in Keys, Invoke(t, op, k)
      PROVE  Moves(node, info, node', info') /\ TreeInv'
  BY <1>3, InvokeStep
<1> QED BY <1>1, <1>2, <1>3 DEF Next, Terminating

\* The words, descriptors, searches and help functions of any number of threads
\* mean at every instant what the code takes them to mean.
THEOREM TreeInvariant == Spec => []TreeInv
<1>1. Init => TreeInv
  BY InitHolds
<1>2. TreeInv /\ [Next]_vars => TreeInv'
  BY NextHolds
<1> QED BY <1>1, <1>2, PTL DEF Spec

\* The tree, the descriptors and the locals of all threads have their types.
THEOREM TypeCorrect == Spec => []TypeOK
<1>1. TreeInv => TypeOK
  BY DEF TreeInv
<1> QED BY <1>1, TreeInvariant, PTL

\* However many threads help, a node and a descriptor are retired once, an
\* internal node not before it is marked, and no live node points at a retired
\* one: the record manager frees nothing twice.
THEOREM NothingRetiredTwice == Spec => []RetiredOnce
<1>1. ASSUME TreeInv PROVE RetiredOnce
  <2>1. Shared(node, info)
    BY <1>1 DEF TreeInv
  <2>2. ASSUME NEW n \in DOMAIN node
        PROVE  /\ node[n].retired <= 1
               /\ ~IsLeaf(node, n) =>
                    IF node[n].retired = 1 THEN node[n].update.flag = "mark"
                    ELSE \A c \in Kids(node, n) : node[c].retired = 0
    <3>1. /\ node[n].retired <= 1
          /\ node[n].retired > 0 /\ ~IsLeaf(node, n) => node[n].update.flag = "mark"
      BY <2>1 DEF Shared, Retirement
    <3>2. node[n].retired \in Nat
      BY <2>1, Typed DEF NodeType
    <3>3. CASE node[n].retired = 1
      BY <3>1, <3>3
    <3>4. CASE node[n].retired # 1
      <4>1. node[n].retired = 0
        BY <3>1, <3>2, <3>4
      <4>2. ~IsLeaf(node, n) => n \in LiveInternal(node)
        BY <4>1 DEF LiveInternal
      <4> QED BY <2>1, <3>1, <3>4, <4>2, LiveFacts
    <3> QED BY <3>3, <3>4
  <2>3. \A o \in DOMAIN info : info[o].retired <= 1
    BY <2>1 DEF Shared, RetiredUnflagged
  <2> QED BY <2>2, <2>3 DEF RetiredOnce
<1> QED BY <1>1, TreeInvariant, PTL

\* A marked node is final, and a child changes only under the flag of the update
\* that was planned for it: helpers agree and late helpers do no harm.
THEOREM ChangesUnderFlag == Spec => NodesChangeUnderFlag
<1> DEFINE Change(T, D, U, n) ==
             /\ T[n].update.flag = "mark" => [U[n] EXCEPT !.retired = 0] = [T[n] EXCEPT !.retired = 0]
             /\ <<U[n].left, U[n].right>> # <<T[n].left, T[n].right>> =>
                  /\ T[n].update.flag \in {"iflag", "dflag"}
                  /\ LET d == D[T[n].update.op] IN
                       /\ n = Parent(d)
                       /\ Old(d) \in {T[n].left, T[n].right} \ {U[n].left, U[n].right}
<1>1. ASSUME NEW T, NEW D, NEW U, NEW E, Shared(T, D), Moves(T, D, U, E), NEW n \in DOMAIN T
      PROVE  Change(T, D, U, n)
  <2>1. NodeMoves(T, D, U, E, n) /\ T[n] \in NodeType /\ U[n] \in NodeType
    BY <1>1, MovesAt, MovesStay, Typed
  <2>2. ASSUME T[n].update.flag = "mark"
        PROVE  [U[n] EXCEPT !.retired = 0] = [T[n] EXCEPT !.retired = 0]
    <3>1. U[n].left = T[n].left /\ U[n].right = T[n].right
      BY <1>1, <2>2, KidsStay
    <3>2. U[n].update = T[n].update /\ U[n].key = T[n].key
      BY <2>1, <2>2 DEF NodeMoves, WordMoves
    <3> QED BY <2>1, <3>1, <3>2 DEF NodeType
  <2>3. ASSUME <<U[n].left, U[n].right>> # <<T[n].left, T[n].right>>
        PROVE  /\ T[n].update.flag \in {"iflag", "dflag"}
               /\ LET d == D[T[n].update.op] IN
                    /\ n = Parent(d)
                    /\ Old(d) \in {T[n].left, T[n].right} \ {U[n].left, U[n].right}
    <3>1. ~(U[n].left = T[n].left /\ U[n].right = T[n].right)
      BY <2>3
    <3>2. T[n].update.flag \in {"iflag", "dflag"}
      BY <1>1, <3>1, KidsStay
    <3> QED BY <2>1, <3>1, <3>2 DEF NodeMoves, KidsMove, Kids
  <2> QED BY <2>2, <2>3
<1>2. ASSUME TreeInv, [Next]_vars
      PROVE  [\A n \in DOMAIN node : Change(node, info, node', n)]_vars
  <2>1. Moves(node, info, node', info') /\ Shared(node, info)
    BY <1>2, NextHolds DEF TreeInv
  <2> HIDE DEF Change
  <2> QED BY <1>1, <2>1
<1>3. TreeInv /\ [Next]_vars => [\A n \in DOMAIN node :
        /\ node[n].update.flag = "mark" => Fields(node'[n]) = Fields(node[n])
        /\ <<node'[n].left, node'[n].right>> # <<node[n].left, node[n].right>> =>
             /\ node[n].update.flag \in {"iflag", "dflag"}
             /\ LET d == info[node[n].update.op] IN
                  /\ n = Parent(d)
                  /\ Old(d) \in {node[n].left, node[n].right}
                                  \ {node'[n].left, node'[n].right}]_vars
  BY <1>2 DEF Fields
<1> QED BY <1>3, TreeInvariant, PTL DEF Spec, NodesChangeUnderFlag

-----------------------------------------------------------------------------
(***************************************************************************)
(* Ways through a tree.  Induction along them is by the least              *)
(* counterexample.                                                         *)
(***************************************************************************)
\* Every set of naturals has a least one, and so they can be counted up to.
LEMMA LeastNatural ==
  ASSUME NEW T \in SUBSET Nat, T # {}
  PROVE  \E x \in T : \A y \in T : x <= y
<1> DEFINE R == OpToRel(<, Nat)
<1>1. IsWellFoundedOn(R, Nat)
  BY NatLessThanWellFounded
<1>2. \A y, x \in Nat : <<y, x>> \in R <=> y < x
  BY DEF OpToRel
<1> HIDE DEF R
<1>3. PICK x \in T : \A y \in T : ~(<<y, x>> \in R)
  BY <1>1, WFMin, Zenon
<1>4. SUFFICES ASSUME NEW y \in T PROVE x <= y
  OBVIOUS
<1>5. x \in Nat /\ y \in Nat /\ ~(<<y, x>> \in R)
  BY <1>3
<1>6. ~(y < x)
  BY <1>2, <1>5
<1> QED
  BY <1>5, <1>6

\* Sets in the place of predicates: what 0 is in, and with n also n + 1.
LEMMA EveryNatural ==
  ASSUME NEW S, 0 \in S, \A n \in Nat : n \in S => n + 1 \in S
  PROVE  Nat \subseteq S
<1>1. SUFFICES ASSUME Nat \ S # {} PROVE FALSE
  OBVIOUS
<1>2. PICK x \in Nat \ S : \A y \in Nat \ S : x <= y
  BY <1>1, LeastNatural
<1>3. x # 0 /\ x - 1 \in Nat
  BY <1>2
<1>4. x - 1 \notin S /\ ~(x <= x - 1)
  BY <1>2, <1>3
<1> QED
  BY <1>2, <1>3, <1>4

\* The recursive function in From has a value where every successor is lower.
LEMMA FromIs ==
  ASSUME NEW D, NEW next \in [D -> SUBSET D],
         NEW rank \in [D -> Nat], NEW B \in Nat,
         \A m \in D : rank[m] <= B,
         \A m \in D : \A c \in next[m] : rank[c] < rank[m]
  PROVE  \A m \in D : From(next, m) = {m} \cup UNION {From(next, c) : c \in next[m]}
<1> DEFINE Low(n) == {m \in D : rank[m] < n}
           Value(f, m) == {m} \cup UNION {f[c] : c \in next[m]}
           Solves(f, S) == f = [m \in S |-> Value(f, m)]
           Solved == {n \in Nat : \E f : Solves(f, Low(n))}
<1>1. 0 \in Solved
  <2>1. Low(0) = {}
    OBVIOUS
  <2>2. Solves([m \in {} |-> {}], {})
    OBVIOUS
  <2> QED
    BY <2>1, <2>2
<1>2. ASSUME NEW n \in Nat, n \in Solved
      PROVE  n + 1 \in Solved
  <2>1. PICK f : Solves(f, Low(n))
    BY <1>2
  <2> DEFINE g == [m \in Low(n + 1) |-> Value(f, m)]
  <2>2. \A m \in Low(n) : f[m] = Value(f, m) /\ m \in Low(n + 1)
    BY <2>1
  <2>3. \A m \in Low(n + 1) : \A c \in next[m] : c \in Low(n)
    OBVIOUS
  <2>4. \A m \in Low(n + 1) : g[m] = Value(f, m)
    OBVIOUS
  <2> HIDE DEF g, Low
  <2>5. \A m \in Low(n) : g[m] = f[m]
    BY <2>2, <2>4 DEF Value
  <2>6. \A m \in Low(n + 1) : Value(g, m) = Value(f, m)
    BY <2>3, <2>5
  <2>7. g = [m \in Low(n + 1) |-> Value(f, m)]
    BY DEF g
  <2>8. Solves(g, Low(n + 1))
    BY <2>6, <2>7
  <2> QED
    BY <2>8
<1>3. B + 1 \in Solved
  <2> HIDE DEF Solved
  <2>1. Nat \subseteq Solved
    BY <1>1, <1>2, EveryNatural
  <2> QED
    BY <2>1
<1>4. Low(B + 1) = D
  OBVIOUS
<1>5. PICK f : Solves(f, D)
  BY <1>3, <1>4
<1> DEFINE from == CHOOSE h : Solves(h, D)
<1>6. Solves(from, D)
  BY <1>5
<1>7. \A m : From(next, m) = from[m]
  BY DOMAIN next = D DEF From
<1> HIDE DEF from
<1>8. \A m \in D : from[m] = Value(from, m)
  BY <1>6
<1> QED
  BY <1>7, <1>8

\* What holds of m when it holds of all successors of m holds everywhere.
LEMMA ByRank ==
  ASSUME NEW S, NEW next, NEW rank \in [S -> Nat],
         \A m \in S : \A c \in next[m] : c \in S /\ rank[c] < rank[m],
         NEW Q, \A m \in S : next[m] \subseteq Q => m \in Q
  PROVE  S \subseteq Q
<1> DEFINE R == {rank[m] : m \in S \ Q}
<1>1. SUFFICES ASSUME S \ Q # {} PROVE FALSE
  OBVIOUS
<1>2. R \in SUBSET Nat /\ R # {}
  BY <1>1
<1>3. PICK x \in R : \A y \in R : x <= y
  BY <1>2, LeastNatural
<1>4. PICK m \in S \ Q : x = rank[m]
  BY <1>3
<1>5. PICK c \in next[m] : c \notin Q
  BY <1>4
<1>6. c \in S /\ rank[c] \in R /\ rank[c] < rank[m] /\ rank[c] \in Nat /\ rank[m] \in Nat
  BY <1>4, <1>5
<1>7. rank[m] <= rank[c]
  BY <1>3, <1>4, <1>6
<1> QED
  BY <1>6, <1>7

\* What can be reached from n: n itself and what its successors lead to, and
\* nothing but what leads on from n step by step.
LEMMA FromFacts ==
  ASSUME NEW S, NEW next \in [S -> SUBSET S],
         NEW rank \in [S -> Nat], NEW B \in Nat,
         \A m \in S : rank[m] <= B,
         \A m \in S : \A c \in next[m] : rank[c] < rank[m],
         NEW n \in S
  PROVE  /\ n \in From(next, n) /\ From(next, n) \subseteq S
         /\ From(next, n) = {n} \cup UNION {From(next, c) : c \in next[n]}
         /\ \A m \in From(next, n) : next[m] \subseteq From(next, n)
         /\ \A C : n \in C /\ (\A m \in C \cap S : next[m] \subseteq C) => From(next, n) \subseteq C
<1>1. \A m \in S : From(next, m) = {m} \cup UNION {From(next, c) : c \in next[m]}
  BY FromIs
<1>2. \A m \in S : \A c \in next[m] : c \in S /\ rank[c] < rank[m]
  OBVIOUS
<1>3. S \subseteq {m \in S : From(next, m) \subseteq S}
  <2> DEFINE Q == {m \in S : From(next, m) \subseteq S}
  <2>1. ASSUME NEW m \in S, next[m] \subseteq Q PROVE m \in Q
    BY <1>1, <2>1
  <2> HIDE DEF Q
  <2>2. S \subseteq Q
    BY <1>2, <2>1, ByRank
  <2> QED
    BY <2>2 DEF Q
<1>4. S \subseteq {m \in S : \A x \in From(next, m) : next[x] \subseteq From(next, m)}
  <2> DEFINE Q == {m \in S : \A x \in From(next, m) : next[x] \subseteq From(next, m)}
  <2>1. ASSUME NEW m \in S, next[m] \subseteq Q PROVE m \in Q
    <3>1. ASSUME NEW x \in From(next, m), NEW y \in next[x] PROVE y \in From(next, m)
      <4>1. CASE x = m
        <5>1. y \in S /\ y \in From(next, y)
          BY <1>1, <3>1, <4>1
        <5> QED
          BY <1>1, <3>1, <4>1, <5>1
      <4>2. CASE x # m
        <5>1. PICK c \in next[m] : x \in From(next, c)
          BY <1>1, <4>2
        <5>2. y \in From(next, c)
          BY <2>1, <3>1, <5>1
        <5> QED
          BY <1>1, <5>1, <5>2
      <4> QED
        BY <4>1, <4>2
    <3> QED
      BY <3>1
  <2> HIDE DEF Q
  <2>2. S \subseteq Q
    BY <1>2, <2>1, ByRank
  <2> QED
    BY <2>2 DEF Q
<1>5. ASSUME NEW C, n \in C, \A m \in C \cap S : next[m] \subseteq C
      PROVE  From(next, n) \subseteq C
  <2> DEFINE Q == {m \in S : m \in C => From(next, m) \subseteq C}
  <2>1. ASSUME NEW m \in S, next[m] \subseteq Q PROVE m \in Q
    <3>1. SUFFICES ASSUME m \in C, NEW x \in From(next, m) PROVE x \in C
      OBVIOUS
    <3>2. x = m \/ \E c \in next[m] : x \in From(next, c)
      BY <1>1
    <3> QED
      BY <1>5, <2>1, <3>1, <3>2
  <2> HIDE DEF Q
  <2>2. S \subseteq Q
    BY <1>2, <2>1, ByRank
  <2> QED
    BY <1>5, <2>2 DEF Q
<1> QED
  BY <1>1, <1>3, <1>4, <1>5

-----------------------------------------------------------------------------
(***************************************************************************)
(* The tree as a whole.  Its internal nodes are older than those below     *)
(* them, so it has no cycle and what a search passes is well defined.      *)
(* Searches, and the places of updates, are where their keys belong: what  *)
(* they reach from there is on the path from the root, or retired.         *)
(***************************************************************************)
\* A tree in which every way down ends.
Rooted(T) == T \in Seq(NodeType) /\ Binary(T) /\ OldestFirst(T)

Joins(T, n, k) ==
  n \in DOMAIN T /\ \A m \in Path(T, n, k) : T[m].retired = 0 => m \in Path(T, Root, k)

Placed(T) == \A m \in LeavesOf(T) : T[m].key # KeyMax => m \in Path(T, Root, T[m].key)

\* Until an insertion is done its three nodes are as it made them.
InsertPlan(T, d) ==
  /\ d.p < d.new /\ Joins(T, d.p, d.key) /\ T[d.l].key # d.key
  /\ ~d.done =>
       /\ \A c \in Kids(T, d.new) : IsLeaf(T, c)
       /\ \A k \in {d.key, T[d.l].key} : T[ChildFor(T, d.new, k)].key = k
DeletePlan(T, d) ==
  Joins(T, d.gp, d.key) /\ Joins(T, d.p, d.key) /\ T[d.l].key = d.key
Plans(T, D) == \A o \in DOMAIN D :
  IF D[o].kind = "insert" THEN InsertPlan(T, D[o]) ELSE DeletePlan(T, D[o])

PathTree(T, D) ==
  /\ OldestFirst(T) /\ T[Root].retired = 0
  /\ Placed(T) /\ Plans(T, D)

\* A search is on the path of its key, and its leaf tells it to go on.
Searching == {"update", "child", "cas"}
PathLocal(T, me) ==
  /\ me.pc \in Searching =>
       Joins(T, me.p, me.key) /\ (me.gp # 0 => Joins(T, me.gp, me.key))
  /\ me.pc = "cas" => (T[me.l].key = me.key <=> me.op = "delete")

PathInv ==
  /\ TreeInv /\ PathTree(node, info)
  /\ \A t \in Threads : PathLocal(node, local[t])

\* Ways down in a tree: the facts about From, and induction from the leaves up.
LEMMA WaysDown ==
  ASSUME NEW T, Rooted(T), NEW next \in [DOMAIN T -> SUBSET DOMAIN T],
         \A m \in DOMAIN T : next[m] \subseteq (IF IsLeaf(T, m) THEN {} ELSE Kids(T, m)),
         NEW n \in DOMAIN T
  PROVE  /\ n \in From(next, n) /\ From(next, n) \subseteq DOMAIN T
         /\ From(next, n) = {n} \cup UNION {From(next, c) : c \in next[n]}
         /\ \A m \in From(next, n) : next[m] \subseteq From(next, n)
         /\ \A C : n \in C /\ (\A m \in C \cap DOMAIN T : next[m] \subseteq C)
                     => From(next, n) \subseteq C
         /\ \A Q : (\A m \in DOMAIN T : next[m] \subseteq Q => m \in Q) => DOMAIN T \subseteq Q
<1> DEFINE S == DOMAIN T
           B == Len(T) + 1
           rank == [m \in S |-> IF IsLeaf(T, m) THEN 0 ELSE B - m]
<1>1. T \in Seq(NodeType) /\ Len(T) \in Nat /\ B \in Nat /\ S = 1..Len(T)
  BY DEF Rooted
<1>2. rank \in [S -> Nat] /\ \A m \in S : rank[m] <= B
  BY <1>1
<1>3. ASSUME NEW m \in S, NEW c \in next[m] PROVE c \in S /\ rank[c] < rank[m]
  <2>1. ~IsLeaf(T, m) /\ c \in Kids(T, m) /\ c \in S
    OBVIOUS
  <2>2. IsLeaf(T, c) \/ m < c
    BY <2>1 DEF Rooted, OldestFirst
  <2>3. rank[m] = B - m /\ m \in Nat /\ c \in Nat /\ m <= Len(T) /\ c <= Len(T)
    BY <1>1, <2>1
  <2>4. rank[c] = 0 \/ (rank[c] = B - c /\ m < c)
    BY <1>1, <2>1, <2>2
  <2> QED
    BY <1>1, <2>1, <2>3, <2>4
<1> HIDE DEF rank, B
<1>4. /\ n \in From(next, n) /\ From(next, n) \subseteq S
      /\ From(next, n) = {n} \cup UNION {From(next, c) : c \in next[n]}
      /\ \A m \in From(next, n) : next[m] \subseteq From(next, n)
      /\ \A C : n \in C /\ (\A m \in C \cap S : next[m] \subseteq C) => From(next, n) \subseteq C
  <2> HIDE DEF S
  <2>1. next \in [S -> SUBSET S] /\ n \in S
    BY DEF S
  <2>2. \A m \in S : \A c \in next[m] : rank[c] < rank[m]
    BY <1>3
  <2>3. rank \in [S -> Nat] /\ B \in Nat /\ \A m \in S : rank[m] <= B
    BY <1>1, <1>2
  <2> QED
    BY <2>1, <2>2, <2>3, FromFacts
<1>5. ASSUME NEW Q, \A m \in S : next[m] \subseteq Q => m \in Q PROVE S \subseteq Q
  <2> HIDE DEF S
  <2> QED
    BY <1>2, <1>3, <1>5, ByRank
<1> QED
  BY <1>4, <1>5

\* The nodes that a search for k passes from n on.
LEMMA PathFacts ==
  ASSUME NEW T, Rooted(T), NEW n \in DOMAIN T, NEW k
  PROVE  /\ n \in Path(T, n, k) /\ Path(T, n, k) \subseteq DOMAIN T
         /\ IsLeaf(T, n) => Path(T, n, k) = {n}
         /\ ~IsLeaf(T, n) => Path(T, n, k) = {n} \cup Path(T, ChildFor(T, n, k), k)
         /\ \A m \in Path(T, n, k) : ~IsLeaf(T, m) => ChildFor(T, m, k) \in Path(T, n, k)
         /\ \A C : /\ n \in C
                   /\ \A m \in C \cap DOMAIN T : ~IsLeaf(T, m) => ChildFor(T, m, k) \in C
                   => Path(T, n, k) \subseteq C
<1> DEFINE next == [m \in DOMAIN T |-> IF IsLeaf(T, m) THEN {} ELSE {ChildFor(T, m, k)}]
<1>1. \A m \in DOMAIN T : ~IsLeaf(T, m) => ChildFor(T, m, k) \in Kids(T, m)
                                           /\ Kids(T, m) \subseteq DOMAIN T
  BY DEF Rooted, Binary, ChildFor, Kids
<1>2. \A m \in DOMAIN T : next[m] = IF IsLeaf(T, m) THEN {} ELSE {ChildFor(T, m, k)}
  OBVIOUS
<1>3. next \in [DOMAIN T -> SUBSET DOMAIN T]
  BY <1>1
<1>4. Path(T, n, k) = From(next, n)
      /\ Path(T, ChildFor(T, n, k), k) = From(next, ChildFor(T, n, k))
  BY DEF Path
<1> HIDE DEF next
<1>5. \A m \in DOMAIN T : next[m] \subseteq (IF IsLeaf(T, m) THEN {} ELSE Kids(T, m))
  BY <1>1, <1>2
<1>6. /\ n \in From(next, n) /\ From(next, n) \subseteq DOMAIN T
      /\ From(next, n) = {n} \cup UNION {From(next, c) : c \in next[n]}
      /\ \A m \in From(next, n) : next[m] \subseteq From(next, n)
      /\ \A C : n \in C /\ (\A m \in C \cap DOMAIN T : next[m] \subseteq C)
                  => From(next, n) \subseteq C
  BY <1>3, <1>5, WaysDown
<1>7. IsLeaf(T, n) => From(next, n) = {n}
  BY <1>2, <1>6
<1>8. ~IsLeaf(T, n) => From(next, n) = {n} \cup From(next, ChildFor(T, n, k))
  BY <1>2, <1>6
<1>9. ASSUME NEW m \in From(next, n), ~IsLeaf(T, m) PROVE ChildFor(T, m, k) \in From(next, n)
  <2>1. m \in DOMAIN T /\ next[m] \subseteq From(next, n)
    BY <1>6
  <2>2. next[m] = {ChildFor(T, m, k)}
    BY <1>2, <1>9, <2>1
  <2> QED
    BY <2>1, <2>2
<1>10. ASSUME NEW C, n \in C,
              \A m \in C \cap DOMAIN T : ~IsLeaf(T, m) => ChildFor(T, m, k) \in C
       PROVE  From(next, n) \subseteq C
  <2>1. \A m \in C \cap DOMAIN T : next[m] \subseteq C
    BY <1>2, <1>10
  <2> QED
    BY <1>6, <1>10, <2>1
<1> QED
  BY <1>4, <1>6, <1>7, <1>8, <1>9, <1>10

\* The nodes below the root.
LEMMA ReachableFacts ==
  ASSUME NEW T, Rooted(T), Root \in DOMAIN T
  PROVE  /\ Root \in Reachable(T) /\ Reachable(T) \subseteq DOMAIN T
         /\ \A m \in Reachable(T) : ~IsLeaf(T, m) => Kids(T, m) \subseteq Reachable(T)
         /\ \A C : /\ Root \in C
                   /\ \A m \in C \cap DOMAIN T : ~IsLeaf(T, m) => Kids(T, m) \subseteq C
                   => Reachable(T) \subseteq C
<1> DEFINE next == [m \in DOMAIN T |-> IF IsLeaf(T, m) THEN {} ELSE Kids(T, m)]
<1>1. \A m \in DOMAIN T : ~IsLeaf(T, m) => Kids(T, m) \subseteq DOMAIN T
  BY DEF Rooted, Binary
<1>2. \A m \in DOMAIN T : next[m] = IF IsLeaf(T, m) THEN {} ELSE Kids(T, m)
  OBVIOUS
<1>3. next \in [DOMAIN T -> SUBSET DOMAIN T]
  BY <1>1
<1>4. Reachable(T) = From(next, Root)
  BY DEF Reachable, Below
<1> HIDE DEF next
<1>5. \A m \in DOMAIN T : next[m] \subseteq (IF IsLeaf(T, m) THEN {} ELSE Kids(T, m))
  BY <1>1, <1>2
<1>6. /\ Root \in From(next, Root) /\ From(next, Root) \subseteq DOMAIN T
      /\ \A m \in From(next, Root) : next[m] \subseteq From(next, Root)
      /\ \A C : Root \in C /\ (\A m \in C \cap DOMAIN T : next[m] \subseteq C)
                  => From(next, Root) \subseteq C
  BY <1>3, <1>5, WaysDown
<1>7. ASSUME NEW C, Root \in C,
             \A m \in C \cap DOMAIN T : ~IsLeaf(T, m) => Kids(T, m) \subseteq C
      PROVE  From(next, Root) \subseteq C
  <2>1. \A m \in C \cap DOMAIN T : next[m] \subseteq C
    BY <1>2, <1>7
  <2> QED
    BY <1>6, <1>7, <2>1
<1>8. \A m \in From(next, Root) : ~IsLeaf(T, m) => Kids(T, m) \subseteq From(next, Root)
  <2>1. SUFFICES ASSUME NEW m \in From(next, Root), ~IsLeaf(T, m)
                 PROVE  Kids(T, m) \subseteq From(next, Root)
    OBVIOUS
  <2>2. next[m] \subseteq From(next, Root) /\ next[m] = Kids(T, m)
    BY <1>2, <1>6, <2>1
  <2> QED
    BY <2>2
<1> QED
  BY <1>4, <1>6, <1>7, <1>8

\* A path ends in exactly one leaf.
LEMMA OneLeaf ==
  ASSUME NEW T, Rooted(T), NEW n \in DOMAIN T, NEW k
  PROVE  /\ \E m \in Path(T, n, k) : IsLeaf(T, m)
         /\ \A x, y \in Path(T, n, k) : IsLeaf(T, x) /\ IsLeaf(T, y) => x = y
<1> DEFINE Ends(m) == /\ \E x \in Path(T, m, k) : IsLeaf(T, x)
                      /\ \A x, y \in Path(T, m, k) : IsLeaf(T, x) /\ IsLeaf(T, y) => x = y
           Q == {m \in DOMAIN T : Ends(m)}
           next == [m \in DOMAIN T |-> IF IsLeaf(T, m) THEN {} ELSE {ChildFor(T, m, k)}]
<1>1. \A m \in DOMAIN T : ~IsLeaf(T, m) => ChildFor(T, m, k) \in Kids(T, m)
                                           /\ Kids(T, m) \subseteq DOMAIN T
  BY DEF Rooted, Binary, ChildFor, Kids
<1>2. \A m \in DOMAIN T : next[m] = IF IsLeaf(T, m) THEN {} ELSE {ChildFor(T, m, k)}
  OBVIOUS
<1>3. next \in [DOMAIN T -> SUBSET DOMAIN T]
  BY <1>1
<1> HIDE DEF next
<1>4. \A m \in DOMAIN T : next[m] \subseteq (IF IsLeaf(T, m) THEN {} ELSE Kids(T, m))
  BY <1>1, <1>2
<1>5. ASSUME NEW m \in DOMAIN T, next[m] \subseteq Q PROVE m \in Q
  <2>1. CASE IsLeaf(T, m)
    <3>1. Path(T, m, k) = {m}
      BY <2>1, PathFacts
    <3> QED
      BY <2>1, <3>1
  <2>2. CASE ~IsLeaf(T, m)
    <3>1. Path(T, m, k) = {m} \cup Path(T, ChildFor(T, m, k), k)
      BY <2>2, PathFacts
    <3>2. Ends(ChildFor(T, m, k))
      BY <1>2, <1>5, <2>2
    <3> QED
      BY <2>2, <3>1, <3>2
  <2> QED
    BY <2>1, <2>2
<1> HIDE DEF Q
<1>6. DOMAIN T \subseteq Q
  BY <1>3, <1>4, <1>5, WaysDown
<1> QED
  BY <1>6 DEF Q

\* Where one search joins another's path it stays on it.
LEMMA PathOn ==
  ASSUME NEW T, Rooted(T), NEW n \in DOMAIN T, NEW k, NEW m \in Path(T, n, k)
  PROVE  m \in DOMAIN T /\ Path(T, m, k) \subseteq Path(T, n, k)
<1>1. m \in DOMAIN T
  BY PathFacts
<1>2. \A x \in Path(T, n, k) : ~IsLeaf(T, x) => ChildFor(T, x, k) \in Path(T, n, k)
  BY PathFacts
<1> QED
  BY <1>1, <1>2, PathFacts

\* What a search passes can be reached.
LEMMA PathReachable ==
  ASSUME NEW T, Rooted(T), Root \in DOMAIN T, NEW k
  PROVE  Path(T, Root, k) \subseteq Reachable(T)
<1>1. \A m \in Reachable(T) : ~IsLeaf(T, m) => ChildFor(T, m, k) \in Reachable(T)
  BY ReachableFacts DEF ChildFor, Kids
<1> QED
  BY <1>1, ReachableFacts, PathFacts

\* LeafFor is the leaf of the path.
LEMMA LeafForIs ==
  ASSUME NEW T, Rooted(T), Root \in DOMAIN T, NEW k
  PROVE  /\ LeafFor(T, k) \in Path(T, Root, k) /\ IsLeaf(T, LeafFor(T, k))
         /\ LeafFor(T, k) \in LeavesOf(T)
         /\ \A m \in Path(T, Root, k) : IsLeaf(T, m) => m = LeafFor(T, k)
<1>1. \E m \in Path(T, Root, k) : IsLeaf(T, m)
  BY OneLeaf
<1>2. LeafFor(T, k) \in Path(T, Root, k) /\ IsLeaf(T, LeafFor(T, k))
  BY <1>1 DEF LeafFor
<1>3. \A m \in Path(T, Root, k) : IsLeaf(T, m) => m = LeafFor(T, k)
  BY <1>2, OneLeaf
<1>4. LeafFor(T, k) \in LeavesOf(T)
  BY <1>2, PathReachable DEF LeavesOf
<1> QED
  BY <1>2, <1>3, <1>4

LEMMA LeafKeys ==
  ASSUME NEW T, Rooted(T), Root \in DOMAIN T, NEW m \in LeavesOf(T)
  PROVE  m \in DOMAIN T /\ IsLeaf(T, m) /\ T[m].key \in 1..KeyMax
         /\ (T[m].key # KeyMax => T[m].key \in AllKeys)
<1>1. m \in DOMAIN T /\ IsLeaf(T, m)
  BY ReachableFacts DEF LeavesOf
<1>2. T[m] \in NodeType
  BY <1>1 DEF Rooted
<1>3. T[m].key \in 1..KeyMax /\ KeyMax \in Nat
  BY <1>2, EllenTreeAssumption DEF NodeType
<1> QED
  BY <1>1, <1>3 DEF AllKeys

LEMMA SearchableIsPlaced ==
  ASSUME NEW T, Rooted(T), Root \in DOMAIN T, Searchable(T)
  PROVE  Placed(T)
<1>1. SUFFICES ASSUME NEW m \in LeavesOf(T), T[m].key # KeyMax
               PROVE  m \in Path(T, Root, T[m].key)
  BY DEF Placed
<1> DEFINE k == T[m].key
<1>2. k \in AllKeys /\ k \in KeysOf(T)
  BY <1>1, LeafKeys DEF KeysOf
<1>3. T[LeafFor(T, k)].key = k
  BY <1>2 DEF Searchable
<1>4. LeafFor(T, k) \in LeavesOf(T) /\ LeafFor(T, k) \in Path(T, Root, k)
  BY LeafForIs
<1>5. m = LeafFor(T, k)
  BY <1>1, <1>3, <1>4 DEF Searchable
<1> QED
  BY <1>4, <1>5

LEMMA PlacedIsSearchable ==
  ASSUME NEW T, Rooted(T), Root \in DOMAIN T, Placed(T)
  PROVE  Searchable(T)
<1>1. ASSUME NEW m \in LeavesOf(T), T[m].key # KeyMax PROVE m = LeafFor(T, T[m].key)
  BY <1>1, LeafForIs, LeafKeys DEF Placed
<1>2. ASSUME NEW k \in AllKeys PROVE k \in KeysOf(T) <=> T[LeafFor(T, k)].key = k
  <2>1. k # KeyMax
    BY EllenTreeAssumption DEF AllKeys
  <2>2. ASSUME k \in KeysOf(T) PROVE T[LeafFor(T, k)].key = k
    BY <1>1, <2>1, <2>2 DEF KeysOf
  <2>3. ASSUME T[LeafFor(T, k)].key = k PROVE k \in KeysOf(T)
    BY <2>1, <2>3, LeafForIs DEF KeysOf
  <2> QED
    BY <2>2, <2>3
<1>3. ASSUME NEW m \in LeavesOf(T), NEW n \in LeavesOf(T), m # n
      PROVE  T[m].key # T[n].key \/ T[m].key = KeyMax
  BY <1>1, <1>3
<1> QED
  BY <1>2, <1>3 DEF Searchable

\* Nothing retired can be reached.
LEMMA ReachableIsLive ==
  ASSUME NEW T, Rooted(T), Shape(T), T[Root].retired = 0
  PROVE  \A m \in Reachable(T) : T[m].retired = 0
<1> DEFINE C == {m \in DOMAIN T : T[m].retired = 0}
<1>1. Root \in DOMAIN T
  BY DEF Shape, MaxAtRight
<1>2. ASSUME NEW m \in C, ~IsLeaf(T, m) PROVE Kids(T, m) \subseteq C
  <2>1. m \in LiveInternal(T) /\ Kids(T, m) \subseteq DOMAIN T
    BY <1>2 DEF LiveInternal, Shape, Binary
  <2> QED
    BY <2>1 DEF Shape, LiveTree
<1>3. Root \in C
  BY <1>1
<1>4. C \cap DOMAIN T = C
  OBVIOUS
<1> HIDE DEF C
<1>5. Reachable(T) \subseteq C
  BY <1>1, <1>2, <1>3, <1>4, ReachableFacts
<1> QED
  BY <1>5 DEF C

-----------------------------------------------------------------------------
\* A step that changes words only, and may add nodes.
Quiet(T, U) ==
  /\ DOMAIN T \subseteq DOMAIN U
  /\ \A n \in DOMAIN T :
       /\ U[n].key = T[n].key /\ U[n].left = T[n].left /\ U[n].right = T[n].right
       /\ U[n].retired = T[n].retired

LEMMA QuietPaths ==
  ASSUME NEW T, NEW U, Rooted(T), Rooted(U), Root \in DOMAIN T, Quiet(T, U)
  PROVE  /\ \A n \in DOMAIN T : \A k : Path(U, n, k) = Path(T, n, k)
         /\ Reachable(U) = Reachable(T) /\ LeavesOf(U) = LeavesOf(T) /\ KeysOf(U) = KeysOf(T)
<1>1. \A n \in DOMAIN T : /\ n \in DOMAIN U /\ IsLeaf(U, n) = IsLeaf(T, n)
                          /\ Kids(U, n) = Kids(T, n) /\ U[n].key = T[n].key
                          /\ \A k : ChildFor(U, n, k) = ChildFor(T, n, k)
  BY DEF Quiet, IsLeaf, Kids, ChildFor
<1>2. ASSUME NEW n \in DOMAIN T, NEW k PROVE Path(U, n, k) = Path(T, n, k)
  <2>1. Path(U, n, k) \subseteq Path(T, n, k)
    <3> DEFINE C == Path(T, n, k)
    <3>1. n \in C /\ C \subseteq DOMAIN T
      BY PathFacts
    <3>2. \A m \in C \cap DOMAIN U : ~IsLeaf(U, m) => ChildFor(U, m, k) \in C
      BY <1>1, <3>1, PathFacts
    <3> HIDE DEF C
    <3>3. Path(U, n, k) \subseteq C
      BY <1>1, <3>1, <3>2, PathFacts
    <3> QED
      BY <3>3 DEF C
  <2>2. Path(T, n, k) \subseteq Path(U, n, k)
    <3> DEFINE C == Path(U, n, k)
    <3>1. n \in C
      BY <1>1, PathFacts
    <3>2. \A m \in C \cap DOMAIN T : ~IsLeaf(T, m) => ChildFor(T, m, k) \in C
      BY <1>1, PathFacts
    <3> HIDE DEF C
    <3>3. Path(T, n, k) \subseteq C
      BY <3>1, <3>2, PathFacts
    <3> QED
      BY <3>3 DEF C
  <2> QED
    BY <2>1, <2>2
<1>3. Reachable(U) \subseteq Reachable(T)
  <2> DEFINE C == Reachable(T)
  <2>1. Root \in C /\ C \subseteq DOMAIN T /\ Root \in DOMAIN U
    BY <1>1, ReachableFacts
  <2>2. \A m \in C \cap DOMAIN U : ~IsLeaf(U, m) => Kids(U, m) \subseteq C
    BY <1>1, <2>1, ReachableFacts
  <2> HIDE DEF C
  <2>3. Reachable(U) \subseteq C
    BY <2>1, <2>2, ReachableFacts
  <2> QED
    BY <2>3 DEF C
<1>4. Reachable(T) \subseteq Reachable(U)
  <2> DEFINE C == Reachable(U)
  <2>1. Root \in C /\ Root \in DOMAIN U
    BY <1>1, ReachableFacts
  <2>2. \A m \in C \cap DOMAIN T : ~IsLeaf(T, m) => Kids(T, m) \subseteq C
    BY <1>1, <2>1, ReachableFacts
  <2> HIDE DEF C
  <2>3. Reachable(T) \subseteq C
    BY <2>1, <2>2, ReachableFacts
  <2> QED
    BY <2>3 DEF C
<1>5. Reachable(U) = Reachable(T) /\ Reachable(T) \subseteq DOMAIN T
  BY <1>3, <1>4, ReachableFacts
<1>6. LeavesOf(U) = LeavesOf(T)
  BY <1>1, <1>5 DEF LeavesOf
<1>7. \A m \in LeavesOf(T) : U[m].key = T[m].key
  BY <1>1, <1>5 DEF LeavesOf
<1>8. KeysOf(U) = KeysOf(T)
  BY <1>6, <1>7 DEF KeysOf
<1> QED
  BY <1>2, <1>5, <1>6, <1>8

-----------------------------------------------------------------------------
(***************************************************************************)
(* The child CAS and the paths.  n gets c for old and keeps s; G is what   *)
(* is unlinked, and k0 the key of the update.                              *)
(***************************************************************************)
Swings(T, U, n, old, c, s, G, k0) ==
  /\ Rooted(T) /\ Shape(T) /\ Rooted(U) /\ DOMAIN U = DOMAIN T /\ Root \in DOMAIN T
  /\ T[Root].retired = 0 /\ Root \notin G
  /\ \A m \in DOMAIN T :
       /\ U[m].key = T[m].key /\ IsLeaf(U, m) = IsLeaf(T, m)
       /\ U[m].retired = 0 <=> T[m].retired = 0 /\ m \notin G
       /\ m # n => Kids(U, m) = Kids(T, m) /\ \A k : ChildFor(U, m, k) = ChildFor(T, m, k)
  /\ \A k : ChildFor(U, n, k) = IF ChildFor(T, n, k) = old THEN c ELSE ChildFor(T, n, k)
  /\ Kids(T, n) = {old, s} /\ Kids(U, n) = {c, s}
  /\ old \in G /\ {n, c, s} \cap G = {} /\ G \subseteq DOMAIN T
  /\ n \in Path(T, Root, k0) /\ ~IsLeaf(T, n) /\ T[n].retired = 0 /\ ChildFor(T, n, k0) = old
  /\ \A m \in G : ~IsLeaf(T, m) => Kids(T, m) \subseteq G \cup {c}
  /\ \A m \in LiveInternal(T) \ G : m # n => Kids(T, m) \cap G = {}

\* No internal child is the root.
LEMMA RootIsNoKid ==
  ASSUME NEW T, NEW D, Shared(T, D), PathTree(T, D), LiveKid(T, Root)
  PROVE  FALSE
<1>1. PICK g \in LiveInternal(T) : Root \in Kids(T, g)
  BY DEF LiveKid
<1>2. g \in DOMAIN T /\ ~IsLeaf(T, g) /\ ~IsLeaf(T, Root)
  BY DEF LiveInternal, Shared, Shape, MaxAtRight
<1>3. g < Root /\ g \in Nat /\ g # 0
  BY <1>1, <1>2, Typed DEF PathTree, OldestFirst
<1> QED
  BY <1>3 DEF Root

LEMMA PathTreeFacts ==
  ASSUME NEW T, NEW D, Shared(T, D), PathTree(T, D)
  PROVE  /\ Rooted(T) /\ Shape(T) /\ Root \in DOMAIN T /\ T[Root].retired = 0
         /\ ~IsLeaf(T, Root)
         /\ Placed(T) /\ Searchable(T) /\ \A m \in Reachable(T) : m \in DOMAIN T /\ T[m].retired = 0
<1>1. Rooted(T) /\ Shape(T) /\ Root \in DOMAIN T /\ T[Root].retired = 0 /\ Placed(T)
      /\ ~IsLeaf(T, Root)
  BY DEF Shared, Shape, PathTree, Rooted, MaxAtRight
<1>2. Searchable(T) /\ Reachable(T) \subseteq DOMAIN T
  BY <1>1, PlacedIsSearchable, ReachableFacts
<1>3. \A m \in Reachable(T) : T[m].retired = 0
  BY <1>1, ReachableIsLive
<1> QED
  BY <1>1, <1>2, <1>3

\* Where a live node joins the path of a key it is on it.
LEMMA LiveJoins ==
  ASSUME NEW T, Rooted(T), NEW n, NEW k, Joins(T, n, k), T[n].retired = 0
  PROVE  n \in Path(T, Root, k)
  BY PathFacts DEF Joins

LEMMA ChildSwings ==
  ASSUME NEW T, NEW D, NEW U, NEW E, NEW o, NEW c,
         Shared(T, D), PathTree(T, D), ChildWrite(T, D, U, E, o, c)
  PROVE  \E s : Swings(T, U, Parent(D[o]), Old(D[o]), c, s, Unlinked(D[o]), D[o].key)
<1> DEFINE n == Parent(D[o])
           old == Old(D[o])
           G == Unlinked(D[o])
           k0 == D[o].key
<1>1. /\ o \in DOMAIN D /\ Swung(T, U, n, old, c, G) /\ E = WithDone(D, o)
      /\ D \in Seq(InfoType)
  BY DEF ChildWrite, Shared
<1>2. PICK s : Fits(T, D, o, n, old, c, s, G)
  BY <1>1, InsertFits, DeleteFits, Kinds
<1>3. /\ Joins(T, n, k0)
      /\ (n < c \/ IsLeaf(T, c))
      /\ \A m \in G : ~IsLeaf(T, m) => Kids(T, m) \subseteq G \cup {c}
  <2>1. CASE D[o].kind = "insert"
    <3>1. n = D[o].p /\ c = D[o].new /\ G = {D[o].l}
      BY <2>1 DEF ChildWrite, Parent, Unlinked
    <3>2. InsertPlan(T, D[o]) /\ IsLeaf(T, D[o].l)
      BY <1>1, <2>1, InsertFacts DEF PathTree, Plans, InsertView
    <3> QED
      BY <3>1, <3>2 DEF InsertPlan
  <2>2. CASE D[o].kind = "delete"
    <3>1. n = D[o].gp /\ old = D[o].p /\ G = {D[o].l, old}
      BY <2>2 DEF Parent, Old, Unlinked
    <3>2. c \in Kids(T, old) \ {D[o].l} /\ T[old].update = Word("mark", o)
      BY <2>2, <3>1 DEF ChildWrite
    <3>3. DeletePlan(T, D[o]) /\ DeleteView(T, D, o)
      BY <1>1, <2>2, DeleteFacts DEF PathTree, Plans
    <3>4. ChildFor(T, old, k0) = D[o].l /\ IsLeaf(T, D[o].l) /\ ~IsLeaf(T, old) /\ old \in DOMAIN T
      BY <3>1, <3>2, <3>3 DEF DeleteView, MayMark, Since, IsInternal
    <3>5. Kids(T, old) = {D[o].l, c}
      BY <3>2, <3>4 DEF ChildFor, Kids
    <3>6. n \in DOMAIN T /\ ~IsLeaf(T, n) /\ old \in Kids(T, n)
      BY <1>2 DEF Fits, LiveInternal
    <3>7. n < old /\ (old < c \/ IsLeaf(T, c))
      BY <3>2, <3>4, <3>6 DEF PathTree, OldestFirst
    <3>8. n \in Nat /\ old \in Nat /\ c \in Nat
      BY <1>2, <3>4, <3>6, Typed DEF Fits
    <3>9. n < c \/ IsLeaf(T, c)
      BY <3>7, <3>8
    <3>10. \A m \in G : ~IsLeaf(T, m) => Kids(T, m) \subseteq G \cup {c}
      BY <3>1, <3>4, <3>5
    <3> QED
      BY <3>1, <3>3, <3>9, <3>10 DEF DeletePlan
  <2> QED
    BY <1>1, <2>1, <2>2, Kinds
<1> HIDE DEF n, old, G, k0
<1>4. /\ ~D[o].done /\ n \in LiveInternal(T) /\ n \in DOMAIN T
      /\ ChildFor(T, n, k0) = old
      /\ Kids(T, n) = {old, s} /\ old # s /\ s \in DOMAIN T
      /\ \A k \in G : LiveKid(T, k) /\ k \in DOMAIN T /\ T[k].retired = 0
      /\ c \in DOMAIN T /\ old \in G /\ c \notin G /\ n \notin G /\ s \notin G /\ c # s
      /\ \A m \in LiveInternal(T) \ G : m # n => Kids(T, m) \cap G = {}
  BY <1>2 DEF Fits, k0
<1>5. /\ Shape(U) /\ Kids(U, n) = {c, s}
      /\ \A m \in DOMAIN T : IsLeaf(U, m) = IsLeaf(T, m)
  BY <1>1, <1>2, SwungShape
<1>6. /\ U \in Seq(NodeType) /\ DOMAIN U = DOMAIN T
      /\ \A m \in DOMAIN T :
           /\ U[m].key = T[m].key
           /\ U[m].retired = IF m \in G THEN T[m].retired + 1 ELSE T[m].retired
           /\ m # n => U[m].left = T[m].left /\ U[m].right = T[m].right
      /\ \/ T[n].left = old /\ U[n].left = c /\ U[n].right = T[n].right
         \/ T[n].right = old /\ U[n].right = c /\ U[n].left = T[n].left
  BY <1>1 DEF Swung
<1>7. Rooted(T) /\ Shape(T) /\ Root \in DOMAIN T /\ T[Root].retired = 0
  BY PathTreeFacts
<1>8. Root \notin G
  BY <1>4, RootIsNoKid
<1>9. ASSUME NEW m \in DOMAIN T
      PROVE  /\ U[m].key = T[m].key /\ IsLeaf(U, m) = IsLeaf(T, m)
             /\ U[m].retired = 0 <=> T[m].retired = 0 /\ m \notin G
             /\ m # n => Kids(U, m) = Kids(T, m) /\ \A k : ChildFor(U, m, k) = ChildFor(T, m, k)
  <2>1. U[m].retired = 0 <=> T[m].retired = 0 /\ m \notin G
    <3>1. m \in G => T[m].retired = 0 /\ U[m].retired = T[m].retired + 1
      BY <1>4, <1>6
    <3>2. m \notin G => U[m].retired = T[m].retired
      BY <1>6
    <3> QED
      BY <3>1, <3>2
  <2> QED
    BY <1>5, <1>6, <2>1 DEF Kids, ChildFor
<1>10. \A k : ChildFor(U, n, k) = IF ChildFor(T, n, k) = old THEN c ELSE ChildFor(T, n, k)
  <2>1. T[n].left # T[n].right
    BY <1>4, LiveFacts
  <2> QED
    BY <1>4, <1>6, <2>1 DEF ChildFor
<1>11. OldestFirst(U)
  <2>1. ASSUME NEW m \in DOMAIN U, ~IsLeaf(U, m), NEW x \in Kids(U, m)
        PROVE  IsLeaf(U, x) \/ m < x
    <3>1. CASE m = n
      <4>1. x = c \/ (x = s /\ s \in Kids(T, n))
        BY <1>4, <1>5, <2>1, <3>1
      <4>2. s \in Kids(T, n) => IsLeaf(T, s) \/ n < s
        BY <1>4 DEF PathTree, OldestFirst, LiveInternal
      <4> QED
        BY <1>3, <1>4, <1>5, <3>1, <4>1, <4>2
    <3>2. CASE m # n
      <4>1. m \in DOMAIN T /\ ~IsLeaf(T, m) /\ x \in Kids(T, m)
        BY <1>6, <1>9, <2>1, <3>2
      <4>2. x \in DOMAIN T /\ (IsLeaf(T, x) \/ m < x)
        BY <4>1 DEF PathTree, OldestFirst, Shared, Shape, Binary
      <4> QED
        BY <1>5, <4>2
    <3> QED
      BY <3>1, <3>2
  <2> QED
    BY <2>1 DEF OldestFirst
<1>12. Rooted(U)
  BY <1>5, <1>6, <1>11 DEF Rooted, Shape
<1>13. n \in Path(T, Root, k0) /\ ~IsLeaf(T, n) /\ T[n].retired = 0
  BY <1>3, <1>4, <1>7, LiveJoins DEF LiveInternal
<1>14. {n, c, s} \cap G = {} /\ G \subseteq DOMAIN T
  BY <1>4
<1>15. Swings(T, U, n, old, c, s, G, k0)
  BY <1>3, <1>4, <1>5, <1>6, <1>7, <1>8, <1>9, <1>10, <1>12, <1>13, <1>14 DEF Swings
<1> QED
  BY <1>15 DEF n, old, G, k0

\* What is not unlinked stays on the paths it was on.
LEMMA SwungPath ==
  ASSUME NEW T, NEW U, NEW n, NEW old, NEW c, NEW s, NEW G, NEW k0,
         Swings(T, U, n, old, c, s, G, k0), NEW k
  PROVE  Path(T, Root, k) \ G \subseteq Path(U, Root, k)
<1> DEFINE P == Path(U, Root, k)
           C == P \cup (IF n \in P /\ ChildFor(T, n, k) = old THEN G ELSE {})
<1>1. /\ Rooted(T) /\ Rooted(U) /\ Root \in DOMAIN T /\ Root \in DOMAIN U /\ DOMAIN U = DOMAIN T
      /\ \A m \in DOMAIN T : IsLeaf(U, m) = IsLeaf(T, m)
      /\ \A m \in DOMAIN T : m # n => ChildFor(U, m, k) = ChildFor(T, m, k)
      /\ ChildFor(U, n, k) = IF ChildFor(T, n, k) = old THEN c ELSE ChildFor(T, n, k)
      /\ n \notin G /\ old \in G
      /\ \A m \in G : ~IsLeaf(T, m) => Kids(T, m) \subseteq G \cup {c}
  BY DEF Swings
<1>2. Root \in P /\ P \subseteq DOMAIN U
      /\ \A m \in P : ~IsLeaf(U, m) => ChildFor(U, m, k) \in P
  BY <1>1, PathFacts
<1>3. ASSUME NEW m \in C \cap DOMAIN T, ~IsLeaf(T, m) PROVE ChildFor(T, m, k) \in C
  <2>1. CASE m \in P /\ m # n
    BY <1>1, <1>2, <1>3, <2>1
  <2>2. CASE m \in P /\ m = n
    BY <1>1, <1>2, <1>3, <2>2
  <2>3. CASE m \notin P
    <3>1. m \in G /\ n \in P /\ ChildFor(T, n, k) = old
      BY <2>3
    <3>2. c \in P
      BY <1>1, <1>2, <1>3, <3>1 DEF Swings
    <3>3. ChildFor(T, m, k) \in G \cup {c}
      BY <1>1, <1>3, <3>1 DEF ChildFor, Kids
    <3> QED
      BY <3>1, <3>2, <3>3
  <2> QED
    BY <2>1, <2>2, <2>3
<1>4. Root \in C /\ C \ G \subseteq P
  BY <1>2
<1> HIDE DEF C
<1>5. Path(T, Root, k) \subseteq C
  BY <1>1, <1>3, <1>4, PathFacts
<1> QED
  BY <1>4, <1>5 DEF P

\* Where a search joins its path, it joins it after the step, and it passes no
\* other nodes than before unless they are on its path.
LEMMA SwungJoins ==
  ASSUME NEW T, NEW U, NEW n, NEW old, NEW c, NEW s, NEW G, NEW k0,
         Swings(T, U, n, old, c, s, G, k0), NEW x, NEW k, Joins(T, x, k)
  PROVE  Joins(U, x, k) /\ Path(U, x, k) \subseteq Path(T, x, k) \cup Path(U, Root, k)
<1> DEFINE P == Path(U, Root, k)
           C == Path(T, x, k) \cup P
<1>1. /\ Rooted(T) /\ Rooted(U) /\ Root \in DOMAIN T /\ Root \in DOMAIN U /\ DOMAIN U = DOMAIN T
      /\ \A m \in DOMAIN T : IsLeaf(U, m) = IsLeaf(T, m)
      /\ \A m \in DOMAIN T : m # n => ChildFor(U, m, k) = ChildFor(T, m, k)
      /\ \A m \in DOMAIN T : U[m].retired = 0 <=> T[m].retired = 0 /\ m \notin G
      /\ n \notin G /\ T[n].retired = 0 /\ x \in DOMAIN T /\ ~IsLeaf(T, n)
  BY DEF Swings, Joins
<1>2. Root \in P /\ P \subseteq DOMAIN U
      /\ \A m \in P : ~IsLeaf(U, m) => ChildFor(U, m, k) \in P
  BY <1>1, PathFacts
<1>3. /\ x \in Path(T, x, k) /\ Path(T, x, k) \subseteq DOMAIN T
      /\ \A m \in Path(T, x, k) : ~IsLeaf(T, m) => ChildFor(T, m, k) \in Path(T, x, k)
  BY <1>1, PathFacts
<1>4. Path(T, Root, k) \ G \subseteq P
  BY SwungPath
<1>5. ASSUME NEW m \in C \cap DOMAIN U, ~IsLeaf(U, m) PROVE ChildFor(U, m, k) \in C
  <2>1. CASE m \in P
    BY <1>2, <1>5, <2>1
  <2>2. CASE m \notin P /\ m # n
    BY <1>1, <1>3, <1>5, <2>2
  <2>3. CASE m \notin P /\ m = n
    <3>1. m \in Path(T, x, k) /\ T[m].retired = 0
      BY <1>1, <2>3
    <3>2. m \in Path(T, Root, k)
      BY <3>1 DEF Joins
    <3> QED
      BY <1>1, <1>4, <2>3, <3>2
  <2> QED
    BY <2>1, <2>2, <2>3
<1>6. x \in C
  BY <1>3
<1> HIDE DEF C
<1>7. Path(U, x, k) \subseteq C
  BY <1>1, <1>5, <1>6, PathFacts
<1>8. ASSUME NEW m \in Path(U, x, k), U[m].retired = 0 PROVE m \in P
  <2>1. CASE m \in P
    BY <2>1
  <2>2. CASE m \notin P
    <3>1. m \in Path(T, x, k) /\ m \in DOMAIN T
      BY <1>3, <1>7, <2>2 DEF C
    <3>2. T[m].retired = 0 /\ m \notin G
      BY <1>1, <1>8, <3>1
    <3>3. m \in Path(T, Root, k)
      BY <3>1, <3>2 DEF Joins
    <3> QED
      BY <1>4, <3>2, <3>3
  <2> QED
    BY <2>1, <2>2
<1> QED
  BY <1>1, <1>7, <1>8 DEF Joins, C, P

\* The old child was on the path of the key; its place is taken by c.
LEMMA SwungPlace ==
  ASSUME NEW T, NEW U, NEW n, NEW old, NEW c, NEW s, NEW G, NEW k0,
         Swings(T, U, n, old, c, s, G, k0)
  PROVE  /\ old \in Path(T, Root, k0) /\ n \in Reachable(T) /\ n \in Path(U, Root, k0)
         /\ c \in Path(U, Root, k0) /\ Reachable(T) \subseteq DOMAIN T
         /\ \A m \in Reachable(T) : T[m].retired = 0
<1>1. /\ Rooted(T) /\ Rooted(U) /\ Root \in DOMAIN T /\ Root \in DOMAIN U /\ DOMAIN U = DOMAIN T
      /\ n \in Path(T, Root, k0) /\ ChildFor(T, n, k0) = old /\ ~IsLeaf(T, n) /\ n \notin G
      /\ Shape(T) /\ T[Root].retired = 0
  BY DEF Swings
<1>2. old \in Path(T, Root, k0) /\ n \in Reachable(T) /\ n \in DOMAIN T
  BY <1>1, PathFacts, PathReachable
<1>3. n \in Path(U, Root, k0)
  BY <1>1, SwungPath
<1>4. ChildFor(U, n, k0) = c /\ ~IsLeaf(U, n)
  BY <1>1, <1>2 DEF Swings
<1>5. c \in Path(U, Root, k0)
  BY <1>1, <1>3, <1>4, PathFacts
<1>6. Reachable(T) \subseteq DOMAIN T /\ \A m \in Reachable(T) : T[m].retired = 0
  BY <1>1, ReachableFacts, ReachableIsLive
<1> QED
  BY <1>2, <1>3, <1>5, <1>6

\* Nothing of what is unlinked is below a node that stays.
LEMMA SwungKids ==
  ASSUME NEW T, NEW U, NEW n, NEW old, NEW c, NEW s, NEW G, NEW k0,
         Swings(T, U, n, old, c, s, G, k0), NEW m \in Reachable(T) \ G, ~IsLeaf(U, m)
  PROVE  IF m = n THEN Kids(U, m) = {c, s} /\ s \in Reachable(T) \ G
         ELSE Kids(U, m) \subseteq Reachable(T) \ G
<1>1. /\ Rooted(T) /\ Root \in DOMAIN T /\ m \in DOMAIN T
      /\ ~IsLeaf(T, m) /\ T[m].retired = 0
  <2>1. m \in DOMAIN T /\ T[m].retired = 0
    BY SwungPlace
  <2> QED
    BY <2>1 DEF Swings
<1>2. Kids(T, m) \subseteq Reachable(T)
  BY <1>1, ReachableFacts
<1>3. CASE m = n
  BY <1>2, <1>3 DEF Swings
<1>4. CASE m # n
  <2>1. Kids(U, m) = Kids(T, m)
    BY <1>1, <1>4 DEF Swings
  <2>2. m \in LiveInternal(T) \ G
    BY <1>1 DEF LiveInternal
  <2>3. Kids(T, m) \cap G = {}
    BY <1>4, <2>2 DEF Swings
  <2> QED
    BY <1>2, <1>4, <2>1, <2>3
<1> QED
  BY <1>3, <1>4

LEMMA SwungReach ==
  ASSUME NEW T, NEW U, NEW n, NEW old, NEW c, NEW s, NEW G, NEW k0,
         Swings(T, U, n, old, c, s, G, k0),
         NEW X, c \in (Reachable(T) \ G) \cup X,
         \A m \in X : ~IsLeaf(U, m) => Kids(U, m) \subseteq X
  PROVE  Reachable(U) \subseteq (Reachable(T) \ G) \cup X
<1> DEFINE C == (Reachable(T) \ G) \cup X
<1>1. Rooted(U) /\ Root \in DOMAIN U /\ Root \notin G /\ Rooted(T) /\ Root \in DOMAIN T
  BY DEF Swings
<1>2. Root \in C
  BY <1>1, ReachableFacts
<1>3. ASSUME NEW m \in C \cap DOMAIN U, ~IsLeaf(U, m) PROVE Kids(U, m) \subseteq C
  <2>1. CASE m \in X
    BY <1>3, <2>1
  <2>2. CASE m \in Reachable(T) \ G
    <3>1. IF m = n THEN Kids(U, m) = {c, s} /\ s \in Reachable(T) \ G
          ELSE Kids(U, m) \subseteq Reachable(T) \ G
      BY <1>3, <2>2, SwungKids
    <3> QED
      BY <3>1
  <2> QED
    BY <2>1, <2>2
<1> HIDE DEF C
<1>4. Reachable(U) \subseteq C
  BY <1>1, <1>2, <1>3, ReachableFacts
<1> QED
  BY <1>4 DEF C

\* A leaf that stays is where its key belongs.
LEMMA SwungLeaf ==
  ASSUME NEW T, NEW U, NEW n, NEW old, NEW c, NEW s, NEW G, NEW k0,
         Swings(T, U, n, old, c, s, G, k0), Placed(T),
         NEW m \in LeavesOf(T) \ G, T[m].key # KeyMax
  PROVE  m \in Path(U, Root, T[m].key) /\ m \in LeavesOf(U) /\ U[m].key = T[m].key
<1>1. m \in Path(T, Root, T[m].key) /\ m \in Reachable(T) /\ IsLeaf(T, m)
  BY DEF Placed, LeavesOf
<1>2. m \in Path(U, Root, T[m].key)
  BY <1>1, SwungPath
<1>3. m \in DOMAIN T
  BY <1>1, SwungPlace
<1>4. IsLeaf(U, m) /\ U[m].key = T[m].key /\ Rooted(U) /\ Root \in DOMAIN U
  BY <1>1, <1>3 DEF Swings
<1>5. m \in Reachable(U)
  BY <1>2, <1>4, PathReachable
<1> QED
  BY <1>2, <1>4, <1>5 DEF LeavesOf

\* A deletion takes its key out of the tree, and leaves all others where they are.
LEMMA DeleteTakes ==
  ASSUME NEW T, NEW D, NEW U, NEW E, NEW o, NEW c,
         Shared(T, D), PathTree(T, D), ChildWrite(T, D, U, E, o, c), D[o].kind = "delete"
  PROVE  /\ Placed(U) /\ KeysOf(U) = KeysOf(T) \ {D[o].key} /\ D[o].key \in KeysOf(T)
<1> DEFINE n == Parent(D[o])
           old == Old(D[o])
           G == Unlinked(D[o])
           k0 == D[o].key
           l == D[o].l
<1>1. PICK s : Swings(T, U, n, old, c, s, G, k0)
  BY ChildSwings
<1>2. o \in DOMAIN D /\ old = D[o].p /\ G = {l, old} /\ c \in Kids(T, old) \ {l}
      /\ T[old].update = Word("mark", o)
  BY DEF ChildWrite, Parent, Old, Unlinked
<1>3. DeletePlan(T, D[o]) /\ DeleteView(T, D, o)
  BY <1>2, DeleteFacts DEF PathTree, Plans
<1>4. /\ T[l].key = k0 /\ IsLeaf(T, l) /\ old \in DOMAIN T /\ ~IsLeaf(T, old)
      /\ ChildFor(T, old, k0) = l
  BY <1>2, <1>3 DEF DeletePlan, DeleteView, MayMark, Since, IsInternal
<1>5. Rooted(T) /\ Root \in DOMAIN T /\ Placed(T) /\ k0 \in AllKeys /\ k0 # KeyMax
  BY <1>2, PathTreeFacts, Kinds, EllenTreeAssumption DEF AllKeys
<1>6. old \in Path(T, Root, k0) /\ Reachable(T) \subseteq DOMAIN T /\ c \notin G
  <2> HIDE DEF n, old, G, k0, l
  <2>1. c \notin G
    BY <1>1 DEF Swings
  <2> QED
    BY <1>1, <2>1, SwungPlace
<1> HIDE DEF n, old, G, k0, l
<1>7. l \in Path(T, Root, k0) /\ old \in Reachable(T)
  BY <1>4, <1>5, <1>6, PathFacts, PathReachable
<1>8. l \in LeavesOf(T) /\ c \in Reachable(T) \ G
  <2>1. Kids(T, old) \subseteq Reachable(T) /\ l \in Reachable(T)
    BY <1>4, <1>5, <1>7, ReachableFacts, PathReachable
  <2> QED
    BY <1>2, <1>4, <1>6, <2>1 DEF LeavesOf
<1>9. Reachable(U) \subseteq Reachable(T) \ G
  <2> DEFINE X == {}
  <2>1. c \in (Reachable(T) \ G) \cup X /\ \A m \in X : ~IsLeaf(U, m) => Kids(U, m) \subseteq X
    BY <1>8
  <2> HIDE DEF X
  <2>2. Reachable(U) \subseteq (Reachable(T) \ G) \cup X
    BY <1>1, <2>1, SwungReach
  <2> QED
    BY <2>2 DEF X
<1>10. LeavesOf(U) \subseteq LeavesOf(T) \ G /\ \A m \in LeavesOf(U) : U[m].key = T[m].key
  <2>1. \A m \in DOMAIN T : U[m].key = T[m].key /\ IsLeaf(U, m) = IsLeaf(T, m)
    BY <1>1 DEF Swings
  <2> QED
    BY <1>6, <1>9, <2>1 DEF LeavesOf
<1>11. \A m \in LeavesOf(T) \ G : T[m].key # KeyMax =>
         m \in Path(U, Root, T[m].key) /\ m \in LeavesOf(U) /\ U[m].key = T[m].key
  BY <1>1, <1>5, SwungLeaf
<1>12. Placed(U)
  BY <1>10, <1>11 DEF Placed
<1>13. \A m \in LeavesOf(T) \ {l} : T[m].key # k0 /\ m \notin G
  <2>1. ASSUME NEW m \in LeavesOf(T) \ {l} PROVE T[m].key # k0 /\ m \notin G
    <3>1. T[m].key = k0 => m \in Path(T, Root, k0)
      BY <1>5 DEF Placed
    <3>2. IsLeaf(T, m)
      BY DEF LeavesOf
    <3>3. T[m].key # k0
      BY <1>4, <1>5, <1>7, <3>1, <3>2, OneLeaf
    <3> QED
      BY <1>2, <1>4, <3>2, <3>3
  <2> QED
    BY <2>1
<1>14. k0 \in KeysOf(T)
  BY <1>4, <1>5, <1>8 DEF KeysOf
<1>15. KeysOf(U) \subseteq KeysOf(T) \ {k0}
  BY <1>2, <1>10, <1>13 DEF KeysOf
<1>16. KeysOf(T) \ {k0} \subseteq KeysOf(U)
  <2>1. ASSUME NEW k \in KeysOf(T) \ {k0} PROVE k \in KeysOf(U)
    <3>1. PICK m \in LeavesOf(T) : T[m].key = k /\ k # KeyMax
      BY DEF KeysOf
    <3>2. m # l
      BY <1>4, <3>1
    <3>3. m \in LeavesOf(U) /\ U[m].key = k
      BY <1>11, <1>13, <3>1, <3>2
    <3> QED
      BY <3>1, <3>3 DEF KeysOf
  <2> QED
    BY <2>1
<1> QED
  BY <1>12, <1>14, <1>15, <1>16 DEF k0

\* A step on a path to a node other than its first comes from a node on the path.
LEMMA PathFrom ==
  ASSUME NEW T, Rooted(T), NEW n \in DOMAIN T, NEW k, NEW x \in Path(T, n, k), x # n
  PROVE  \E m \in Path(T, n, k) : ~IsLeaf(T, m) /\ ChildFor(T, m, k) = x
<1>1. SUFFICES ASSUME \A m \in Path(T, n, k) : ~IsLeaf(T, m) => ChildFor(T, m, k) # x
               PROVE  FALSE
  OBVIOUS
<1> DEFINE C == Path(T, n, k) \ {x}
<1>2. n \in C /\ \A m \in C \cap DOMAIN T : ~IsLeaf(T, m) => ChildFor(T, m, k) \in C
  BY <1>1, PathFacts
<1>3. x \notin C
  OBVIOUS
<1> HIDE DEF C
<1>4. Path(T, n, k) \subseteq C
  BY <1>2, PathFacts
<1> QED
  BY <1>3, <1>4

\* An insertion adds its key to the tree, and leaves all others in it; the new
\* leaf of the key that was there takes the place of the old one.
LEMMA InsertAdds ==
  ASSUME NEW T, NEW D, NEW U, NEW E, NEW o, NEW c,
         Shared(T, D), PathTree(T, D), ChildWrite(T, D, U, E, o, c), D[o].kind = "insert"
  PROVE  /\ Placed(U) /\ KeysOf(U) = KeysOf(T) \cup {D[o].key} /\ D[o].key \notin KeysOf(T)
<1> DEFINE n == Parent(D[o])
           l == Old(D[o])
           G == Unlinked(D[o])
           k0 == D[o].key
           kl == T[l].key
<1>1. PICK s : Swings(T, U, n, l, c, s, G, k0)
  BY ChildSwings
<1>2. o \in DOMAIN D /\ n = D[o].p /\ l = D[o].l /\ G = {l} /\ c = D[o].new
  BY DEF ChildWrite, Parent, Old, Unlinked
<1>3. ~D[o].done /\ n \in LiveInternal(T) /\ ChildFor(T, n, k0) = l
  BY InsertFits DEF Fits
<1>4. /\ IsLeaf(T, l) /\ l \in DOMAIN T /\ c \in DOMAIN T /\ ~IsLeaf(T, c) /\ n < c
      /\ kl # k0 /\ (\A x \in Kids(T, c) : IsLeaf(T, x))
      /\ \A k \in {k0, kl} : T[ChildFor(T, c, k)].key = k
  BY <1>2, <1>3, InsertFacts DEF PathTree, Plans, InsertPlan, InsertView, IsInternal
<1>5. /\ Rooted(T) /\ Root \in DOMAIN T /\ Placed(T) /\ k0 \in AllKeys /\ k0 # KeyMax
      /\ Rooted(U) /\ Root \in DOMAIN U /\ DOMAIN U = DOMAIN T
  BY <1>1, <1>2, PathTreeFacts, Kinds, EllenTreeAssumption DEF AllKeys, Swings
<1>6. /\ l \in Path(T, Root, k0) /\ Reachable(T) \subseteq DOMAIN T /\ c \notin G
      /\ n \in Reachable(T) /\ n \in Path(U, Root, k0) /\ c \in Path(U, Root, k0)
      /\ \A m \in Reachable(T) : T[m].retired = 0
  <2> HIDE DEF n, l, G, k0, kl
  <2>1. c \notin G
    BY <1>1 DEF Swings
  <2> QED
    BY <1>1, <2>1, SwungPlace
<1>7. n \in Nat /\ c # n /\ c \in Nat /\ n \notin G /\ ~IsLeaf(T, n) /\ n \in DOMAIN T
  <2>1. n \in DOMAIN T /\ ~IsLeaf(T, n)
    BY <1>3 DEF LiveInternal
  <2>2. n \in Nat /\ c \in Nat
    BY <1>4, <2>1, Typed
  <2> QED
    BY <1>2, <1>4, <2>1, <2>2
<1> HIDE DEF n, l, G, k0, kl
<1>8. l \in LeavesOf(T)
  BY <1>4, <1>5, <1>6, PathReachable DEF LeavesOf
\* The new nodes.
<1>9. /\ Kids(U, c) = Kids(T, c) /\ \A k : ChildFor(U, c, k) = ChildFor(T, c, k)
      /\ Kids(T, c) \subseteq DOMAIN T
      /\ \A m \in DOMAIN T : U[m].key = T[m].key /\ IsLeaf(U, m) = IsLeaf(T, m)
  BY <1>1, <1>4, <1>7 DEF Swings, Rooted, Binary
<1>10. Kids(T, c) = {ChildFor(T, c, k0), ChildFor(T, c, kl)}
  BY <1>4 DEF ChildFor, Kids
<1>11. kl # KeyMax => c \in Path(U, Root, kl)
  <2>1. SUFFICES ASSUME kl # KeyMax PROVE c \in Path(U, Root, kl)
    OBVIOUS
  <2>2. l \in Path(T, Root, kl)
    BY <1>5, <1>8, <2>1 DEF Placed, kl
  <2>3. PICK m \in Path(T, Root, kl) : ~IsLeaf(T, m) /\ ChildFor(T, m, kl) = l
    <3>1. l # Root
      BY <1>4, PathTreeFacts
    <3> QED
      BY <1>5, <2>2, <3>1, PathFrom
  <2>4. m \in Reachable(T)
    BY <1>5, PathReachable
  <2>5. m \in LiveInternal(T)
    BY <1>6, <2>3, <2>4 DEF LiveInternal
  <2>6. l \in Kids(T, m) /\ l \in Kids(T, n)
    BY <1>3, <2>3 DEF ChildFor, Kids
  <2>7. m = n
    BY <1>3, <2>5, <2>6, LiveFacts
  <2>8. n \in Path(U, Root, kl)
    BY <1>1, <1>7, <2>7, SwungPath
  <2>9. ChildFor(U, n, kl) = c /\ ~IsLeaf(U, n)
    BY <1>1, <1>7, <1>9, <2>3, <2>7 DEF Swings
  <2> QED
    BY <1>5, <2>8, <2>9, PathFacts
<1>12. ASSUME NEW k \in {k0, kl}, k # KeyMax
       PROVE  /\ ChildFor(T, c, k) \in Path(U, Root, k)
              /\ ChildFor(T, c, k) \in LeavesOf(U) /\ U[ChildFor(T, c, k)].key = k
  <2> DEFINE x == ChildFor(T, c, k)
  <2>1. c \in Path(U, Root, k) /\ ~IsLeaf(U, c)
    BY <1>4, <1>6, <1>9, <1>11, <1>12
  <2>2. x \in Path(U, Root, k)
    BY <1>5, <1>9, <2>1, PathFacts
  <2>3. x \in Kids(T, c) /\ x \in DOMAIN T
    BY <1>9 DEF ChildFor, Kids
  <2>4. IsLeaf(U, x) /\ U[x].key = k
    BY <1>4, <1>9, <2>3
  <2> QED
    BY <1>5, <2>2, <2>4, PathReachable DEF LeavesOf
<1>13. Reachable(U) \subseteq (Reachable(T) \ G) \cup ({c} \cup Kids(T, c))
  <2> DEFINE X == {c} \cup Kids(T, c)
  <2>1. c \in (Reachable(T) \ G) \cup X /\ \A m \in X : ~IsLeaf(U, m) => Kids(U, m) \subseteq X
    BY <1>4, <1>9
  <2> HIDE DEF X
  <2>2. Reachable(U) \subseteq (Reachable(T) \ G) \cup X
    BY <1>1, <2>1, SwungReach
  <2> QED
    BY <2>2 DEF X
<1>14. \A m \in LeavesOf(U) : U[m].key = T[m].key /\ (m \in LeavesOf(T) \ G \/ m \in Kids(T, c))
  BY <1>4, <1>6, <1>9, <1>13 DEF LeavesOf
<1>15. \A m \in LeavesOf(T) \ G : T[m].key # KeyMax =>
         m \in Path(U, Root, T[m].key) /\ m \in LeavesOf(U) /\ U[m].key = T[m].key
  BY <1>1, <1>5, SwungLeaf
<1>16. ASSUME NEW m \in Kids(T, c)
       PROVE  /\ T[m].key \in {k0, kl}
              /\ T[m].key # KeyMax => m \in Path(U, Root, T[m].key)
  <2>1. PICK k \in {k0, kl} : m = ChildFor(T, c, k)
    BY <1>10
  <2>2. T[m].key = k
    BY <1>4, <2>1
  <2> QED
    BY <1>12, <2>1, <2>2
<1>17. Placed(U)
  BY <1>14, <1>15, <1>16 DEF Placed
<1>18. k0 \notin KeysOf(T)
  <2>1. SUFFICES ASSUME NEW m \in LeavesOf(T), T[m].key = k0 PROVE FALSE
    BY DEF KeysOf
  <2>2. m \in Path(T, Root, k0) /\ IsLeaf(T, m)
    BY <1>5, <2>1 DEF Placed, LeavesOf
  <2>3. m = l
    BY <1>4, <1>5, <1>6, <2>2, OneLeaf
  <2> QED
    BY <1>4, <2>1, <2>3 DEF kl
<1>19. KeysOf(U) \subseteq KeysOf(T) \cup {k0}
  <2>1. ASSUME NEW m \in LeavesOf(U), U[m].key # KeyMax PROVE U[m].key \in KeysOf(T) \cup {k0}
    <3>1. CASE m \in LeavesOf(T) \ G
      BY <1>14, <2>1, <3>1 DEF KeysOf
    <3>2. CASE m \in Kids(T, c)
      <4>1. kl # KeyMax => kl \in KeysOf(T)
        BY <1>8 DEF KeysOf, kl
      <4> QED
        BY <1>14, <1>16, <2>1, <3>2, <4>1
    <3> QED
      BY <1>14, <3>1, <3>2
  <2> QED
    BY <2>1 DEF KeysOf
<1>20. KeysOf(T) \cup {k0} \subseteq KeysOf(U)
  <2>1. k0 \in KeysOf(U)
    BY <1>5, <1>12 DEF KeysOf
  <2>2. ASSUME NEW k \in KeysOf(T) PROVE k \in KeysOf(U)
    <3>1. PICK m \in LeavesOf(T) : T[m].key = k /\ k # KeyMax
      BY DEF KeysOf
    <3>2. CASE m = l
      <4>1. k = kl
        BY <3>1, <3>2 DEF kl
      <4> QED
        BY <1>12, <3>1, <4>1 DEF KeysOf
    <3>3. CASE m # l
      BY <1>2, <1>15, <3>1, <3>3 DEF KeysOf
    <3> QED
      BY <3>2, <3>3
  <2> QED
    BY <2>1, <2>2
<1> QED
  BY <1>17, <1>18, <1>19, <1>20 DEF k0

-----------------------------------------------------------------------------
(***************************************************************************)
(* What every step keeps: a search passes no other nodes than before,      *)
(* unless they are on the path of its key.                                 *)
(***************************************************************************)
Keeps(T, U) ==
  /\ DOMAIN T \subseteq DOMAIN U
  /\ \A m \in DOMAIN T : U[m].key = T[m].key /\ IsLeaf(U, m) = IsLeaf(T, m)
  /\ \A x, k : Joins(T, x, k) =>
       Joins(U, x, k) /\ Path(U, x, k) \subseteq Path(T, x, k) \cup Path(U, Root, k)

LEMMA PathLocalKept ==
  ASSUME NEW T, NEW D, NEW U, Shared(T, D), Keeps(T, U),
         NEW me, LocalView(T, D, me), PathLocal(T, me)
  PROVE  PathLocal(U, me)
<1>1. me.pc = "cas" => U[me.l].key = T[me.l].key
  BY DEF LocalView, SearchView, Keeps
<1>2. \A x, k : Joins(T, x, k) => Joins(U, x, k)
  BY DEF Keeps
<1> QED
  BY <1>1, <1>2 DEF PathLocal

\* Until an insertion is done the internal node it made is not in the tree.
LEMMA NewIsOut ==
  ASSUME NEW T, NEW D, Shared(T, D), PathTree(T, D),
         NEW q \in DOMAIN D, D[q].kind = "insert", ~D[q].done
  PROVE  D[q].new \notin Reachable(T) /\ D[q].new \in DOMAIN T /\ ~IsLeaf(T, D[q].new)
<1> DEFINE new == D[q].new
           C == Reachable(T) \ {new}
<1>1. InsertView(T, D, q) /\ InsertPlan(T, D[q])
  BY InsertFacts DEF PathTree, Plans
<1>2. /\ new \in DOMAIN T /\ ~IsLeaf(T, new) /\ D[q].p < new /\ D[q].p \in DOMAIN T
      /\ \A m \in LiveInternal(T) : new \notin Kids(T, m)
  BY <1>1 DEF InsertView, InsertPlan, IsInternal
<1>3. Rooted(T) /\ Root \in DOMAIN T /\ \A m \in Reachable(T) : m \in DOMAIN T /\ T[m].retired = 0
  BY PathTreeFacts
<1>4. new # Root
  <2>1. D[q].p \in Nat /\ D[q].p # 0 /\ new \in Nat
    BY <1>2, Typed
  <2> QED
    BY <1>2, <2>1 DEF Root
<1>5. Root \in C
  BY <1>3, <1>4, ReachableFacts
<1>6. ASSUME NEW m \in C \cap DOMAIN T, ~IsLeaf(T, m) PROVE Kids(T, m) \subseteq C
  <2>1. m \in LiveInternal(T)
    BY <1>3, <1>6 DEF LiveInternal
  <2>2. Kids(T, m) \subseteq Reachable(T)
    BY <1>3, <1>6, ReachableFacts
  <2> QED
    BY <1>2, <2>1, <2>2
<1>7. new \notin C
  OBVIOUS
<1> HIDE DEF C
<1>8. Reachable(T) \subseteq C
  BY <1>3, <1>5, <1>6, ReachableFacts
<1> QED
  BY <1>2, <1>7, <1>8

\* A plan stays good where the three new nodes of an insertion stay as they are.
LEMMA PlanKept ==
  ASSUME NEW T, NEW D, NEW U, NEW E, Shared(T, D), PathTree(T, D), Keeps(T, U),
         NEW q \in DOMAIN D, SameUpdate(D[q], E[q]), D[q].done => E[q].done,
         D[q].kind = "insert" /\ ~E[q].done =>
           /\ Kids(U, D[q].new) = Kids(T, D[q].new)
           /\ \A k : ChildFor(U, D[q].new, k) = ChildFor(T, D[q].new, k)
  PROVE  IF E[q].kind = "insert" THEN InsertPlan(U, E[q]) ELSE DeletePlan(U, E[q])
<1>1. \A x, k : Joins(T, x, k) => Joins(U, x, k)
  BY DEF Keeps
<1>2. D[q].l \in DOMAIN T /\ U[D[q].l].key = T[D[q].l].key
  <2>1. D[q].l \in DOMAIN T
    BY Kinds, InsertFacts, DeleteFacts DEF InsertView, DeleteView
  <2> QED
    BY <2>1 DEF Keeps
<1>3. CASE D[q].kind = "insert"
  <2>1. InsertPlan(T, D[q]) /\ E[q].kind = "insert"
    BY <1>3 DEF PathTree, Plans, SameUpdate
  <2>2. ASSUME ~E[q].done
        PROVE  /\ \A c \in Kids(U, D[q].new) : IsLeaf(U, c)
               /\ \A k \in {D[q].key, U[D[q].l].key} : U[ChildFor(U, D[q].new, k)].key = k
    <3>1. D[q].new \in DOMAIN T /\ ~IsLeaf(T, D[q].new)
      BY <1>3, <2>2, NewIsOut
    <3>2. Kids(T, D[q].new) \subseteq DOMAIN T
      BY <3>1 DEF Shared, Shape, Binary
    <3>3. \A k : ChildFor(T, D[q].new, k) \in Kids(T, D[q].new)
      BY DEF ChildFor, Kids
    <3>4. \A c \in Kids(T, D[q].new) : U[c].key = T[c].key /\ IsLeaf(U, c) = IsLeaf(T, c)
      BY <3>2 DEF Keeps
    <3>5. /\ \A c \in Kids(T, D[q].new) : IsLeaf(T, c)
          /\ \A k \in {D[q].key, T[D[q].l].key} : T[ChildFor(T, D[q].new, k)].key = k
      BY <2>1, <2>2 DEF InsertPlan
    <3> QED
      BY <1>2, <1>3, <2>2, <3>3, <3>4, <3>5
  <2>3. D[q].p < D[q].new /\ Joins(U, D[q].p, D[q].key) /\ U[D[q].l].key # D[q].key
    BY <1>1, <1>2, <2>1 DEF InsertPlan
  <2> QED
    BY <2>1, <2>2, <2>3 DEF InsertPlan, SameUpdate
<1>4. CASE D[q].kind = "delete"
  <2>1. DeletePlan(T, D[q]) /\ E[q].kind = "delete"
    BY <1>4 DEF PathTree, Plans, SameUpdate
  <2> QED
    BY <1>1, <1>2, <2>1 DEF DeletePlan, SameUpdate
<1> QED
  BY <1>3, <1>4, Kinds

\* The child CAS keeps the tree sound.
LEMMA ChildPaths ==
  ASSUME NEW T, NEW D, NEW U, NEW E, NEW o, NEW c,
         Shared(T, D), PathTree(T, D), ChildWrite(T, D, U, E, o, c)
  PROVE  PathTree(U, E) /\ Keeps(T, U)
<1> DEFINE n == Parent(D[o])
           old == Old(D[o])
           G == Unlinked(D[o])
           k0 == D[o].key
<1>1. PICK s : Swings(T, U, n, old, c, s, G, k0)
  BY ChildSwings
<1>2. /\ E \in Seq(InfoType) /\ DOMAIN E = DOMAIN D /\ E[o].done /\ o \in DOMAIN D
      /\ \A q \in DOMAIN D : /\ SameUpdate(D[q], E[q])
                             /\ q # o => E[q].done = D[q].done
  BY SetDone DEF ChildWrite, Shared
<1>3. Placed(U)
  BY <1>2, DeleteTakes, InsertAdds, Kinds
<1> HIDE DEF n, old, G, k0
<1>4. Keeps(T, U)
  <2>1. DOMAIN U = DOMAIN T
        /\ \A m \in DOMAIN T : U[m].key = T[m].key /\ IsLeaf(U, m) = IsLeaf(T, m)
    BY <1>1 DEF Swings
  <2>2. \A x, k : Joins(T, x, k) =>
          Joins(U, x, k) /\ Path(U, x, k) \subseteq Path(T, x, k) \cup Path(U, Root, k)
    BY <1>1, SwungJoins
  <2> QED
    BY <2>1, <2>2 DEF Keeps
<1>5. OldestFirst(U) /\ U[Root].retired = 0
  BY <1>1 DEF Swings, Rooted
<1>6. ASSUME NEW q \in DOMAIN E
      PROVE  IF E[q].kind = "insert" THEN InsertPlan(U, E[q]) ELSE DeletePlan(U, E[q])
  <2>1. D[q].done => E[q].done
    BY <1>2
  <2>2. ASSUME D[q].kind = "insert", ~E[q].done
        PROVE  /\ Kids(U, D[q].new) = Kids(T, D[q].new)
               /\ \A k : ChildFor(U, D[q].new, k) = ChildFor(T, D[q].new, k)
    <3>1. ~D[q].done
      BY <1>2, <2>2
    <3>2. D[q].new \notin Reachable(T) /\ D[q].new \in DOMAIN T
      BY <1>2, <2>2, <3>1, NewIsOut
    <3>3. n \in Reachable(T)
      BY <1>1, SwungPlace
    <3> QED
      BY <1>1, <3>2, <3>3 DEF Swings
  <2> QED
    BY <1>2, <1>4, <2>1, <2>2, PlanKept
<1> QED
  BY <1>3, <1>4, <1>5, <1>6 DEF PathTree, Plans

\* A step that changes words only keeps the tree sound when what it adds is.
LEMMA QuietKeeps ==
  ASSUME NEW T, NEW D, NEW U, Shared(T, D), PathTree(T, D), Quiet(T, U), Rooted(U)
  PROVE  Keeps(T, U) /\ Placed(U) /\ U[Root].retired = 0 /\ KeysOf(U) = KeysOf(T)
<1>1. Rooted(T) /\ Root \in DOMAIN T /\ T[Root].retired = 0 /\ Placed(T)
  BY PathTreeFacts
<1>2. /\ \A m \in DOMAIN T : \A k : Path(U, m, k) = Path(T, m, k)
      /\ LeavesOf(U) = LeavesOf(T) /\ KeysOf(U) = KeysOf(T) /\ Reachable(T) \subseteq DOMAIN T
  BY <1>1, QuietPaths, ReachableFacts
<1>3. /\ DOMAIN T \subseteq DOMAIN U /\ U[Root].retired = 0
      /\ \A m \in DOMAIN T : /\ U[m].key = T[m].key /\ IsLeaf(U, m) = IsLeaf(T, m)
                             /\ U[m].retired = T[m].retired
  BY <1>1 DEF Quiet, IsLeaf
<1>4. ASSUME NEW x, NEW k, Joins(T, x, k) PROVE Joins(U, x, k) /\ Path(U, x, k) = Path(T, x, k)
  <2>1. x \in DOMAIN T
    BY <1>4 DEF Joins
  <2>2. Path(U, x, k) = Path(T, x, k) /\ Path(U, Root, k) = Path(T, Root, k)
    BY <1>1, <1>2, <2>1
  <2>3. Path(T, x, k) \subseteq DOMAIN T
    BY <1>1, <2>1, PathFacts
  <2> QED
    BY <1>3, <1>4, <2>1, <2>2, <2>3 DEF Joins
<1>5. Keeps(T, U)
  BY <1>3, <1>4 DEF Keeps
<1>6. Placed(U)
  <2>1. ASSUME NEW m \in LeavesOf(U), U[m].key # KeyMax PROVE m \in Path(U, Root, U[m].key)
    <3>1. m \in LeavesOf(T) /\ m \in DOMAIN T
      BY <1>2 DEF LeavesOf
    <3>2. U[m].key = T[m].key
      BY <1>3, <3>1
    <3> QED
      BY <1>1, <1>2, <2>1, <3>1, <3>2 DEF Placed
  <2> QED
    BY <2>1 DEF Placed
<1> QED
  BY <1>2, <1>3, <1>5, <1>6

LEMMA QuietTree ==
  ASSUME NEW T, NEW D, NEW U, NEW E, Shared(T, D), PathTree(T, D), Quiet(T, U), Rooted(U),
         \A q \in DOMAIN D : SameUpdate(D[q], E[q]) /\ E[q].done = D[q].done,
         \A q \in DOMAIN E \ DOMAIN D :
           IF E[q].kind = "insert" THEN InsertPlan(U, E[q]) ELSE DeletePlan(U, E[q])
  PROVE  PathTree(U, E) /\ Keeps(T, U) /\ KeysOf(U) = KeysOf(T)
<1>1. Keeps(T, U) /\ Placed(U) /\ U[Root].retired = 0 /\ KeysOf(U) = KeysOf(T)
  BY QuietKeeps
<1>2. OldestFirst(U)
  BY DEF Rooted
<1>3. ASSUME NEW q \in DOMAIN D
      PROVE  IF E[q].kind = "insert" THEN InsertPlan(U, E[q]) ELSE DeletePlan(U, E[q])
  <2>1. SameUpdate(D[q], E[q]) /\ (D[q].done => E[q].done)
    OBVIOUS
  <2>2. ASSUME D[q].kind = "insert", ~E[q].done
        PROVE  /\ Kids(U, D[q].new) = Kids(T, D[q].new)
               /\ \A k : ChildFor(U, D[q].new, k) = ChildFor(T, D[q].new, k)
    <3>1. D[q].new \in DOMAIN T
      BY <2>2, NewIsOut
    <3> QED
      BY <3>1 DEF Quiet, Kids, ChildFor
  <2> QED
    BY <1>1, <2>1, <2>2, PlanKept
<1> QED
  BY <1>1, <1>2, <1>3 DEF PathTree, Plans

-----------------------------------------------------------------------------
(***************************************************************************)
(* The four writes that are not child CASs.                                *)
(***************************************************************************)
LEMMA WordRooted ==
  ASSUME NEW T, NEW D, Shared(T, D), PathTree(T, D), NEW p \in DOMAIN T, NEW w \in WordType,
         NEW U, U = WithWord(T, p, w)
  PROVE  Quiet(T, U) /\ Rooted(U) /\ DOMAIN U = DOMAIN T
<1>1. T \in Seq(NodeType) /\ Binary(T) /\ OldestFirst(T)
  BY PathTreeFacts DEF Rooted
<1>2. /\ U \in Seq(NodeType) /\ DOMAIN U = DOMAIN T
      /\ \A n \in DOMAIN T :
           /\ U[n].key = T[n].key /\ U[n].left = T[n].left
           /\ U[n].right = T[n].right /\ U[n].retired = T[n].retired
           /\ IsLeaf(U, n) = IsLeaf(T, n)
  BY <1>1, SetWord
<1>3. \A n \in DOMAIN T : Kids(U, n) = Kids(T, n)
  BY <1>2 DEF Kids
<1>4. Binary(U)
  BY <1>1, <1>2, <1>3 DEF Binary
<1>5. OldestFirst(U)
  <2>1. ASSUME NEW n \in DOMAIN U, ~IsLeaf(U, n), NEW c \in Kids(U, n)
        PROVE  IsLeaf(U, c) \/ n < c
    <3>1. n \in DOMAIN T /\ ~IsLeaf(T, n) /\ c \in Kids(T, n)
      BY <1>2, <1>3, <2>1
    <3>2. c \in DOMAIN T /\ (IsLeaf(T, c) \/ n < c)
      BY <1>1, <3>1 DEF Binary, OldestFirst
    <3> QED
      BY <1>2, <3>2
  <2> QED
    BY <2>1 DEF OldestFirst
<1>6. Quiet(T, U)
  BY <1>2 DEF Quiet
<1> QED
  BY <1>2, <1>4, <1>5, <1>6 DEF Rooted

LEMMA MarkPaths ==
  ASSUME NEW T, NEW D, NEW U, NEW E, NEW o, Shared(T, D), PathTree(T, D),
         MarkWrite(T, D, U, E, o)
  PROVE  PathTree(U, E) /\ Keeps(T, U) /\ KeysOf(U) = KeysOf(T)
<1>1. o \in DOMAIN D /\ D[o].kind = "delete" /\ E = D
  BY DEF MarkWrite
<1>2. D[o].p \in DOMAIN T
  BY <1>1, DeleteFacts DEF DeleteView, Since, IsInternal
<1> DEFINE w == Word("mark", o)
<1>3. w \in WordType
  BY <1>1, Typed DEF Word, WordType
<1>4. U = WithWord(T, D[o].p, w)
  BY DEF MarkWrite
<1> HIDE DEF w
<1>5. Quiet(T, U) /\ Rooted(U)
  BY <1>2, <1>3, <1>4, WordRooted
<1>6. \A q \in DOMAIN D : SameUpdate(D[q], E[q]) /\ E[q].done = D[q].done
  BY <1>1 DEF SameUpdate
<1>7. DOMAIN E \ DOMAIN D = {}
  BY <1>1
<1> QED
  BY <1>5, <1>6, <1>7, QuietTree

LEMMA CleanPaths ==
  ASSUME NEW T, NEW D, NEW U, NEW E, NEW o, Shared(T, D), PathTree(T, D),
         CleanWrite(T, D, U, E, o)
  PROVE  PathTree(U, E) /\ Keeps(T, U) /\ KeysOf(U) = KeysOf(T)
<1>1. o \in DOMAIN D /\ E = WithRetired(D, o) /\ D \in Seq(InfoType)
  BY DEF CleanWrite, Shared
<1>2. Parent(D[o]) \in DOMAIN T
  BY <1>1, ParentIsNode
<1> DEFINE w == Clean(o)
<1>3. w \in WordType
  BY <1>1, Typed DEF Clean, Word, WordType
<1>4. U = WithWord(T, Parent(D[o]), w)
  BY DEF CleanWrite
<1> HIDE DEF w
<1>5. Quiet(T, U) /\ Rooted(U)
  BY <1>2, <1>3, <1>4, WordRooted
<1>6. /\ DOMAIN E = DOMAIN D
      /\ \A q \in DOMAIN D : SameUpdate(D[q], E[q]) /\ E[q].done = D[q].done
  BY <1>1, SetRetired
<1>7. DOMAIN E \ DOMAIN D = {}
  BY <1>6
<1> QED
  BY <1>5, <1>6, <1>7, QuietTree

LEMMA FlagDeletePaths ==
  ASSUME NEW T, NEW D, NEW U, NEW E, NEW gp, NEW gw, NEW p, NEW w, NEW l, NEW k,
         Shared(T, D), PathTree(T, D), FlagDeleteWrite(T, D, U, E, gp, gw, p, w, l, k),
         Joins(T, gp, k), Joins(T, p, k), T[l].key = k
  PROVE  PathTree(U, E) /\ Keeps(T, U) /\ KeysOf(U) = KeysOf(T)
<1> DEFINE v == Word("dflag", Len(D) + 1)
           d == DeleteInfo(gp, p, l, w, k)
<1>1. /\ U = WithWord(T, gp, v) /\ E = Append(D, d) /\ D \in Seq(InfoType)
      /\ gp \in DOMAIN T /\ l \in DOMAIN T
  BY DEF FlagDeleteWrite, Joins, Shared
<1>2. v \in WordType
  BY Typed DEF Word, WordType
<1>3. d.kind = "delete" /\ d.gp = gp /\ d.p = p /\ d.l = l /\ d.key = k
  BY DEF DeleteInfo
<1> HIDE DEF v, d
<1>4. Quiet(T, U) /\ Rooted(U)
  BY <1>1, <1>2, WordRooted
<1>5. /\ DOMAIN E \ DOMAIN D = {Len(D) + 1} /\ E[Len(D) + 1] = d
      /\ \A q \in DOMAIN D : E[q] = D[q]
  BY <1>1
<1>6. \A q \in DOMAIN D : SameUpdate(D[q], E[q]) /\ E[q].done = D[q].done
  BY <1>5 DEF SameUpdate
<1>7. Keeps(T, U)
  BY <1>4, QuietKeeps
<1>8. DeletePlan(U, d)
  BY <1>1, <1>3, <1>7 DEF DeletePlan, Keeps
<1>9. \A q \in DOMAIN E \ DOMAIN D :
        IF E[q].kind = "insert" THEN InsertPlan(U, E[q]) ELSE DeletePlan(U, E[q])
  BY <1>3, <1>5, <1>8
<1> QED
  BY <1>4, <1>6, <1>9, QuietTree

LEMMA FlagInsertPaths ==
  ASSUME NEW T, NEW D, NEW U, NEW E, NEW p, NEW w, NEW l, NEW k,
         Shared(T, D), PathTree(T, D), FlagInsertWrite(T, D, U, E, p, w, l, k),
         Joins(T, p, k), T[l].key # k
  PROVE  PathTree(U, E) /\ Keeps(T, U) /\ KeysOf(U) = KeysOf(T)
<1> DEFINE v == Word("iflag", Len(D) + 1)
           a == Len(T) + 1
           b == Len(T) + 2
           c == Len(T) + 3
           d == InsertInfo(p, l, c, k)
           N == NewNodes(T, l, k)
<1>1. /\ U = WithWord(T, p, v) \o N /\ E = Append(D, d) /\ D \in Seq(InfoType)
      /\ p \in DOMAIN T /\ l \in DOMAIN T /\ k \in AllKeys /\ IsLeaf(T, l)
  BY DEF FlagInsertWrite, Joins, Shared
<1>2. v \in WordType
  BY Typed DEF Word, WordType
<1>3. d.kind = "insert" /\ d.p = p /\ d.l = l /\ d.new = c /\ d.key = k /\ d.done = FALSE
  BY DEF InsertInfo
<1>4. Planted(T, U, p, v, l)
  <2> HIDE DEF v
  <2> QED
    BY <1>1, <1>2, InsertPlants
<1>5. /\ U \in Seq(NodeType) /\ DOMAIN U = DOMAIN T \cup {a, b, c} /\ {a, b, c} \cap DOMAIN T = {}
      /\ Len(T) \in Nat /\ DOMAIN T = 1..Len(T)
      /\ \A n \in DOMAIN T :
           /\ U[n].key = T[n].key /\ U[n].left = T[n].left
           /\ U[n].right = T[n].right /\ U[n].retired = T[n].retired
           /\ IsLeaf(U, n) = IsLeaf(T, n)
      /\ IsLeaf(U, a) /\ IsLeaf(U, b) /\ ~IsLeaf(U, c) /\ Kids(U, c) = {a, b}
      /\ U[b].key = T[l].key
  BY <1>4, Typed DEF Planted, IsLeaf, Kids
<1>6. U[a].key = k /\ \A x \in {k, T[l].key} : U[ChildFor(U, c, x)].key = x
  <2>1. T[l] \in NodeType /\ KeyMax \in Nat /\ k \in Nat /\ k \in 1..KeyMax
    BY <1>1, <1>5, Typed, EllenTreeAssumption DEF AllKeys
  <2>2. T[l].key \in Nat /\ T[l].key \in 1..KeyMax
    BY <2>1 DEF NodeType
  <2> DEFINE V == WithWord(T, p, v)
  <2>3. V \in Seq(NodeType) /\ Len(V) = Len(T)
    <3> HIDE DEF v
    <3> QED
      BY <1>1, <1>2, SetWord DEF Shared
  <2>4. /\ N[1] = Leaf(k) /\ N[2] = Leaf(T[l].key)
        /\ N[3] = IF k < T[l].key THEN Node(T[l].key, a, b) ELSE Node(k, b, a)
        /\ Len(N) = 3 /\ N \in Seq(NodeType)
    <3>1. Len(N) = 3 /\ N \in Seq(NodeType)
      BY <1>1, NewNodesAre
    <3>2. N = <<Leaf(k), Leaf(T[l].key),
               IF k < T[l].key THEN Node(T[l].key, a, b) ELSE Node(k, b, a)>>
      BY DEF NewNodes
    <3> HIDE DEF N, a, b
    <3> QED
      BY <3>1, <3>2
  <2> HIDE DEF V, N, v
  <2>5. U = Join(V, N)
    BY <1>1 DEF Join, V
  <2>6. U[a] = N[1] /\ U[b] = N[2] /\ U[c] = N[3]
    BY <2>3, <2>4, <2>5, Joined
  <2>7. U[a].key = k
    BY <2>4, <2>6 DEF Leaf, Node
  <2>8. CASE k < T[l].key
    <3>1. U[c].key = T[l].key /\ U[c].left = a /\ U[c].right = b
      BY <2>4, <2>6, <2>8 DEF Node
    <3>2. ChildFor(U, c, k) = a /\ ChildFor(U, c, T[l].key) = b
      BY <2>2, <2>8, <3>1 DEF ChildFor
    <3> QED
      BY <1>5, <2>7, <3>2
  <2>9. CASE ~(k < T[l].key)
    <3>1. U[c].key = k /\ U[c].left = b /\ U[c].right = a
      BY <2>4, <2>6, <2>9 DEF Node
    <3>2. T[l].key < k
      BY <2>1, <2>2, <2>9
    <3>3. ChildFor(U, c, k) = a /\ ChildFor(U, c, T[l].key) = b
      BY <2>1, <2>2, <3>1, <3>2 DEF ChildFor
    <3> QED
      BY <1>5, <2>7, <3>3
  <2> QED
    BY <2>8, <2>9
<1> HIDE DEF v, d, a, b, c, N
<1>7. Quiet(T, U)
  BY <1>5 DEF Quiet
<1>8. Rooted(U)
  <2>1. Shared(U, E)
    BY FlagInsertMoves
  <2>2. OldestFirst(U)
    <3>1. ASSUME NEW n \in DOMAIN U, ~IsLeaf(U, n), NEW x \in Kids(U, n)
          PROVE  IsLeaf(U, x) \/ n < x
      <4>1. CASE n \in DOMAIN T
        <5>1. ~IsLeaf(T, n) /\ x \in Kids(T, n)
          BY <1>5, <3>1, <4>1 DEF Kids
        <5>2. x \in DOMAIN T /\ (IsLeaf(T, x) \/ n < x)
          BY <4>1, <5>1 DEF PathTree, OldestFirst, Shared, Shape, Binary
        <5> QED
          BY <1>5, <5>2
      <4>2. CASE n \notin DOMAIN T
        BY <1>5, <3>1, <4>2
      <4> QED
        BY <4>1, <4>2
    <3> QED
      BY <3>1 DEF OldestFirst
  <2> QED
    BY <1>5, <2>1, <2>2 DEF Rooted, Shared, Shape
<1>9. /\ DOMAIN E \ DOMAIN D = {Len(D) + 1} /\ E[Len(D) + 1] = d
      /\ \A q \in DOMAIN D : E[q] = D[q]
  BY <1>1
<1>10. \A q \in DOMAIN D : SameUpdate(D[q], E[q]) /\ E[q].done = D[q].done
  BY <1>9 DEF SameUpdate
<1>11. Keeps(T, U)
  BY <1>7, <1>8, QuietKeeps
<1>12. InsertPlan(U, d)
  <2>1. p < c
    BY <1>1, <1>5 DEF c
  <2>2. Joins(U, p, k) /\ U[l].key = T[l].key
    BY <1>1, <1>11 DEF Keeps
  <2>3. \A x \in Kids(U, c) : IsLeaf(U, x)
    BY <1>5
  <2> QED
    BY <1>3, <1>6, <2>1, <2>2, <2>3 DEF InsertPlan
<1>13. \A q \in DOMAIN E \ DOMAIN D :
         IF E[q].kind = "insert" THEN InsertPlan(U, E[q]) ELSE DeletePlan(U, E[q])
  BY <1>3, <1>9, <1>12
<1> QED
  BY <1>7, <1>8, <1>10, <1>13, QuietTree

-----------------------------------------------------------------------------
(***************************************************************************)
(* What the steps do to the locals of the thread that takes them.          *)
(***************************************************************************)
Alike(me, r) == r.key = me.key /\ r.op = me.op /\ r.seen = me.seen /\ r.own = me.own

\* A search goes on: to its next word, to the next node, or to the flagging CAS.
Searches(T, me, r) ==
  LET c == ChildFor(T, me.p, me.key) IN
  /\ Alike(me, r)
  /\ \/ me.pc = "update" /\ r.pc = "child" /\ r.p = me.p /\ r.gp = me.gp
     \/ /\ me.pc = "child" /\ ~IsLeaf(T, c)
        /\ r.pc \in {"update", "child"} /\ r.p = c /\ r.gp \in {me.gp, me.p}
     \/ /\ me.pc = "child" /\ IsLeaf(T, c)
        /\ r.pc = "cas" /\ r.l = c /\ r.p = me.p /\ r.gp = me.gp
        /\ me.op # "find" /\ (T[c].key = me.key <=> me.op = "delete")

\* A call ends with what its leaf told.
Answers(T, me, r) ==
  LET c == ChildFor(T, me.p, me.key)
      found == T[c].key = me.key
  IN /\ Alike(me, r) /\ me.pc = "child" /\ IsLeaf(T, c) /\ r.pc = "done"
     /\ \/ me.op = "find" /\ r.res = found
        \/ me.op # "find" /\ found = (me.op = "insert") /\ r.res = FALSE

Helps(me, r) == Alike(me, r) /\ me.pc \in {"child", "cas"} /\ r.pc = "help"
Retries(me, r) == me.pc \in {"child", "cas"} /\ r = Restart(me)

\* A thread goes on helping; the update it helps in the first place stays.
Bottom(me) == me.help[Len(me.help)].op
Stays(me, r) == Alike(me, r) /\ me.pc = "help" /\ r.pc = "help" /\ Bottom(r) = Bottom(me)

\* It leaves: with its own update done, or to try again.
Leaves(me, r) ==
  /\ me.pc = "help" /\ Len(me.help) = 1
  /\ \/ /\ Alike(me, r) /\ me.own # 0 /\ me.help[1].at = "unflag"
        /\ r.pc = "done" /\ r.res = TRUE
     \/ (me.own = 0 \/ me.help[1].at = "backoff") /\ r = Restart(me)

\* It has flagged a node for its own update.
Flags(D, me, r) ==
  /\ me.pc = "cas" /\ r.pc = "help" /\ r.own = Len(D) + 1 /\ Bottom(r) = r.own
  /\ r.key = me.key /\ r.op = me.op /\ r.seen = me.seen

FlagWrite(T, D, U, E, me) ==
  \/ me.op = "insert" /\ FlagInsertWrite(T, D, U, E, me.p, me.pupdate, me.l, me.key)
  \/ /\ me.op = "delete"
     /\ FlagDeleteWrite(T, D, U, E, me.gp, me.gpupdate, me.p, me.pupdate, me.l, me.key)

QuietWrite(T, D, U, E) ==
  \/ U = T /\ E = D
  \/ \E o \in DOMAIN D : MarkWrite(T, D, U, E, o) \/ CleanWrite(T, D, U, E, o)

Acts(t, r) ==
  /\ local' = Turn(local, t, r)
  /\ \/ /\ node' = node /\ info' = info
        /\ \/ Searches(node, local[t], r) \/ Answers(node, local[t], r)
           \/ Helps(local[t], r) \/ Retries(local[t], r)
           \/ local[t].pc = "done" /\ r = Idle
     \/ /\ QuietWrite(node, info, node', info')
        /\ Stays(local[t], r) \/ Leaves(local[t], r)
     \/ FlagWrite(node, info, node', info', local[t]) /\ Flags(info, local[t], r)

\* A child CAS changes what every call on its key has seen.
Changes(t) == \E o, c :
  /\ o \in DOMAIN info /\ ChildWrite(node, info, node', info', o, c) /\ local[t].pc = "help"
  /\ local' = [u \in Threads |-> local'[u]]
  /\ \A u \in Threads : u # t => local'[u] = Witness(local[u], info[o])
  /\ Stays(Witness(local[t], info[o]), local'[t])

LEMMA RestartIs ==
  ASSUME NEW me \in LocalType, NEW r, r = Restart(me)
  PROVE  /\ r.pc \in {"child", "update"} /\ r.p = Root /\ r.gp = 0 /\ r.own = 0
         /\ r.key = me.key /\ r.op = me.op /\ r.seen = me.seen
  BY DEF Restart, LocalType

LEMMA HelpActs ==
  ASSUME TreeInv, NEW t \in Threads, local[t].pc \in {"child", "cas"},
         NEW u, Help(t, u), UNCHANGED <<node, info>>
  PROVE  \E r : Acts(t, r)
<1> DEFINE me == local[t]
<1>1. me \in LocalType
  BY Starts
<1>2. CASE u.flag = "clean"
  <2> DEFINE r == Restart(me)
  <2>1. local' = Turn(local, t, r)
    BY <1>2 DEF Help, Become, Turn
  <2>2. Retries(me, r)
    BY DEF Retries
  <2> HIDE DEF r, me
  <2> QED BY <2>1, <2>2 DEF Acts, me
<1>3. CASE u.flag # "clean"
  <2> DEFINE h == FrameFor(u)
             r == [me EXCEPT !.pc = "help", !.help = h]
  <2>1. local' = Turn(local, t, r)
    BY <1>3 DEF Help, Become, Turn
  <2> HIDE DEF h
  <2>2. Helps(me, r)
    BY <1>1 DEF Helps, Alike, LocalType
  <2> HIDE DEF r, me
  <2> QED BY <2>1, <2>2 DEF Acts, me
<1> QED BY <1>2, <1>3

LEMMA ReadUpdateActs ==
  ASSUME TreeInv, NEW t \in Threads, ReadUpdate(t)
  PROVE  \E r : Acts(t, r)
<1> DEFINE me == local[t]
           w == node[me.p].update
           r == [me EXCEPT !.pc = "child", !.pupdate = w]
<1>1. me \in LocalType /\ me.pc = "update"
  BY Starts DEF ReadUpdate
<1>2. local' = Turn(local, t, r) /\ node' = node /\ info' = info
  BY DEF ReadUpdate, Become, Turn
<1> HIDE DEF w
<1>3. Searches(node, me, r)
  BY <1>1 DEF Searches, Alike, LocalType
<1> HIDE DEF r, me
<1> QED BY <1>2, <1>3 DEF Acts, me

LEMMA StepDownActs ==
  ASSUME TreeInv, NEW t \in Threads, ReadChild(t),
         ~IsLeaf(node, ChildFor(node, local[t].p, local[t].key))
  PROVE  \E r : Acts(t, r)
<1> DEFINE me == local[t]
           c == ChildFor(node, me.p, me.key)
           a == [me EXCEPT !.p = c]
           b == [me EXCEPT !.p = c, !.pc = "update"]
           d == [me EXCEPT !.p = c, !.pc = "update", !.gp = me.p, !.gpupdate = me.pupdate]
<1>1. me \in LocalType /\ me.pc = "child" /\ node' = node /\ info' = info
  BY Starts DEF ReadChild
<1>2. local' = Turn(local, t, a) \/ local' = Turn(local, t, b) \/ local' = Turn(local, t, d)
  BY DEF ReadChild, Become, Turn
<1>3. c = ChildFor(node, me.p, me.key) /\ ~IsLeaf(node, c)
  OBVIOUS
<1> HIDE DEF c
<1>4. Searches(node, me, a) /\ Searches(node, me, b) /\ Searches(node, me, d)
  BY <1>1, <1>3 DEF Searches, Alike, LocalType
<1> HIDE DEF a, b, d, me
<1> QED BY <1>1, <1>2, <1>4 DEF Acts, me

LEMMA AtLeafActs ==
  ASSUME TreeInv, NEW t \in Threads, ReadChild(t),
         IsLeaf(node, ChildFor(node, local[t].p, local[t].key))
  PROVE  \E r : Acts(t, r)
<1> DEFINE me == local[t]
           c == ChildFor(node, me.p, me.key)
           found == node[c].key = me.key
<1>1. me \in LocalType /\ me.pc = "child" /\ node' = node /\ info' = info /\ AtLeaf(t, c)
  BY Starts DEF ReadChild
<1>2. me.op \in Ops /\ found \in BOOLEAN
  BY <1>1, Starts DEF LocalView, SearchView
<1>3. \/ Answered(t, found)
      \/ Goes(t, found) /\ Help(t, me.gpupdate)
      \/ Goes(t, found) /\ Help(t, me.pupdate)
      \/ Goes(t, found) /\ Become(t, [me EXCEPT !.pc = "cas", !.l = c])
  BY <1>1 DEF AtLeaf
<1>4. CASE Answered(t, found)
  <2>1. PICK b \in BOOLEAN : /\ local' = Turn(local, t, [me EXCEPT !.pc = "done", !.res = b])
                             /\ \/ me.op = "find" /\ b = found
                                \/ me.op # "find" /\ found = (me.op = "insert") /\ b = FALSE
    BY <1>4, Zenon DEF Answered, Finish, Become, Turn
  <2> DEFINE r == [me EXCEPT !.pc = "done", !.res = b]
  <2>2. local' = Turn(local, t, r)
    BY <2>1
  <2>3. r.key = me.key /\ r.op = me.op /\ r.seen = me.seen /\ r.own = me.own
        /\ r.pc = "done" /\ r.res = b
    BY <1>1 DEF LocalType
  <2> HIDE DEF r
  <2>4. Answers(node, me, r)
    BY <1>1, <2>1, <2>3 DEF Answers, Alike
  <2> HIDE DEF me
  <2> QED BY <1>1, <2>2, <2>4, SMTT(30) DEF Acts, me
<1>5. CASE Help(t, me.gpupdate) \/ Help(t, me.pupdate)
  BY <1>1, <1>5, HelpActs
<1>6. CASE Goes(t, found) /\ Become(t, [me EXCEPT !.pc = "cas", !.l = c])
  <2> DEFINE r == [me EXCEPT !.pc = "cas", !.l = c]
  <2>1. local' = Turn(local, t, r)
    BY <1>6 DEF Become, Turn
  <2>2. me.op # "find" /\ (found <=> me.op = "delete")
    BY <1>2, <1>6 DEF Goes, Ops
  <2>3. r.key = me.key /\ r.op = me.op /\ r.seen = me.seen /\ r.own = me.own
        /\ r.pc = "cas" /\ r.l = c /\ r.p = me.p /\ r.gp = me.gp
    BY <1>1 DEF LocalType
  <2> HIDE DEF r
  <2>4. Searches(node, me, r)
    BY <1>1, <2>2, <2>3 DEF Searches, Alike
  <2> HIDE DEF me
  <2> QED BY <1>1, <2>1, <2>4 DEF Acts, me
<1> QED BY <1>3, <1>4, <1>5, <1>6

LEMMA FlagInsertActs ==
  ASSUME TreeInv, NEW t \in Threads, FlagInsert(t)
  PROVE  \E r : Acts(t, r)
<1> DEFINE me == local[t]
           new == Len(node) + 3
           f == Frame("left", NewInfo, new)
<1>1. /\ Shared(node, info) /\ me \in LocalType /\ LocalView(node, info, me)
      /\ me.pc = "cas" /\ me.op = "insert"
  BY Starts DEF FlagInsert
<1>2. SearchView(node, info, me)
  BY <1>1 DEF LocalView
<1>3. /\ IsInternal(node, me.p) /\ me.key \in AllKeys /\ me.l \in DOMAIN node
      /\ IsLeaf(node, me.l) /\ me.pupdate.flag = "clean"
      /\ ReadUnder(node, me.p, me.pupdate, me.key, me.l)
  BY <1>1, <1>2 DEF SearchView
<1>4. CASE /\ node[me.p].update = me.pupdate
           /\ node' = [node EXCEPT ![me.p].update = Word("iflag", NewInfo)]
                      \o NewNodes(node, me.l, me.key)
           /\ info' = Append(info, InsertInfo(me.p, me.l, new, me.key))
           /\ Become(t, [me EXCEPT !.pc = "help", !.own = NewInfo, !.help = <<f>>])
  <2> DEFINE r == [me EXCEPT !.pc = "help", !.own = NewInfo, !.help = <<f>>]
  <2>1. FlagInsertWrite(node, info, node', info', me.p, me.pupdate, me.l, me.key)
    BY <1>3, <1>4 DEF FlagInsertWrite, WithWord, NewInfo
  <2>2. local' = Turn(local, t, r)
    BY <1>4 DEF Become, Turn
  <2>3. f.op = NewInfo
    BY DEF Frame
  <2> HIDE DEF f
  <2>4. Flags(info, me, r)
    BY <1>1, <2>3 DEF Flags, Bottom, LocalType, NewInfo
  <2> HIDE DEF r, me
  <2>5. FlagWrite(node, info, node', info', me)
    BY <1>1, <2>1 DEF FlagWrite
  <2> QED BY <2>2, <2>4, <2>5 DEF Acts, me
<1>5. CASE Help(t, node[me.p].update) /\ UNCHANGED <<node, info>>
  BY <1>1, <1>5, HelpActs
<1> QED BY <1>4, <1>5 DEF FlagInsert

LEMMA FlagDeleteActs ==
  ASSUME TreeInv, NEW t \in Threads, FlagDelete(t)
  PROVE  \E r : Acts(t, r)
<1> DEFINE me == local[t]
           f == Frame("mark", NewInfo, 0)
<1>1. /\ Shared(node, info) /\ me \in LocalType /\ LocalView(node, info, me)
      /\ me.pc = "cas" /\ me.op = "delete"
  BY Starts DEF FlagDelete
<1>2. SearchView(node, info, me)
  BY <1>1 DEF LocalView
<1>3. /\ me.key \in AllKeys /\ me.l \in DOMAIN node /\ IsLeaf(node, me.l)
      /\ me.pupdate.flag = "clean" /\ WordMeans(node, info, me.pupdate)
      /\ ReadUnder(node, me.p, me.pupdate, me.key, me.l)
      /\ me.gpupdate.flag = "clean" /\ ReadUnder(node, me.gp, me.gpupdate, me.key, me.p)
  BY <1>1, <1>2 DEF SearchView
<1>4. CASE /\ node[me.gp].update = me.gpupdate
           /\ node' = [node EXCEPT ![me.gp].update = Word("dflag", NewInfo)]
           /\ info' = Append(info, DeleteInfo(me.gp, me.p, me.l, me.pupdate, me.key))
           /\ Become(t, [me EXCEPT !.pc = "help", !.own = NewInfo, !.help = <<f>>])
  <2> DEFINE r == [me EXCEPT !.pc = "help", !.own = NewInfo, !.help = <<f>>]
  <2>1. FlagDeleteWrite(node, info, node', info', me.gp, me.gpupdate, me.p, me.pupdate, me.l, me.key)
    BY <1>3, <1>4 DEF FlagDeleteWrite, WithWord, NewInfo
  <2>2. local' = Turn(local, t, r)
    BY <1>4 DEF Become, Turn
  <2>3. f.op = NewInfo
    BY DEF Frame
  <2> HIDE DEF f
  <2>4. Flags(info, me, r)
    BY <1>1, <2>3 DEF Flags, Bottom, LocalType, NewInfo
  <2> HIDE DEF r, me
  <2>5. FlagWrite(node, info, node', info', me)
    BY <1>1, <2>1 DEF FlagWrite
  <2> QED BY <2>2, <2>4, <2>5 DEF Acts, me
<1>5. CASE Help(t, node[me.gp].update) /\ UNCHANGED <<node, info>>
  BY <1>1, <1>5, HelpActs
<1> QED BY <1>4, <1>5 DEF FlagDelete

\* The last frame of a stack is that of the update helped in the first place.
LEMMA JoinedEnd ==
  ASSUME NEW g \in Seq(FrameType), NEW h \in Seq(FrameType)
  PROVE  LET k == Join(g, h) IN
           k[Len(k)] = IF h = <<>> THEN g[Len(g)] ELSE h[Len(h)]
<1> DEFINE k == Join(g, h)
<1>1. /\ k \in Seq(FrameType) /\ Len(k) = Len(g) + Len(h)
      /\ \A i \in 1..Len(g) + Len(h) : k[i] = IF i <= Len(g) THEN g[i] ELSE h[i - Len(g)]
  BY ConcatProperties DEF Join
<1>2. Len(g) \in Nat /\ Len(h) \in Nat
  OBVIOUS
<1>3. CASE h = <<>>
  BY <1>3 DEF Join
<1>4. CASE h # <<>>
  <2>1. Len(h) # 0
    BY <1>4
  <2> DEFINE n == Len(g) + Len(h)
  <2>2. n \in 1..Len(g) + Len(h) /\ ~(n <= Len(g)) /\ n - Len(g) = Len(h)
    BY <1>2, <2>1
  <2> QED BY <1>1, <1>4, <2>2
<1> QED BY <1>3, <1>4

LEMMA StackStays ==
  ASSUME NEW me \in LocalType, me.pc = "help", NEW h, NEW r, r = [me EXCEPT !.help = h],
         h[Len(h)].op = me.help[Len(me.help)].op
  PROVE  Stays(me, r)
<1>1. r.help = h /\ r.pc = "help" /\ Alike(me, r)
  BY DEF LocalType, Alike
<1> QED BY <1>1 DEF Stays, Bottom

LEMMA TopStays ==
  ASSUME NEW me \in LocalType, me.pc = "help", me.help # <<>>, NEW g \in FrameType,
         g.op = me.help[1].op, NEW r, r = WithTop(me, g)
  PROVE  Stays(me, r)
<1> DEFINE h == [me.help EXCEPT ![1] = g]
<1>1. me.help \in Seq(FrameType) /\ Len(me.help) \in 1..Len(me.help)
  BY DEF LocalType
<1>2. Len(h) = Len(me.help) /\ h[1] = g /\ \A i \in 2..Len(me.help) : h[i] = me.help[i]
  BY <1>1
<1>3. r = [me EXCEPT !.help = h]
  BY DEF WithTop
<1> HIDE DEF h
<1>4. h[Len(h)].op = me.help[Len(me.help)].op
  <2>1. CASE Len(me.help) = 1
    BY <1>2, <2>1
  <2>2. CASE Len(me.help) # 1
    <3>1. Len(me.help) \in 2..Len(me.help)
      BY <1>1, <2>2, SMTT(30)
    <3> QED BY <1>2, <3>1
  <2> QED BY <2>1, <2>2
<1> QED BY <1>3, <1>4, StackStays

LEMMA TailStays ==
  ASSUME NEW me \in LocalType, me.pc = "help", Len(me.help) > 1,
         NEW r, r = [me EXCEPT !.help = Tail(me.help)]
  PROVE  Stays(me, r)
<1> DEFINE h == Tail(me.help)
           n == Len(me.help)
<1>1. me.help \in Seq(FrameType) /\ n \in Nat /\ n > 1
  BY DEF LocalType
<1>2. Len(h) = n - 1 /\ h[n - 1] = me.help[n]
  BY <1>1
<1> HIDE DEF h
<1>3. h[Len(h)].op = me.help[Len(me.help)].op
  BY <1>2
<1> QED BY <1>3, StackStays DEF h

LEMMA TopActs ==
  ASSUME TreeInv, NEW t \in Threads, local[t].pc = "help", NEW g \in FrameType,
         g.op = local[t].help[1].op, local' = Turn(local, t, WithTop(local[t], g)),
         QuietWrite(node, info, node', info')
  PROVE  \E r : Acts(t, r)
<1> DEFINE r == WithTop(local[t], g)
<1>1. local[t] \in LocalType /\ local[t].help # <<>>
  BY Starts DEF LocalView
<1>2. Stays(local[t], r)
  BY <1>1, TopStays
<1>3. local' = Turn(local, t, r)
  OBVIOUS
<1> HIDE DEF r
<1> QED BY <1>2, <1>3 DEF Acts

\* An action that only sends its frame on.
LEMMA AdvanceActs ==
  ASSUME TreeInv, NEW t \in Threads, local[t].pc = "help", UNCHANGED <<node, info>>,
         NEW at \in {"other", "lookRight", "casLeft", "casRight", "unflag"}, Advance(t, at)
  PROVE  \E r : Acts(t, r)
<1> DEFINE f == local[t].help[1]
           g == At(f, at)
<1>1. local[t] \in LocalType /\ local[t].help # <<>>
  BY Starts DEF LocalView
<1>2. f \in FrameType
  <2>1. local[t].help \in Seq(FrameType) /\ 1 \in DOMAIN local[t].help
    BY <1>1 DEF LocalType
  <2> QED BY <2>1
<1>3. local' = Turn(local, t, WithTop(local[t], g))
  BY AdvanceIs
<1> HIDE DEF f
<1>4. g \in FrameType /\ g.op = f.op
  BY <1>2, AtIs
<1> HIDE DEF g
<1> QED BY <1>3, <1>4, TopActs DEF f, QuietWrite

\* The frame that a stack ends in, when another one goes upon what is below its top.
LEMMA SameEnd ==
  ASSUME NEW s \in Seq(FrameType), s # <<>>, NEW g \in FrameType, g.op = s[1].op,
         NEW k, k[Len(k)] = IF Tail(s) = <<>> THEN g ELSE Tail(s)[Len(Tail(s))]
  PROVE  k[Len(k)].op = s[Len(s)].op
<1> DEFINE n == Len(s)
<1>1. n \in Nat /\ n # 0 /\ Len(<<>>) = 0
  OBVIOUS
<1>2. Tail(s) \in Seq(FrameType) /\ Len(Tail(s)) = n - 1
  OBVIOUS
<1>3. CASE n = 1
  <2>1. Len(Tail(s)) = 0
    BY <1>2, <1>3
  <2>2. Tail(s) = <<>>
    BY <1>2, <2>1, EmptySeq
  <2> QED BY <1>3, <2>2
<1>4. CASE n # 1
  <2>1. n - 1 \in 1..(n - 1) /\ Len(Tail(s)) # 0
    BY <1>1, <1>2, <1>4
  <2>2. Tail(s)[n - 1] = s[n]
    BY <1>1, <1>4, <2>1
  <2>3. Tail(s) # <<>>
    BY <1>1, <2>1
  <2>4. k[Len(k)] = Tail(s)[n - 1]
    BY <1>2, <2>3, SMTT(30)
  <2> QED BY <2>2, <2>4
<1> QED BY <1>3, <1>4

LEMMA MarkActs ==
  ASSUME TreeInv, NEW t \in Threads, Mark(t)
  PROVE  \E r : Acts(t, r)
<1> DEFINE me == local[t]
           f == Head(me.help)
           o == TopOp(t)
           d == info[o]
           result == node[d.p].update
           marked == Word("mark", o)
<1>1. /\ Helping(t, "mark") /\ info' = info /\ d = Descriptor(t)
  BY Zenon DEF Mark, Descriptor
<1>2. /\ f \in FrameType /\ f.at = "mark" /\ f = me.help[1] /\ f.op = o
      /\ FrameView(node, info, f) /\ o \in DOMAIN info /\ me.pc = "help" /\ Shared(node, info)
  BY <1>1, TopFrame
<1>3. d.kind = "delete" /\ o \in DOMAIN info /\ me \in LocalType
  BY <1>2, Starts DEF FrameView
<1>4. CASE /\ result = d.pupdate /\ node' = [node EXCEPT ![d.p].update = marked]
           /\ Advance(t, "other")
  <2> DEFINE g == At(f, "other")
  <2>1. MarkWrite(node, info, node', info', o)
    BY <1>1, <1>3, <1>4 DEF MarkWrite, WithWord
  <2>2. local' = Turn(local, t, WithTop(me, g))
    BY <1>2, <1>4, AdvanceIs
  <2>3. g \in FrameType /\ g.op = me.help[1].op
    BY <1>2, AtIs
  <2>4. QuietWrite(node, info, node', info')
    BY <1>3, <2>1 DEF QuietWrite
  <2> HIDE DEF g
  <2> QED BY <1>2, <2>2, <2>3, <2>4, TopActs
<1>5. CASE result = marked /\ Advance(t, "other") /\ UNCHANGED node
  BY <1>1, <1>2, <1>5, AdvanceActs
<1>6. CASE /\ result # d.pupdate /\ result # marked /\ UNCHANGED node
           /\ local' = [local EXCEPT ![t].help =
                FrameFor(result) \o <<[Head(@) EXCEPT !.at = "backoff"]>> \o Tail(@)]
  <2> DEFINE g == At(f, "backoff")
             h == Join(FrameFor(result), <<g>>)
             k == Join(h, Tail(me.help))
             r == [me EXCEPT !.help = k]
  <2>1. local' = Turn(local, t, r)
    BY <1>6 DEF Turn, Join, At
  <2>2. g \in FrameType /\ g.op = o
    BY <1>2, AtIs
  <2> HIDE DEF g
  <2>3. WordMeans(node, info, result)
    BY <1>2, <1>3, DeleteFacts, WordFacts DEF DeleteView, Since, IsInternal
  <2>4. FrameFor(result) \in Seq(FrameType) /\ <<g>> \in Seq(FrameType)
    BY <1>2, <2>2, <2>3, FrameForView
  <2>5. h \in Seq(FrameType) /\ h[Len(h)] = g
    <3>1. Len(<<g>>) = 1 /\ <<g>>[1] = g /\ <<g>> # <<>>
      OBVIOUS
    <3>2. h[Len(h)] = g
      BY <2>4, <3>1, JoinedEnd
    <3> QED BY <2>4, <3>2 DEF Join
  <2>6. me.help \in Seq(FrameType) /\ me.help # <<>> /\ Tail(me.help) \in Seq(FrameType)
    BY <1>2, <1>3, HelpFrames DEF LocalType
  <2> HIDE DEF h
  <2>7. k[Len(k)] = IF Tail(me.help) = <<>> THEN g ELSE Tail(me.help)[Len(Tail(me.help))]
    BY <2>5, <2>6, JoinedEnd
  <2>8. k[Len(k)].op = me.help[Len(me.help)].op
    <3>1. g.op = me.help[1].op
      BY <1>2, <2>2
    <3> HIDE DEF k, me
    <3> QED BY <2>2, <2>6, <2>7, <3>1, SameEnd
  <2> HIDE DEF k
  <2>9. Stays(me, r)
    BY <1>2, <1>3, <2>8, StackStays
  <2> HIDE DEF r
  <2> QED BY <1>1, <1>6, <2>1, <2>9 DEF Acts, QuietWrite
<1> QED BY <1>1, <1>4, <1>5, <1>6, ZenonT(40) DEF Mark

LEMMA ReadOtherActs ==
  ASSUME TreeInv, NEW t \in Threads, ReadOther(t)
  PROVE  \E r : Acts(t, r)
<1> DEFINE me == local[t]
           f == Head(me.help)
           o == TopOp(t)
           d == info[o]
           c == IF node[d.p].right = d.l THEN node[d.p].left ELSE node[d.p].right
           g == Frame("left", o, c)
<1>1. Helping(t, "other") /\ UNCHANGED <<node, info, calls>> /\ d = Descriptor(t)
  BY DEF ReadOther, Descriptor
<1>2. /\ f \in FrameType /\ f.at = "other" /\ f = me.help[1] /\ f.op = o /\ o \in Nat
      /\ FrameView(node, info, f) /\ o \in DOMAIN info /\ me.pc = "help" /\ Shared(node, info)
  BY <1>1, TopFrame
<1>3. d.kind = "delete" /\ node[d.p].update = Word("mark", o)
  BY <1>2 DEF FrameView
<1>4. local' = Turn(local, t, WithTop(me, g))
  <2>1. local' = [local EXCEPT ![t].help[1] = Frame("left", @.op, c)]
    BY <1>1 DEF ReadOther
  <2> HIDE DEF c
  <2>2. /\ local \in [Threads -> LocalType] /\ me.help \in Seq(FrameType) /\ me.help # <<>>
        /\ me \in LocalType
    BY <1>2, Starts, HelpFrames DEF LocalType
  <2>3. 1 \in DOMAIN me.help /\ me.help[1].op = o
    BY <1>2, <2>2
  <2> QED BY <2>1, <2>2, <2>3 DEF Turn, WithTop
<1>5. c \in Nat
  <2>1. IsInternal(node, d.p)
    BY <1>2, <1>3, DeleteFacts DEF DeleteView, Since
  <2>2. node[d.p] \in NodeType
    BY <1>2, <2>1, Typed DEF IsInternal
  <2> QED BY <2>2 DEF NodeType
<1> HIDE DEF c
<1>6. g \in FrameType /\ g.op = me.help[1].op
  BY <1>2, <1>5 DEF Frame, FrameType
<1> HIDE DEF g
<1> QED BY <1>1, <1>2, <1>4, <1>6, TopActs DEF QuietWrite

LEMMA LookActs ==
  ASSUME TreeInv, NEW t \in Threads, LookLeft(t) \/ LookRight(t)
  PROVE  \E r : Acts(t, r)
<1>1. /\ local[t].pc = "help" /\ UNCHANGED <<node, info>>
      /\ \E at \in {"casLeft", "lookRight", "casRight", "unflag"} : Advance(t, at)
  BY DEF LookLeft, LookRight, Helping
<1> QED BY <1>1, AdvanceActs

LEMMA CleanActs ==
  ASSUME TreeInv, NEW t \in Threads, NEW at \in {"unflag", "backoff"}, Helping(t, at),
         CleanWord(t)
  PROVE  /\ QuietWrite(node, info, node', info') /\ local[t].pc = "help"
         /\ local[t].help[1].at = at
<1> DEFINE f == Head(local[t].help)
           o == TopOp(t)
           d == info[o]
<1>1. /\ f.at = at /\ f.op = o /\ o \in DOMAIN info /\ Descriptor(t) = d
      /\ Shared(node, info) /\ FrameView(node, info, f) /\ local[t].pc = "help"
      /\ f = local[t].help[1]
  BY TopFrame
<1>2. d.done \/ (d.kind = "delete" /\ ~MayMark(node, info, o))
  BY <1>1 DEF FrameView
<1>3. CASE Flagged(node, info, o)
  <2>1. /\ node' = WithWord(node, Parent(d), Clean(o)) /\ info' = WithRetired(info, o)
    BY <1>1, <1>3 DEF CleanWord, Flagged, WithWord, WithRetired
  <2>2. CleanWrite(node, info, node', info', o)
    BY <1>1, <1>2, <1>3, <2>1 DEF CleanWrite
  <2> QED BY <1>1, <2>2 DEF QuietWrite
<1>4. CASE ~Flagged(node, info, o)
  <2>1. node' = node /\ info' = info
    BY <1>1, <1>4 DEF CleanWord, Flagged
  <2> QED BY <1>1, <2>1 DEF QuietWrite
<1> QED BY <1>3, <1>4

LEMMA LeaveActs ==
  ASSUME TreeInv, NEW t \in Threads, Unflag(t) \/ Backoff(t)
  PROVE  \E r : Acts(t, r)
<1> DEFINE me == local[t]
<1>1. PICK at \in {"unflag", "backoff"} :
        Helping(t, at) /\ CleanWord(t) /\ LeaveHelp(t, at = "unflag")
  BY DEF Unflag, Backoff
<1>2. /\ QuietWrite(node, info, node', info') /\ me.pc = "help" /\ me.help[1].at = at
      /\ me \in LocalType /\ me.help # <<>>
  BY <1>1, CleanActs, HelpFrames, Starts
<1>3. CASE Len(me.help) > 1 /\ Become(t, [me EXCEPT !.help = Tail(me.help)])
  <2> DEFINE r == [me EXCEPT !.help = Tail(me.help)]
  <2>1. local' = Turn(local, t, r)
    BY <1>3 DEF Become, Turn
  <2>2. Stays(me, r)
    BY <1>2, <1>3, TailStays
  <2> HIDE DEF r
  <2> QED BY <1>2, <2>1, <2>2 DEF Acts
<1>4. CASE /\ Len(me.help) = 1 /\ me.own # 0 /\ at = "unflag"
           /\ Become(t, [me EXCEPT !.pc = "done", !.res = TRUE, !.help = <<>>])
  <2> DEFINE r == [me EXCEPT !.pc = "done", !.res = TRUE, !.help = <<>>]
  <2>1. local' = Turn(local, t, r)
    BY <1>4 DEF Become, Turn
  <2>2. Leaves(me, r)
    BY <1>2, <1>4 DEF Leaves, Alike, LocalType
  <2> HIDE DEF r
  <2> QED BY <1>2, <2>1, <2>2 DEF Acts
<1>5. CASE /\ Len(me.help) = 1 /\ ~(me.own # 0 /\ at = "unflag")
           /\ Become(t, Restart(me))
  <2> DEFINE r == Restart(me)
  <2>1. local' = Turn(local, t, r)
    BY <1>5 DEF Become, Turn
  <2>2. Leaves(me, r)
    BY <1>2, <1>5 DEF Leaves
  <2> HIDE DEF r
  <2> QED BY <1>2, <2>1, <2>2 DEF Acts
<1> QED BY <1>1, <1>3, <1>4, <1>5 DEF LeaveHelp

LEMMA ChildChanges ==
  ASSUME TreeInv, NEW t \in Threads, NEW at \in {"casLeft", "casRight"}, Helping(t, at),
         NEW o, o = TopOp(t), NEW d, d = info[o],
         NEW f, f = Head(local[t].help), NEW V, ChildChanged(t, V),
         \/ node[Parent(d)].left = Old(d) /\ V = WithLeft(node, Parent(d), f.other)
         \/ node[Parent(d)].right = Old(d) /\ V = WithRight(node, Parent(d), f.other)
  PROVE  Changes(t)
<1> DEFINE me == local[t]
           U == node'
           E == info'
           g == At(f, "unflag")
           w == Witness(me, d)
<1>1. /\ f \in FrameType /\ f.op = o /\ f = me.help[1]
      /\ o \in DOMAIN info /\ Descriptor(t) = d /\ me.pc = "help"
      /\ Shared(node, info) /\ ChildKnown(node, info, o, f.other)
  BY ChildFrame
<1>2. U = Retire(DOMAIN node, V, Unlinked(d)) /\ E = WithDone(info, o)
  <2>1. /\ node' = [m \in DOMAIN node |->
                      IF m \in Unlinked(Descriptor(t)) THEN [V[m] EXCEPT !.retired = @ + 1]
                      ELSE V[m]]
        /\ info' = [info EXCEPT ![TopOp(t)].done = TRUE]
    BY DEF ChildChanged
  <2> QED BY <1>1, <2>1 DEF Retire, WithDone
<1>3. /\ local' = [u \in Threads |-> local'[u]]
      /\ \A u \in Threads : u # t => local'[u] = Witness(local[u], d)
      /\ local'[t] = WithTop(w, g)
  BY <1>1, ChangedLocals
<1>4. f.other \in Nat /\ Parent(d) \in DOMAIN node
  BY <1>1, ParentIsNode DEF FrameType
<1> HIDE DEF U, E
<1>5. Swung(node, U, Parent(d), Old(d), f.other, Unlinked(d))
  BY <1>1, <1>2, <1>4, SwungIs
<1>6. ChildWrite(node, info, U, E, o, f.other)
  BY <1>1, <1>2, <1>5 DEF ChildWrite, ChildKnown
<1>7. w \in LocalType /\ w.pc = "help" /\ w.help = me.help /\ me.help # <<>>
  BY <1>1, Starts, WitnessView DEF LocalView
<1>8. g \in FrameType /\ g.op = f.op
  BY <1>1, AtIs
<1> HIDE DEF w, g
<1>9. Stays(w, WithTop(w, g))
  BY <1>1, <1>7, <1>8, TopStays
<1> QED BY <1>1, <1>3, <1>6, <1>9 DEF Changes, U, E, w

LEMMA CasActs ==
  ASSUME TreeInv, NEW t \in Threads, CasLeft(t) \/ CasRight(t)
  PROVE  (\E r : Acts(t, r)) \/ Changes(t)
<1> DEFINE f == Head(local[t].help)
           o == TopOp(t)
           d == info[o]
<1>1. PICK at \in {"casLeft", "casRight"} : Helping(t, at)
  BY DEF CasLeft, CasRight
<1>2. /\ f = local[t].help[1] /\ Descriptor(t) = d /\ local[t].pc = "help"
  BY <1>1, ChildFrame
<1>3. CASE node[Parent(d)].left = Old(d) /\ CasLeft(t)
  <2> DEFINE V == WithLeft(node, Parent(d), f.other)
  <2>1. ChildChanged(t, V)
    BY <1>2, <1>3 DEF CasLeft, WithLeft
  <2> HIDE DEF V, f, o, d
  <2>2. V = WithLeft(node, Parent(d), f.other) /\ f = Head(local[t].help) /\ o = TopOp(t)
        /\ d = info[o]
    BY DEF V, f, o, d
  <2> QED BY <1>1, <1>3, <2>1, <2>2, ChildChanges
<1>4. CASE node[Parent(d)].right = Old(d) /\ CasRight(t)
  <2> DEFINE V == WithRight(node, Parent(d), f.other)
  <2>1. ChildChanged(t, V)
    BY <1>2, <1>4 DEF CasRight, WithRight
  <2> HIDE DEF V, f, o, d
  <2>2. V = WithRight(node, Parent(d), f.other) /\ f = Head(local[t].help) /\ o = TopOp(t)
        /\ d = info[o]
    BY DEF V, f, o, d
  <2> QED BY <1>1, <1>4, <2>1, <2>2, ChildChanges
<1>5. CASE Advance(t, "unflag") /\ UNCHANGED <<node, info>>
  BY <1>2, <1>5, AdvanceActs
<1> QED BY <1>2, <1>3, <1>4, <1>5 DEF CasLeft, CasRight

LEMMA ReturnActs ==
  ASSUME NEW t \in Threads, Return(t)
  PROVE  \E r : Acts(t, r)
<1> DEFINE r == Idle
<1>1. local' = Turn(local, t, r) /\ node' = node /\ info' = info /\ local[t].pc = "done"
  BY DEF Return, Turn
<1> QED BY <1>1 DEF Acts

\* All steps of a thread in a call.
LEMMA StepActs ==
  ASSUME TreeInv, NEW t \in Threads, Step(t)
  PROVE  (\E r : Acts(t, r)) \/ Changes(t)
<1>1. CASE ReadUpdate(t)
  BY <1>1, ReadUpdateActs
<1>2. CASE ReadChild(t)
  BY <1>2, StepDownActs, AtLeafActs
<1>3. CASE FlagInsert(t) \/ FlagDelete(t)
  BY <1>3, FlagInsertActs, FlagDeleteActs
<1>4. CASE Mark(t) \/ ReadOther(t)
  BY <1>4, MarkActs, ReadOtherActs
<1>5. CASE LookLeft(t) \/ LookRight(t)
  BY <1>5, LookActs
<1>6. CASE CasLeft(t) \/ CasRight(t)
  BY <1>6, CasActs
<1>7. CASE Unflag(t) \/ Backoff(t)
  BY <1>7, LeaveActs
<1>8. CASE Return(t)
  BY <1>8, ReturnActs
<1> QED BY <1>1, <1>2, <1>3, <1>4, <1>5, <1>6, <1>7, <1>8 DEF Step

LEMMA InvokeIs ==
  ASSUME NEW t \in Threads, NEW op \in Ops, NEW k \in Keys, Invoke(t, op, k)
  PROVE  \E me \in LocalType :
           /\ me.op = op /\ me.key = k /\ me.seen = {(k \in KeysOf(node))}
           /\ (k \in KeysOf(node)) \in me.seen
           /\ local[t].pc = "idle" /\ local' = Turn(local, t, Restart(me))
           /\ node' = node /\ info' = info
<1> DEFINE s == {(k \in KeysOf(node))}
           me == [Idle EXCEPT !.op = op, !.key = k, !.seen = s]
<1>1. local[t].pc = "idle" /\ local' = Turn(local, t, Restart(me)) /\ node' = node /\ info' = info
  BY DEF Invoke, Become, Turn
<1>2. s \in SUBSET BOOLEAN
  OBVIOUS
<1>3. Clean(0) \in WordType /\ KeyMax \in Nat /\ k \in 1..KeyMax /\ KeyMax \in 1..KeyMax
  BY EllenTreeAssumption DEF Clean, Word, WordType, AllKeys
<1>4. Idle \in LocalType
  <2>1. <<>> \in Seq(FrameType)
    OBVIOUS
  <2> QED BY <1>3, <2>1 DEF Idle, LocalType, Ops
<1>6. (k \in KeysOf(node)) \in s
  OBVIOUS
<1> HIDE DEF s
<1>5. me \in LocalType /\ me.op = op /\ me.key = k /\ me.seen = s
  BY <1>2, <1>3, <1>4 DEF LocalType
<1>7. (k \in KeysOf(node)) \in me.seen
  BY <1>5, <1>6
<1> HIDE DEF me
<1> QED BY <1>1, <1>5, <1>7 DEF s

-----------------------------------------------------------------------------
(***************************************************************************)
(* The paths of the searches.                                              *)
(***************************************************************************)

\* A tree that does not change keeps what every step keeps.
LEMMA StillKeeps ==
  ASSUME NEW T
  PROVE  Keeps(T, T)
  BY DEF Keeps

LEMMA QuietPlaces ==
  ASSUME NEW T, NEW D, NEW U, NEW E, Shared(T, D), PathTree(T, D), QuietWrite(T, D, U, E)
  PROVE  PathTree(U, E) /\ Keeps(T, U) /\ KeysOf(U) = KeysOf(T)
<1>1. CASE U = T /\ E = D
  BY <1>1, StillKeeps
<1>2. CASE \E o \in DOMAIN D : MarkWrite(T, D, U, E, o) \/ CleanWrite(T, D, U, E, o)
  BY <1>2, MarkPaths, CleanPaths
<1> QED BY <1>1, <1>2 DEF QuietWrite

LEMMA FlagPlaces ==
  ASSUME NEW T, NEW D, NEW U, NEW E, Shared(T, D), PathTree(T, D),
         NEW me, LocalView(T, D, me), PathLocal(T, me), me.pc = "cas",
         FlagWrite(T, D, U, E, me)
  PROVE  PathTree(U, E) /\ Keeps(T, U) /\ KeysOf(U) = KeysOf(T)
<1>1. /\ Joins(T, me.p, me.key) /\ (me.gp # 0 => Joins(T, me.gp, me.key))
      /\ T[me.l].key = me.key <=> me.op = "delete"
  BY DEF PathLocal, Searching
<1>2. CASE /\ me.op = "insert"
           /\ FlagInsertWrite(T, D, U, E, me.p, me.pupdate, me.l, me.key)
  BY <1>1, <1>2, FlagInsertPaths
<1>3. CASE /\ me.op = "delete"
           /\ FlagDeleteWrite(T, D, U, E, me.gp, me.gpupdate, me.p, me.pupdate, me.l, me.key)
  <2>1. me.gp \in DOMAIN T
    BY <1>3 DEF LocalView, SearchView, ReadUnder, Since, IsInternal
  <2>2. me.gp # 0
    BY <2>1 DEF Shared
  <2> QED BY <1>1, <1>3, <2>2, FlagDeletePaths
<1> QED BY <1>2, <1>3 DEF FlagWrite

\* Searches go down their paths.
LEMMA SearchesOn ==
  ASSUME NEW T, NEW D, Shared(T, D), PathTree(T, D),
         NEW me, LocalView(T, D, me), PathLocal(T, me), NEW r, Searches(T, me, r)
  PROVE  PathLocal(T, r)
<1> DEFINE c == ChildFor(T, me.p, me.key)
<1>1. /\ r.key = me.key /\ r.op = me.op /\ Joins(T, me.p, me.key)
      /\ (me.gp # 0 => Joins(T, me.gp, me.key))
  BY DEF Searches, Alike, PathLocal, Searching
<1>2. Rooted(T) /\ IsInternal(T, me.p) /\ me.p \in DOMAIN T
  BY PathTreeFacts DEF LocalView, SearchView, Searches, IsInternal
<1>3. Joins(T, c, me.key)
  <2>1. c \in Path(T, me.p, me.key)
    BY <1>2, PathFacts DEF IsInternal
  <2>2. c \in DOMAIN T /\ Path(T, c, me.key) \subseteq Path(T, me.p, me.key)
    BY <1>2, <2>1, PathOn
  <2> QED BY <1>1, <2>2 DEF Joins
<1>4. CASE me.pc = "update" /\ r.pc = "child" /\ r.p = me.p /\ r.gp = me.gp
  BY <1>1, <1>4 DEF PathLocal
<1>5. CASE r.pc \in {"update", "child"} /\ r.p = c /\ r.gp \in {me.gp, me.p}
  BY <1>1, <1>3, <1>5 DEF PathLocal
<1>6. CASE /\ r.pc = "cas" /\ r.l = c /\ r.p = me.p /\ r.gp = me.gp
           /\ T[c].key = me.key <=> me.op = "delete"
  BY <1>1, <1>6 DEF PathLocal
<1> QED BY <1>4, <1>5, <1>6 DEF Searches

LEMMA RestartsOn ==
  ASSUME NEW T, NEW D, Shared(T, D), PathTree(T, D), NEW me \in LocalType
  PROVE  PathLocal(T, Restart(me))
<1> DEFINE r == Restart(me)
<1>1. r.pc \in {"child", "update"} /\ r.p = Root /\ r.gp = 0
  BY RestartIs
<1> HIDE DEF r
<1>2. \A k : Joins(T, Root, k)
  BY PathTreeFacts DEF Joins
<1>3. PathLocal(T, r)
  BY <1>1, <1>2 DEF PathLocal
<1> QED BY <1>3 DEF r

\* A thread that does not search has no path to keep to.
LEMMA NotOn ==
  ASSUME NEW T, NEW r, r.pc \in {"idle", "help", "done"}
  PROVE  PathLocal(T, r)
  BY DEF PathLocal, Searching

LEMMA PathClose ==
  ASSUME PathInv, TreeInv', NEW t \in Threads, NEW r, local' = Turn(local, t, r),
         PathTree(node', info'), Keeps(node, node'), PathLocal(node', r)
  PROVE  PathInv'
<1>1. /\ Shared(node, info) /\ PathTree(node, info) /\ local \in [Threads -> LocalType]
      /\ \A u \in Threads : LocalView(node, info, local[u]) /\ PathLocal(node, local[u])
  BY Starts DEF PathInv, TreeInv
<1>2. ASSUME NEW u \in Threads PROVE PathLocal(node', local'[u])
  <2>1. CASE u = t
    BY <1>1, <2>1 DEF Turn
  <2>2. CASE u # t
    <3> DEFINE U == node'
    <3>1. Keeps(node, U)
      OBVIOUS
    <3> HIDE DEF U
    <3>2. PathLocal(U, local[u])
      BY <1>1, <3>1, PathLocalKept
    <3>3. local'[u] = local[u]
      BY <1>1, <2>2 DEF Turn
    <3> QED BY <3>2, <3>3 DEF U
  <2> QED BY <2>1, <2>2
<1> QED BY <1>2 DEF PathInv

LEMMA ActsOn ==
  ASSUME PathInv, TreeInv', NEW t \in Threads, NEW r, Acts(t, r)
  PROVE  PathInv'
<1> DEFINE me == local[t]
           U == node'
           E == info'
<1>1. /\ Shared(node, info) /\ PathTree(node, info) /\ me \in LocalType
      /\ LocalView(node, info, me) /\ PathLocal(node, me) /\ local' = Turn(local, t, r)
  BY Starts DEF PathInv, TreeInv, Acts
<1>2. ASSUME PathTree(U, E), Keeps(node, U), PathLocal(U, r) PROVE PathInv'
  BY <1>1, <1>2, PathClose
<1>3. CASE /\ U = node /\ E = info
           /\ \/ Searches(node, me, r) \/ Answers(node, me, r)
              \/ Helps(me, r) \/ Retries(me, r)
              \/ me.pc = "done" /\ r = Idle
  <2>1. PathLocal(node, r)
    <3>1. CASE Searches(node, me, r)
      BY <1>1, <3>1, SearchesOn
    <3>2. CASE Answers(node, me, r) \/ Helps(me, r) \/ r = Idle
      <4>1. r.pc \in {"idle", "help", "done"}
        BY <3>2 DEF Answers, Helps, Idle
      <4> QED BY <4>1, NotOn
    <3>3. CASE Retries(me, r)
      BY <1>1, <3>3, RestartsOn DEF Retries
    <3> QED BY <1>3, <3>1, <3>2, <3>3
  <2> QED BY <1>1, <1>2, <1>3, <2>1, StillKeeps
<1>4. CASE QuietWrite(node, info, U, E) /\ (Stays(me, r) \/ Leaves(me, r))
  <2> HIDE DEF U, E
  <2>1. PathTree(U, E) /\ Keeps(node, U)
    BY <1>1, <1>4, QuietPlaces
  <2>2. Shared(U, E)
    BY DEF TreeInv, U, E
  <2>3. PathLocal(U, r)
    <3>1. CASE r.pc \in {"help", "done"}
      BY <3>1, NotOn
    <3>2. CASE r = Restart(me)
      BY <1>1, <2>1, <2>2, <3>2, RestartsOn
    <3> QED BY <1>4, <3>1, <3>2 DEF Stays, Leaves
  <2> QED BY <1>2, <2>1, <2>3
<1>5. CASE FlagWrite(node, info, U, E, me) /\ Flags(info, me, r)
  <2> HIDE DEF U, E
  <2>1. me.pc = "cas" /\ r.pc = "help"
    BY <1>5 DEF Flags
  <2>2. PathTree(U, E) /\ Keeps(node, U)
    BY <1>1, <1>5, <2>1, FlagPlaces
  <2>3. PathLocal(U, r)
    BY <2>1, NotOn
  <2> QED BY <1>2, <2>2, <2>3
<1> QED BY <1>3, <1>4, <1>5 DEF Acts

LEMMA ChangesOn ==
  ASSUME PathInv, TreeInv', NEW t \in Threads, Changes(t)
  PROVE  PathInv'
<1> DEFINE U == node'
           E == info'
<1>1. /\ Shared(node, info) /\ PathTree(node, info)
      /\ \A u \in Threads : /\ local[u] \in LocalType /\ LocalView(node, info, local[u])
                            /\ PathLocal(node, local[u])
  BY Starts DEF PathInv, TreeInv
<1>2. PICK o, c :
        /\ o \in DOMAIN info /\ ChildWrite(node, info, U, E, o, c) /\ local[t].pc = "help"
        /\ \A u \in Threads : u # t => local'[u] = Witness(local[u], info[o])
        /\ Stays(Witness(local[t], info[o]), local'[t])
  BY DEF Changes
<1> HIDE DEF U, E
<1>3. PathTree(U, E) /\ Keeps(node, U)
  BY <1>1, <1>2, ChildPaths
<1>4. ASSUME NEW u \in Threads PROVE PathLocal(U, local'[u])
  <2> DEFINE q == local'[u]
  <2>1. CASE u = t
    <3>1. q.pc = "help"
      BY <1>2, <2>1 DEF Stays
    <3> HIDE DEF q
    <3>2. PathLocal(U, q)
      BY <3>1, NotOn
    <3> QED BY <3>2 DEF q
  <2>2. CASE u # t
    <3>1. PathLocal(U, local[u])
      BY <1>1, <1>3, PathLocalKept
    <3>2. q = Witness(local[u], info[o])
      BY <1>2, <2>2
    <3> HIDE DEF q
    <3>3. /\ q.pc = local[u].pc /\ q.p = local[u].p /\ q.gp = local[u].gp
          /\ q.key = local[u].key /\ q.op = local[u].op /\ q.l = local[u].l
      BY <1>1, <3>2 DEF Witness, LocalType
    <3>4. PathLocal(U, q)
      BY <3>1, <3>3 DEF PathLocal
    <3> QED BY <3>4 DEF q
  <2> QED BY <2>1, <2>2
<1> QED BY <1>3, <1>4 DEF PathInv, U, E

LEMMA PathInit ==
  ASSUME Init
  PROVE  PathInv
<1>1. TreeInv
  BY InitHolds
<1>2. PathTree(node, info)
  <2>1. node = Built /\ info = <<>> /\ Shared(node, info)
    BY <1>1 DEF Init, TreeInv
  <2>2. OldestFirst(node) /\ Searchable(node) /\ \A n \in DOMAIN node : node[n].retired = 0
    BY <2>1, EllenTreeAssumption
  <2>3. Rooted(node) /\ Root \in DOMAIN node
    BY <2>1, <2>2 DEF Rooted, Shared, Shape, MaxAtRight
  <2>4. Placed(node)
    BY <2>2, <2>3, SearchableIsPlaced
  <2>5. Plans(node, info)
    BY <2>1 DEF Plans
  <2> QED BY <2>2, <2>3, <2>4, <2>5 DEF PathTree
<1>3. ASSUME NEW t \in Threads PROVE PathLocal(node, local[t])
  <2>1. local[t] = Idle
    BY DEF Init
  <2>2. Idle.pc = "idle"
    BY DEF Idle
  <2> QED BY <2>1, <2>2, NotOn
<1> QED BY <1>1, <1>2, <1>3 DEF PathInv

LEMMA PathNext ==
  ASSUME PathInv, [Next]_vars
  PROVE  PathInv'
<1>1. TreeInv /\ TreeInv'
  BY NextHolds DEF PathInv
<1>2. CASE UNCHANGED vars
  BY <1>1, <1>2 DEF PathInv, vars
<1>3. ASSUME NEW t \in Threads, Step(t) PROVE PathInv'
  BY <1>1, <1>3, StepActs, ActsOn, ChangesOn
<1>4. ASSUME NEW t \in Threads, NEW op \in Ops, NEW k \in Keys, Invoke(t, op, k) PROVE PathInv'
  <2>1. PICK me \in LocalType : /\ local' = Turn(local, t, Restart(me))
                                /\ node' = node /\ info' = info
    BY <1>4, InvokeIs
  <2>2. Shared(node, info) /\ PathTree(node, info)
    BY DEF PathInv, TreeInv
  <2> DEFINE r == Restart(me)
  <2>3. PathLocal(node, r) /\ local' = Turn(local, t, r)
    BY <2>1, <2>2, RestartsOn
  <2> HIDE DEF r
  <2> QED BY <1>1, <2>1, <2>2, <2>3, PathClose, StillKeeps
<1> QED BY <1>2, <1>3, <1>4 DEF Next, Terminating

\* Searches are where their keys belong and so are the places of updates, in
\* every interleaving; every key in the tree is where a search for it ends.
THEOREM PathInvariant == Spec => []PathInv
<1>1. Init => PathInv
  BY PathInit
<1>2. PathInv /\ [Next]_vars => PathInv'
  BY PathNext
<1> QED BY <1>1, <1>2, PTL DEF Spec

\* The tree is searchable at every instant, and what is retired is out of it:
\* no helper puts a subtree where it does not belong, and the record manager
\* frees nothing that can be found.
THEOREM TreeSound == Spec => []TreeIsSound
<1>1. ASSUME PathInv PROVE TreeIsSound
  <2>1. TypeOK /\ Shared(node, info) /\ PathTree(node, info)
    BY <1>1 DEF PathInv, TreeInv
  <2>2. Searchable(node) /\ \A m \in Reachable(node) : node[m].retired = 0
    BY <2>1, PathTreeFacts
  <2>3. RetiredIsOut
    BY <2>2 DEF RetiredIsOut
  <2> QED BY <2>1, <2>2, <2>3 DEF TreeIsSound
<1> QED BY <1>1, PathInvariant, PTL

-----------------------------------------------------------------------------
(***************************************************************************)
(* What the calls have seen.  A search answers what was so at some instant *)
(* of its call, and every update that may still happen has its caller.     *)
(***************************************************************************)

\* The leaf at the end of a search tells nothing that the call has not seen.
Tells(T, n, k, seen) == \A m \in Path(T, n, k) : IsLeaf(T, m) => (T[m].key = k) \in seen

SeenLocal(T, D, me) ==
  /\ me.pc \in Searching => me.own = 0 /\ Tells(T, me.p, me.key, me.seen)
  /\ me.pc \notin {"idle", "done"} => (me.key \in KeysOf(T)) \in me.seen
  /\ me.pc = "help" /\ me.own # 0 =>
       /\ me.own \in DOMAIN D /\ Bottom(me) = me.own
       /\ D[me.own].key = me.key /\ D[me.own].kind = me.op

\* An update whose child CAS may still succeed, and the thread whose call it is.
Pending(T, D, o) == ~D[o].done /\ (D[o].kind = "insert" \/ MayMark(T, D, o))
Owns(me, o) == me.pc = "help" /\ me.own = o
Owned(T, D, L) ==
  /\ \A o \in DOMAIN D : Pending(T, D, o) => \E t \in Threads : Owns(L[t], o)
  /\ \A t, u \in Threads : \A o \in DOMAIN D : Owns(L[t], o) /\ Owns(L[u], o) => t = u

SeenInv ==
  /\ PathInv /\ Owned(node, info, local)
  /\ \A t \in Threads : SeenLocal(node, info, local[t])

\* The same descriptors as before, and perhaps more.
SameSaid(D, E) == DOMAIN D \subseteq DOMAIN E /\ \A q \in DOMAIN D : SameUpdate(D[q], E[q])

\* The leaf on the path of a key says whether the key is in the tree.
LEMMA LeafSays ==
  ASSUME NEW T, NEW D, Shared(T, D), PathTree(T, D), NEW k \in AllKeys,
         NEW m \in Path(T, Root, k), IsLeaf(T, m)
  PROVE  T[m].key = k <=> k \in KeysOf(T)
<1>1. Rooted(T) /\ Root \in DOMAIN T /\ Searchable(T)
  BY PathTreeFacts
<1>2. m = LeafFor(T, k)
  BY <1>1, LeafForIs
<1> QED
  BY <1>1, <1>2 DEF Searchable

LEMMA TellsKept ==
  ASSUME NEW T, NEW D, NEW U, NEW E, Shared(T, D), PathTree(T, D), Shared(U, E), PathTree(U, E),
         Keeps(T, U), NEW x, NEW k \in AllKeys, Joins(T, x, k),
         NEW s, NEW r, s \subseteq r, Tells(T, x, k, s), (k \in KeysOf(U)) \in r
  PROVE  Tells(U, x, k, r)
<1>1. SUFFICES ASSUME NEW m \in Path(U, x, k), IsLeaf(U, m) PROVE (U[m].key = k) \in r
  BY DEF Tells
<1>2. m \in Path(T, x, k) \/ m \in Path(U, Root, k)
  BY DEF Keeps
<1>3. CASE m \in Path(T, x, k)
  <2>1. x \in DOMAIN T /\ Rooted(T)
    BY PathTreeFacts DEF Joins
  <2>2. m \in DOMAIN T
    BY <1>3, <2>1, PathFacts
  <2>3. U[m].key = T[m].key /\ IsLeaf(T, m)
    BY <1>1, <2>2 DEF Keeps
  <2> QED
    BY <1>3, <2>3 DEF Tells
<1>4. CASE m \in Path(U, Root, k)
  <2>1. U[m].key = k <=> k \in KeysOf(U)
    BY <1>1, <1>4, LeafSays
  <2>2. (U[m].key = k) = (k \in KeysOf(U))
    BY <2>1
  <2> QED
    BY <2>2
<1> QED
  BY <1>2, <1>3, <1>4

\* r is what becomes of me when another thread moves.
LEMMA SeenKept ==
  ASSUME NEW T, NEW D, NEW U, NEW E, Shared(T, D), PathTree(T, D), Shared(U, E), PathTree(U, E),
         Keeps(T, U), SameSaid(D, E),
         NEW me, LocalView(T, D, me), PathLocal(T, me), SeenLocal(T, D, me),
         NEW r, r.pc = me.pc, r.key = me.key, r.op = me.op, r.p = me.p, r.own = me.own,
         r.help = me.help, me.seen \subseteq r.seen,
         me.pc \notin {"idle", "done"} => (me.key \in KeysOf(U)) \in r.seen
  PROVE  SeenLocal(U, E, r)
<1>1. ASSUME me.pc \in Searching PROVE me.own = 0 /\ Tells(U, me.p, me.key, r.seen)
  <2>1. me.pc \notin {"idle", "done"} /\ me.pc # "idle"
    BY <1>1 DEF Searching
  <2>2. me.key \in AllKeys
    BY <2>1 DEF LocalView, SearchView
  <2>3. Joins(T, me.p, me.key) /\ Tells(T, me.p, me.key, me.seen) /\ me.own = 0
    BY <1>1 DEF PathLocal, SeenLocal
  <2>4. (me.key \in KeysOf(U)) \in r.seen
    BY <2>1
  <2> QED
    BY <2>2, <2>3, <2>4, TellsKept
<1>2. ASSUME me.pc = "help", me.own # 0
      PROVE  /\ me.own \in DOMAIN E /\ Bottom(r) = me.own
             /\ E[me.own].key = me.key /\ E[me.own].kind = me.op
  BY <1>2 DEF SeenLocal, SameSaid, SameUpdate, Bottom
<1> QED
  BY <1>1, <1>2 DEF SeenLocal

LEMMA SearchesSeen ==
  ASSUME NEW T, NEW D, Shared(T, D), PathTree(T, D),
         NEW me, LocalView(T, D, me), SeenLocal(T, D, me), NEW r, Searches(T, me, r)
  PROVE  SeenLocal(T, D, r)
<1> DEFINE c == ChildFor(T, me.p, me.key)
<1>1. /\ r.key = me.key /\ r.op = me.op /\ r.seen = me.seen /\ r.own = me.own
      /\ me.pc \in {"update", "child"} /\ r.pc \in {"update", "child", "cas"} /\ r.p \in {me.p, c}
  BY DEF Searches, Alike
<1>2. me.own = 0 /\ Tells(T, me.p, me.key, me.seen) /\ (me.key \in KeysOf(T)) \in me.seen
  BY <1>1 DEF SeenLocal, Searching
<1>3. Rooted(T) /\ IsInternal(T, me.p) /\ me.p \in DOMAIN T
  BY <1>1, PathTreeFacts DEF LocalView, SearchView, IsInternal
<1>4. Tells(T, c, me.key, me.seen)
  <2>1. c \in Path(T, me.p, me.key)
    BY <1>3, PathFacts DEF IsInternal
  <2>2. Path(T, c, me.key) \subseteq Path(T, me.p, me.key)
    BY <1>3, <2>1, PathOn
  <2> QED
    BY <1>2, <2>2 DEF Tells
<1> HIDE DEF c
<1> QED
  BY <1>1, <1>2, <1>4 DEF SeenLocal, Searching

LEMMA RestartsSeen ==
  ASSUME NEW T, NEW D, Shared(T, D), PathTree(T, D), NEW me \in LocalType,
         me.key \in AllKeys, (me.key \in KeysOf(T)) \in me.seen
  PROVE  SeenLocal(T, D, Restart(me))
<1> DEFINE r == Restart(me)
<1>1. /\ r.pc \in {"child", "update"} /\ r.p = Root /\ r.own = 0
      /\ r.key = me.key /\ r.seen = me.seen
  BY RestartIs
<1> HIDE DEF r
<1>2. Tells(T, Root, me.key, me.seen)
  <2>1. ASSUME NEW m \in Path(T, Root, me.key), IsLeaf(T, m) PROVE (T[m].key = me.key) \in me.seen
    <3>1. T[m].key = me.key <=> me.key \in KeysOf(T)
      BY <2>1, LeafSays
    <3>2. (T[m].key = me.key) = (me.key \in KeysOf(T))
      BY <3>1
    <3> QED
      BY <3>2
  <2> QED
    BY <2>1 DEF Tells
<1>3. SeenLocal(T, D, r)
  BY <1>1, <1>2 DEF SeenLocal
<1> QED
  BY <1>3 DEF r

\* A thread that goes on helping has seen what it saw.
LEMMA StaysSeen ==
  ASSUME NEW T, NEW D, NEW me, SeenLocal(T, D, me), NEW r, Stays(me, r)
  PROVE  SeenLocal(T, D, r)
  BY DEF SeenLocal, Stays, Alike, Searching

\* What may still happen might have happened before.
LEMMA PendingBack ==
  ASSUME NEW T, NEW D, NEW U, NEW E, Shared(T, D), Moves(T, D, U, E),
         NEW o \in DOMAIN D, Pending(U, E, o)
  PROVE  Pending(T, D, o)
<1>1. SameUpdate(D[o], E[o]) /\ (D[o].done => E[o].done)
  BY MovesAt DEF InfoMoves
<1>2. CASE D[o].kind = "insert"
  BY <1>1, <1>2 DEF Pending
<1>3. CASE D[o].kind = "delete"
  <2>1. MayMark(U, E, o)
    BY <1>1, <1>3 DEF Pending, SameUpdate
  <2>2. MayMark(T, D, o)
    BY <1>3, <2>1, MayMarkBack
  <2> QED
    BY <1>1, <2>2 DEF Pending
<1> QED
  BY <1>2, <1>3, Kinds

LEMMA OwnedKept ==
  ASSUME NEW T, NEW D, NEW U, NEW E, NEW L, NEW M, Shared(T, D), Moves(T, D, U, E), Owned(T, D, L),
         \A o \in DOMAIN E \ DOMAIN D :
           /\ \E t \in Threads : Owns(M[t], o)
           /\ \A t, u \in Threads : Owns(M[t], o) /\ Owns(M[u], o) => t = u,
         \A o \in DOMAIN D : \A t \in Threads :
           /\ Owns(L[t], o) /\ Pending(U, E, o) => Owns(M[t], o)
           /\ Owns(M[t], o) => Owns(L[t], o)
  PROVE  Owned(U, E, M)
<1>1. ASSUME NEW o \in DOMAIN E, Pending(U, E, o) PROVE \E t \in Threads : Owns(M[t], o)
  <2>1. CASE o \in DOMAIN D
    <3>1. Pending(T, D, o)
      BY <1>1, <2>1, PendingBack
    <3>2. PICK t \in Threads : Owns(L[t], o)
      BY <2>1, <3>1 DEF Owned
    <3> QED
      BY <1>1, <2>1, <3>2
  <2>2. CASE o \notin DOMAIN D
    BY <2>2
  <2> QED
    BY <2>1, <2>2
<1>2. ASSUME NEW t \in Threads, NEW u \in Threads, NEW o \in DOMAIN E, Owns(M[t], o), Owns(M[u], o)
      PROVE  t = u
  <2>1. CASE o \in DOMAIN D
    <3>1. Owns(L[t], o) /\ Owns(L[u], o)
      BY <1>2, <2>1
    <3> QED
      BY <2>1, <3>1 DEF Owned
  <2>2. CASE o \notin DOMAIN D
    BY <1>2, <2>2
  <2> QED
    BY <2>1, <2>2
<1> QED
  BY <1>1, <1>2 DEF Owned

\* A thread gets new locals, and no other update of its own.
LEMMA OwnedTurn ==
  ASSUME NEW T, NEW D, NEW U, NEW E, Shared(T, D), Moves(T, D, U, E), DOMAIN E = DOMAIN D,
         NEW L \in [Threads -> LocalType], Owned(T, D, L), NEW t \in Threads, NEW r,
         NEW M, M = Turn(L, t, r),
         \A o \in DOMAIN D : /\ Owns(r, o) => Owns(L[t], o)
                             /\ Owns(L[t], o) /\ Pending(U, E, o) => Owns(r, o)
  PROVE  Owned(U, E, M)
<1>1. M[t] = r /\ \A u \in Threads : u # t => M[u] = L[u]
  BY DEF Turn
<1>2. \A o \in DOMAIN D : \A u \in Threads :
        /\ Owns(L[u], o) /\ Pending(U, E, o) => Owns(M[u], o)
        /\ Owns(M[u], o) => Owns(L[u], o)
  <2>1. ASSUME NEW o \in DOMAIN D, NEW u \in Threads
        PROVE  /\ Owns(L[u], o) /\ Pending(U, E, o) => Owns(M[u], o)
               /\ Owns(M[u], o) => Owns(L[u], o)
    BY <1>1
  <2> QED
    BY <2>1
<1>3. DOMAIN E \ DOMAIN D = {}
  OBVIOUS
<1> QED
  BY <1>2, <1>3, OwnedKept

\* What the writes do to the descriptors.
LEMMA QuietSaid ==
  ASSUME NEW T, NEW D, NEW U, NEW E, Shared(T, D), QuietWrite(T, D, U, E)
  PROVE  /\ SameSaid(D, E) /\ DOMAIN E = DOMAIN D
         /\ \A q \in DOMAIN D : E[q].done = D[q].done
<1>1. CASE E = D
  BY <1>1 DEF SameSaid, SameUpdate
<1>2. ASSUME NEW o \in DOMAIN D, CleanWrite(T, D, U, E, o)
      PROVE  /\ SameSaid(D, E) /\ DOMAIN E = DOMAIN D
             /\ \A q \in DOMAIN D : E[q].done = D[q].done
  <2>1. D \in Seq(InfoType) /\ E = WithRetired(D, o)
    BY <1>2 DEF Shared, CleanWrite
  <2> QED
    BY <2>1, SetRetired DEF SameSaid
<1> QED
  BY <1>1, <1>2 DEF QuietWrite, MarkWrite

LEMMA FlagSaid ==
  ASSUME NEW T, NEW D, NEW U, NEW E, Shared(T, D), NEW me, FlagWrite(T, D, U, E, me)
  PROVE  /\ SameSaid(D, E) /\ DOMAIN E \ DOMAIN D = {Len(D) + 1}
         /\ \A q \in DOMAIN D : E[q].done = D[q].done
         /\ E[Len(D) + 1].key = me.key /\ E[Len(D) + 1].kind = me.op
<1>1. PICK d : E = Append(D, d) /\ d.key = me.key /\ d.kind = me.op /\ d.done = FALSE
  BY DEF FlagWrite, FlagInsertWrite, FlagDeleteWrite, InsertInfo, DeleteInfo
<1>2. D \in Seq(InfoType)
  BY DEF Shared
<1>3. /\ DOMAIN E \ DOMAIN D = {Len(D) + 1} /\ E[Len(D) + 1] = d /\ DOMAIN D \subseteq DOMAIN E
      /\ \A q \in DOMAIN D : E[q] = D[q]
  BY <1>1, <1>2
<1>4. SameSaid(D, E)
  BY <1>3 DEF SameSaid, SameUpdate
<1> QED
  BY <1>1, <1>3, <1>4

LEMMA FlagFresh ==
  ASSUME NEW T, NEW D, NEW U, NEW E, Shared(T, D), NEW me, FlagWrite(T, D, U, E, me)
  PROVE  ~E[Len(D) + 1].done
<1>1. PICK d : E = Append(D, d) /\ d.done = FALSE
  BY DEF FlagWrite, FlagInsertWrite, FlagDeleteWrite, InsertInfo, DeleteInfo
<1>2. D \in Seq(InfoType)
  BY DEF Shared
<1> QED
  BY <1>1, <1>2

\* An owner that leaves its help function knows what became of its update.
LEMMA OwnLeaves ==
  ASSUME NEW T, NEW D, Shared(T, D), NEW me \in LocalType, LocalView(T, D, me), SeenLocal(T, D, me),
         me.pc = "help", Len(me.help) = 1, me.own # 0
  PROVE  /\ me.own \in DOMAIN D
         /\ me.help[1].at = "unflag" => D[me.own].done
         /\ me.help[1].at = "backoff" => D[me.own].kind = "delete" /\ ~D[me.own].done
                                         /\ ~MayMark(T, D, me.own)
<1> DEFINE o == me.own
           f == me.help[1]
<1>1. o \in DOMAIN D /\ f.op = o
  BY DEF SeenLocal, Bottom
<1>2. FrameView(T, D, f)
  <2>1. 1 \in DOMAIN me.help
    BY DEF LocalType
  <2> QED
    BY <2>1 DEF LocalView
<1>3. f.at = "unflag" => D[o].done
  BY <1>1, <1>2 DEF FrameView
<1>4. ASSUME f.at = "backoff" PROVE D[o].kind = "delete" /\ ~MayMark(T, D, o) /\ ~D[o].done
  <2>1. D[o].kind = "delete" /\ ~MayMark(T, D, o)
    BY <1>1, <1>2, <1>4 DEF FrameView
  <2>2. DeleteView(T, D, o)
    BY <1>1, <2>1, DeleteFacts
  <2> QED
    BY <2>1, <2>2 DEF DeleteView, MayMark
<1> QED
  BY <1>1, <1>3, <1>4

\* Where the invariant is as a step begins, and as it ends.
LEMMA SeenStarts ==
  ASSUME SeenInv, NEW t \in Threads
  PROVE  /\ PathInv /\ TreeInv /\ Shared(node, info) /\ PathTree(node, info)
         /\ Owned(node, info, local) /\ local \in [Threads -> LocalType]
         /\ local[t] \in LocalType /\ LocalView(node, info, local[t])
         /\ PathLocal(node, local[t]) /\ SeenLocal(node, info, local[t])
  BY Starts DEF SeenInv, PathInv, TreeInv

LEMMA SeenClose ==
  ASSUME SeenInv, PathInv', NEW t \in Threads, NEW r, local' = Turn(local, t, r),
         Keeps(node, node'), SameSaid(info, info'), KeysOf(node') = KeysOf(node),
         SeenLocal(node', info', local[t]) => SeenLocal(node', info', r),
         Owned(node', info', local')
  PROVE  SeenInv'
<1> DEFINE U == node'
           E == info'
<1>1. /\ Shared(node, info) /\ PathTree(node, info) /\ local \in [Threads -> LocalType]
      /\ Shared(U, E) /\ PathTree(U, E) /\ Keeps(node, U) /\ SameSaid(info, E)
      /\ KeysOf(U) = KeysOf(node)
  BY SeenStarts DEF PathInv, TreeInv
<1> HIDE DEF U, E
<1>2. ASSUME NEW u \in Threads PROVE SeenLocal(U, E, local[u])
  <2> DEFINE me == local[u]
  <2>1. LocalView(node, info, me) /\ PathLocal(node, me) /\ SeenLocal(node, info, me)
    BY SeenStarts
  <2> HIDE DEF me
  <2>2. me.pc \notin {"idle", "done"} => (me.key \in KeysOf(U)) \in me.seen
    BY <1>1, <2>1 DEF SeenLocal
  <2>3. SeenLocal(U, E, me)
    BY <1>1, <2>1, <2>2, SeenKept
  <2> QED
    BY <2>3 DEF me
<1>3. ASSUME NEW u \in Threads PROVE SeenLocal(U, E, local'[u])
  <2>1. CASE u = t
    <3>1. local'[u] = r
      BY <1>1, <2>1 DEF Turn
    <3>2. SeenLocal(U, E, r)
      BY <1>2 DEF U, E
    <3> QED
      BY <3>1, <3>2
  <2>2. CASE u # t
    <3>1. local'[u] = local[u]
      BY <1>1, <2>2 DEF Turn
    <3> QED
      BY <1>2, <3>1
  <2> QED
    BY <2>1, <2>2
<1> QED
  BY <1>3 DEF SeenInv, U, E

LEMMA ActsSeen ==
  ASSUME SeenInv, PathInv', Moves(node, info, node', info'), NEW t \in Threads, NEW r, Acts(t, r)
  PROVE  SeenInv'
<1> DEFINE me == local[t]
           U == node'
           E == info'
           M == local'
<1>1. /\ Shared(node, info) /\ PathTree(node, info) /\ Owned(node, info, local)
      /\ local \in [Threads -> LocalType] /\ me \in LocalType /\ LocalView(node, info, me)
      /\ PathLocal(node, me) /\ SeenLocal(node, info, me) /\ M = Turn(local, t, r)
      /\ Shared(U, E) /\ PathTree(U, E) /\ Moves(node, info, U, E)
  BY SeenStarts DEF PathInv, TreeInv, Acts
<1>2. ASSUME Keeps(node, U), SameSaid(info, E), KeysOf(U) = KeysOf(node),
             SeenLocal(U, E, me) => SeenLocal(U, E, r), Owned(U, E, M)
      PROVE  SeenInv'
  BY <1>1, <1>2, SeenClose
<1> HIDE DEF me, U, E, M
<1>3. ASSUME DOMAIN E = DOMAIN info,
             \A o \in DOMAIN info : /\ Owns(r, o) => Owns(me, o)
                                    /\ Owns(me, o) /\ Pending(U, E, o) => Owns(r, o)
      PROVE  Owned(U, E, M)
  BY <1>1, <1>3, OwnedTurn DEF me
<1>4. 0 \notin DOMAIN info
  BY <1>1, Typed
<1>5. CASE /\ U = node /\ E = info
           /\ \/ Searches(node, me, r) \/ Answers(node, me, r)
              \/ Helps(me, r) \/ Retries(me, r)
              \/ me.pc = "done" /\ r = Idle
  <2>1. SeenLocal(node, info, r)
    <3>1. CASE Searches(node, me, r)
      BY <1>1, <3>1, SearchesSeen
    <3>2. CASE Answers(node, me, r) \/ r = Idle
      <4>1. r.pc \in {"idle", "done"}
        BY <3>2 DEF Answers, Idle
      <4> QED
        BY <4>1 DEF SeenLocal, Searching
    <3>3. CASE Helps(me, r)
      BY <1>1, <3>3 DEF Helps, Alike, SeenLocal, Searching
    <3>4. CASE Retries(me, r)
      <4>1. me.key \in AllKeys /\ (me.key \in KeysOf(node)) \in me.seen /\ r = Restart(me)
        BY <1>1, <3>4 DEF Retries, LocalView, SearchView, SeenLocal
      <4> QED
        BY <1>1, <4>1, RestartsSeen
    <3> QED
      BY <1>5, <3>1, <3>2, <3>3, <3>4
  <2>2. \A o \in DOMAIN info : ~Owns(r, o) /\ ~Owns(me, o)
    <3>1. me.pc \in {"update", "child", "cas", "done"}
      BY <1>5 DEF Searches, Answers, Helps, Retries
    <3>2. CASE Helps(me, r)
      <4>1. r.own = 0
        BY <1>1, <3>2 DEF Helps, Alike, SeenLocal, Searching
      <4> QED
        BY <1>4, <3>1, <4>1 DEF Owns
    <3>3. CASE ~Helps(me, r)
      <4>1. CASE r = Restart(me)
        <5>1. r.pc \in {"child", "update"}
          BY <1>1, <4>1, RestartIs
        <5> QED
          BY <3>1, <5>1 DEF Owns
      <4>2. CASE r # Restart(me)
        <5>1. r.pc # "help"
          BY <1>5, <3>3, <4>2 DEF Searches, Answers, Retries, Idle
        <5> QED
          BY <3>1, <5>1 DEF Owns
      <4> QED
        BY <4>1, <4>2
    <3> QED
      BY <3>2, <3>3
  <2>3. SameSaid(info, E) /\ Keeps(node, U)
    BY <1>5, StillKeeps DEF SameSaid, SameUpdate
  <2> QED
    BY <1>2, <1>3, <1>5, <2>1, <2>2, <2>3
<1>6. CASE QuietWrite(node, info, U, E) /\ (Stays(me, r) \/ Leaves(me, r))
  <2>1. SameSaid(info, E) /\ DOMAIN E = DOMAIN info /\ \A q \in DOMAIN info : E[q].done = info[q].done
    BY <1>1, <1>6, QuietSaid
  <2>2. Keeps(node, U) /\ KeysOf(U) = KeysOf(node)
    BY <1>1, <1>6, QuietPlaces
  <2>3. me.pc = "help" /\ (Leaves(me, r) => Len(me.help) = 1)
    BY <1>6 DEF Stays, Leaves
  <2>4. CASE Stays(me, r)
    <3>1. SeenLocal(U, E, me) => SeenLocal(U, E, r)
      BY <2>4, StaysSeen
    <3>2. \A o : Owns(r, o) <=> Owns(me, o)
      BY <2>4 DEF Owns, Stays, Alike
    <3> QED
      BY <1>2, <1>3, <2>1, <2>2, <3>1, <3>2
  <2>5. CASE Leaves(me, r)
    <3>1. r.pc # "help"
      <4>1. CASE r = Restart(me)
        BY <1>1, <4>1, RestartIs
      <4> QED
        BY <2>5, <4>1 DEF Leaves
    <3>2. SeenLocal(U, E, me) => SeenLocal(U, E, r)
      <4>1. CASE r.pc = "done"
        BY <4>1 DEF SeenLocal, Searching
      <4>2. CASE r = Restart(me)
        <5>1. me.key \in AllKeys
          BY <1>1, <2>3 DEF LocalView, SearchView
        <5>2. SeenLocal(U, E, me) => (me.key \in KeysOf(U)) \in me.seen
          BY <2>3 DEF SeenLocal
        <5> QED
          BY <1>1, <4>2, <5>1, <5>2, RestartsSeen
      <4> QED
        BY <2>5, <4>1, <4>2 DEF Leaves
    <3>3. ASSUME NEW o \in DOMAIN info, Owns(me, o), Pending(U, E, o) PROVE FALSE
      <4>1. me.own = o /\ o # 0 /\ Pending(node, info, o)
        BY <1>1, <1>4, <3>3, PendingBack DEF Owns
      <4>2. me.help[1].at \in {"unflag", "backoff"}
        BY <2>5, <4>1 DEF Leaves
      <4>3. info[o].done \/ (info[o].kind = "delete" /\ ~MayMark(node, info, o))
        BY <1>1, <2>3, <2>5, <4>1, <4>2, OwnLeaves
      <4> QED
        BY <4>1, <4>3 DEF Pending
    <3> QED
      BY <1>2, <1>3, <2>1, <2>2, <3>1, <3>2, <3>3 DEF Owns
  <2> QED
    BY <1>6, <2>4, <2>5
<1>7. CASE FlagWrite(node, info, U, E, me) /\ Flags(info, me, r)
  <2> DEFINE n == Len(info) + 1
  <2>0. /\ SameSaid(info, E) /\ DOMAIN E \ DOMAIN info = {Len(info) + 1}
        /\ E[Len(info) + 1].key = me.key /\ E[Len(info) + 1].kind = me.op
    BY <1>1, <1>7, FlagSaid
  <2>1. /\ SameSaid(info, E) /\ DOMAIN E \ DOMAIN info = {n} /\ n \in DOMAIN E
        /\ E[n].key = me.key /\ E[n].kind = me.op
    BY <2>0
  <2>2. /\ me.pc = "cas" /\ r.pc = "help" /\ r.own = n /\ Bottom(r) = n
        /\ r.key = me.key /\ r.op = me.op /\ r.seen = me.seen
    BY <1>7 DEF Flags
  <2>3. Keeps(node, U) /\ KeysOf(U) = KeysOf(node)
    BY <1>1, <1>7, <2>2, FlagPlaces
  <2> HIDE DEF n
  <2>4. SeenLocal(U, E, me) => SeenLocal(U, E, r)
    BY <2>1, <2>2 DEF SeenLocal, Searching
  <2>5. M[t] = r /\ \A u \in Threads : u # t => M[u] = local[u]
    BY <1>1 DEF Turn
  <2>6. n \notin DOMAIN info
    BY <2>1
  <2>7. ASSUME NEW u \in Threads, Owns(M[u], n) PROVE u = t
    <3>1. SUFFICES ASSUME u # t PROVE FALSE
      OBVIOUS
    <3>2. local[u].pc = "help" /\ local[u].own = n
      BY <2>5, <2>7, <3>1 DEF Owns
    <3>3. SeenLocal(node, info, local[u])
      BY SeenStarts
    <3>4. n # 0
      BY <1>1, Typed DEF n
    <3> QED
      BY <2>6, <3>2, <3>3, <3>4 DEF SeenLocal
  <2>8. Owns(M[t], n)
    BY <2>2, <2>5 DEF Owns
  <2>9. ASSUME NEW o \in DOMAIN info, NEW u \in Threads
        PROVE  /\ Owns(local[u], o) /\ Pending(U, E, o) => Owns(M[u], o)
               /\ Owns(M[u], o) => Owns(local[u], o)
    <3>1. CASE u = t
      BY <2>2, <2>5, <2>6, <3>1 DEF Owns, me
    <3>2. CASE u # t
      BY <2>5, <3>2
    <3> QED
      BY <3>1, <3>2
  <2>10. Owned(U, E, M)
    <3>1. \A o \in DOMAIN E \ DOMAIN info :
            /\ \E u \in Threads : Owns(M[u], o)
            /\ \A u, v \in Threads : Owns(M[u], o) /\ Owns(M[v], o) => u = v
      BY <2>1, <2>7, <2>8
    <3> QED
      BY <1>1, <2>9, <3>1, OwnedKept
  <2> QED
    BY <1>2, <2>1, <2>3, <2>4, <2>10
<1> QED
  BY <1>5, <1>6, <1>7 DEF Acts, me, U, E

\* What every call sees of an update, and what the update does to the keys.
Came(d) == {d.kind = "insert"}

LEMMA WitnessIs ==
  ASSUME NEW me \in LocalType, NEW d, NEW r, r = Witness(me, d)
  PROVE  /\ r.pc = me.pc /\ r.op = me.op /\ r.key = me.key /\ r.p = me.p /\ r.own = me.own
         /\ r.help = me.help /\ r.res = me.res
         /\ me.key = d.key /\ me.pc # "done" => r.seen = me.seen \cup Came(d)
         /\ ~(me.key = d.key /\ me.pc # "done") => r.seen = me.seen
<1> DEFINE s == IF me.key = d.key /\ me.pc # "done" THEN me.seen \cup Came(d) ELSE me.seen
<1>1. r = [me EXCEPT !.seen = s]
  BY DEF Witness, Came
<1> HIDE DEF s
<1>2. r.seen = s
  BY <1>1 DEF LocalType
<1> QED
  BY <1>1, <1>2 DEF LocalType, s

LEMMA ChangeMakes ==
  ASSUME NEW T, NEW D, NEW U, NEW E, NEW o, NEW c,
         Shared(T, D), PathTree(T, D), ChildWrite(T, D, U, E, o, c)
  PROVE  /\ o \in DOMAIN D /\ Pending(T, D, o)
         /\ \A k \in AllKeys :
              (k \in KeysOf(U)) = IF k = D[o].key THEN D[o].kind = "insert" ELSE k \in KeysOf(T)
         /\ D[o].kind = "insert" =>
              D[o].key \notin KeysOf(T) /\ KeysOf(U) = KeysOf(T) \cup {D[o].key}
         /\ D[o].kind = "delete" =>
              D[o].key \in KeysOf(T) /\ KeysOf(U) = KeysOf(T) \ {D[o].key}
<1>1. o \in DOMAIN D
  BY DEF ChildWrite
<1>2. CASE D[o].kind = "insert"
  <2>1. ~D[o].done
    BY <1>2, InsertFits DEF Fits
  <2>2. KeysOf(U) = KeysOf(T) \cup {D[o].key} /\ D[o].key \notin KeysOf(T)
    BY <1>2, InsertAdds
  <2>3. \A k \in AllKeys :
          (k \in KeysOf(U)) <=> IF k = D[o].key THEN D[o].kind = "insert" ELSE k \in KeysOf(T)
    BY <1>2, <2>2
  <2>4. \A k \in AllKeys :
          (k \in KeysOf(U)) = IF k = D[o].key THEN D[o].kind = "insert" ELSE k \in KeysOf(T)
    BY <2>3
  <2> QED
    BY <1>1, <1>2, <2>1, <2>2, <2>4 DEF Pending
<1>3. CASE D[o].kind = "delete"
  <2>1. ~D[o].done /\ MayMark(T, D, o)
    BY <1>3, DeleteFits DEF Fits, MayMark, ChildWrite
  <2>2. KeysOf(U) = KeysOf(T) \ {D[o].key} /\ D[o].key \in KeysOf(T)
    BY <1>3, DeleteTakes
  <2>3. \A k \in AllKeys :
          (k \in KeysOf(U)) <=> IF k = D[o].key THEN D[o].kind = "insert" ELSE k \in KeysOf(T)
    BY <1>3, <2>2
  <2>4. \A k \in AllKeys :
          (k \in KeysOf(U)) = IF k = D[o].key THEN D[o].kind = "insert" ELSE k \in KeysOf(T)
    BY <2>3
  <2> QED
    BY <1>1, <1>3, <2>1, <2>2, <2>4 DEF Pending
<1> QED
  BY <1>1, <1>2, <1>3, Kinds

LEMMA ChangesSeen ==
  ASSUME SeenInv, PathInv', Moves(node, info, node', info'), NEW t \in Threads, Changes(t)
  PROVE  SeenInv'
<1> DEFINE U == node'
           E == info'
           M == local'
<1>1. /\ Shared(node, info) /\ PathTree(node, info) /\ Owned(node, info, local)
      /\ local \in [Threads -> LocalType]
      /\ Shared(U, E) /\ PathTree(U, E) /\ Moves(node, info, U, E)
  BY SeenStarts DEF PathInv, TreeInv
<1>2. PICK o, c :
        /\ o \in DOMAIN info /\ ChildWrite(node, info, U, E, o, c) /\ local[t].pc = "help"
        /\ \A u \in Threads : u # t => M[u] = Witness(local[u], info[o])
        /\ Stays(Witness(local[t], info[o]), M[t])
  BY DEF Changes
<1> HIDE DEF U, E, M
<1>3. Keeps(node, U)
  BY <1>1, <1>2, ChildPaths
<1>4. SameSaid(info, E) /\ DOMAIN E = DOMAIN info
  BY <1>1, <1>2, SetDone DEF ChildWrite, Shared, SameSaid
<1>5. \A k \in AllKeys :
        (k \in KeysOf(U)) = IF k = info[o].key THEN info[o].kind = "insert" ELSE k \in KeysOf(node)
  BY <1>1, <1>2, ChangeMakes
<1>6. ASSUME NEW u \in Threads
      PROVE  /\ SeenLocal(U, E, Witness(local[u], info[o]))
             /\ Witness(local[u], info[o]).pc = local[u].pc
             /\ Witness(local[u], info[o]).own = local[u].own
  <2> DEFINE me == local[u]
             d == info[o]
             r == Witness(me, d)
  <2>1. LocalView(node, info, me) /\ PathLocal(node, me) /\ SeenLocal(node, info, me)
        /\ me \in LocalType
    BY SeenStarts
  <2>0. r = Witness(me, d)
    OBVIOUS
  <2> HIDE DEF me, d, r
  <2>2. /\ r.pc = me.pc /\ r.op = me.op /\ r.key = me.key /\ r.p = me.p /\ r.own = me.own
        /\ r.help = me.help
        /\ me.key = d.key /\ me.pc # "done" => r.seen = me.seen \cup Came(d)
        /\ ~(me.key = d.key /\ me.pc # "done") => r.seen = me.seen
    BY <2>0, <2>1, WitnessIs
  <2>3. me.seen \subseteq r.seen
    BY <2>2
  <2>4. me.pc \notin {"idle", "done"} => (me.key \in KeysOf(U)) \in r.seen
    <3>1. SUFFICES ASSUME me.pc \notin {"idle", "done"} PROVE (me.key \in KeysOf(U)) \in r.seen
      OBVIOUS
    <3>2. me.key \in AllKeys /\ (me.key \in KeysOf(node)) \in me.seen
      BY <2>1, <3>1 DEF LocalView, SearchView, SeenLocal
    <3>3. (me.key \in KeysOf(U)) = IF me.key = d.key THEN d.kind = "insert"
                                   ELSE me.key \in KeysOf(node)
      BY <1>5, <3>2 DEF d
    <3>4. CASE me.key = d.key
      <4>1. (d.kind = "insert") \in Came(d)
        BY DEF Came
      <4>3. Came(d) \subseteq r.seen
        BY <2>2, <3>1, <3>4
      <4>2. (me.key \in KeysOf(U)) = (d.kind = "insert")
        BY <3>3, <3>4
      <4> QED
        BY <4>1, <4>2, <4>3
    <3>5. CASE me.key # d.key
      <4>1. (me.key \in KeysOf(U)) = (me.key \in KeysOf(node))
        BY <3>3, <3>5
      <4> QED
        BY <2>3, <3>2, <4>1
    <3> QED
      BY <3>4, <3>5
  <2>5. SeenLocal(U, E, r)
    BY <1>1, <1>3, <1>4, <2>1, <2>2, <2>3, <2>4, SeenKept
  <2> QED
    BY <2>2, <2>5 DEF r, me, d
<1>7. ASSUME NEW u \in Threads
      PROVE  SeenLocal(U, E, M[u]) /\ \A q : Owns(M[u], q) <=> Owns(local[u], q)
  <2>1. CASE u = t
    <3>1. SeenLocal(U, E, M[t])
      BY <1>2, <1>6, StaysSeen
    <3>2. M[t].pc = "help" /\ M[t].own = local[t].own
      BY <1>2, <1>6 DEF Stays, Alike
    <3> QED
      BY <1>2, <2>1, <3>1, <3>2 DEF Owns
  <2>2. CASE u # t
    BY <1>2, <1>6, <2>2 DEF Owns
  <2> QED
    BY <2>1, <2>2
<1>8. Owned(U, E, M)
  <2>1. DOMAIN E \ DOMAIN info = {}
    BY <1>4
  <2> QED
    BY <1>1, <1>7, <2>1, OwnedKept
<1> QED
  BY <1>7, <1>8 DEF SeenInv, U, E, M

LEMMA SeenInit ==
  ASSUME Init
  PROVE  SeenInv
<1>1. PathInv
  BY PathInit
<1>2. Owned(node, info, local)
  BY DEF Owned, Init, Owns, Idle
<1>3. ASSUME NEW t \in Threads PROVE SeenLocal(node, info, local[t])
  <2>1. local[t].pc = "idle"
    BY DEF Init, Idle
  <2> QED
    BY <2>1 DEF SeenLocal, Searching
<1> QED
  BY <1>1, <1>2, <1>3 DEF SeenInv

LEMMA SeenNext ==
  ASSUME SeenInv, [Next]_vars
  PROVE  SeenInv'
<1>1. PathInv /\ TreeInv /\ PathInv' /\ Moves(node, info, node', info')
  BY PathNext, NextHolds DEF SeenInv, PathInv
<1>2. CASE UNCHANGED vars
  BY <1>1, <1>2 DEF SeenInv, vars
<1>3. ASSUME NEW t \in Threads, Step(t) PROVE SeenInv'
  BY <1>1, <1>3, StepActs, ActsSeen, ChangesSeen
<1>4. ASSUME NEW t \in Threads, NEW op \in Ops, NEW k \in Keys, Invoke(t, op, k) PROVE SeenInv'
  <2>1. PICK me \in LocalType :
          /\ me.op = op /\ me.key = k /\ (k \in KeysOf(node)) \in me.seen
          /\ local[t].pc = "idle" /\ local' = Turn(local, t, Restart(me))
          /\ node' = node /\ info' = info
    BY <1>4, InvokeIs
  <2> DEFINE r == Restart(me)
  <2>2. Shared(node, info) /\ PathTree(node, info) /\ Owned(node, info, local)
        /\ local \in [Threads -> LocalType]
    BY SeenStarts
  <2>3. me.key \in AllKeys /\ (me.key \in KeysOf(node)) \in me.seen
    BY <2>1, EllenTreeAssumption
  <2>4. SeenLocal(node, info, r)
    BY <2>2, <2>3, RestartsSeen
  <2>5. local' = Turn(local, t, r) /\ r.pc \in {"child", "update"}
    BY <2>1, RestartIs
  <2> HIDE DEF r
  <2>6. Owned(node, info, local')
    <3>1. local'[t] = r /\ \A u \in Threads : u # t => local'[u] = local[u]
      BY <2>2, <2>5 DEF Turn
    <3>2. \A u \in Threads : \A o : Owns(local'[u], o) <=> Owns(local[u], o)
      BY <2>1, <2>5, <3>1 DEF Owns
    <3> QED
      BY <2>2, <3>2 DEF Owned
  <2>7. Keeps(node, node') /\ SameSaid(info, info') /\ KeysOf(node') = KeysOf(node)
        /\ SeenLocal(node', info', r) /\ Owned(node', info', local')
    BY <2>1, <2>4, <2>6, StillKeeps DEF SameSaid, SameUpdate
  <2> QED
    BY <1>1, <2>5, <2>7, SeenClose
<1> QED
  BY <1>2, <1>3, <1>4 DEF Next, Terminating

\* What the leaf at the end of a search tells was so during the call, and an
\* update that may still happen has one caller, who waits for it.
THEOREM SeenInvariant == Spec => []SeenInv
<1>1. Init => SeenInv
  BY SeenInit
<1>2. SeenInv /\ [Next]_vars => SeenInv'
  BY SeenNext
<1> QED
  BY <1>1, <1>2, PTL DEF Spec

-----------------------------------------------------------------------------
(***************************************************************************)
(* The tree is a dictionary.                                               *)
(***************************************************************************)

\* The dictionary's view of a call with locals me.
CallAs(D, me) ==
  CASE me.pc = "idle" -> [phase |-> "idle"]
    [] me.pc = "done" -> [phase |-> "done", res |-> me.res]
    [] me.pc \notin {"idle", "done"} ->
         IF me.own # 0 /\ D[me.own].done THEN [phase |-> "done", res |-> TRUE]
         ELSE [phase |-> me.op, key |-> me.key, seen |-> me.seen]

LEMMA CallIs ==
  ASSUME NEW D, NEW me
  PROVE  /\ me.pc = "idle" => CallAs(D, me) = Dictionary!Idle
         /\ me.pc = "done" => CallAs(D, me) = Dictionary!Done(me.res)
         /\ me.pc \notin {"idle", "done"} /\ me.own # 0 /\ D[me.own].done =>
              CallAs(D, me) = Dictionary!Done(TRUE)
         /\ me.pc \notin {"idle", "done"} /\ (me.own = 0 \/ ~D[me.own].done) =>
              CallAs(D, me) = Dictionary!Busy(me.op, me.key, me.seen)
  BY DEF CallAs, Dictionary!Idle, Dictionary!Done, Dictionary!Busy

LEMMA CallsAre ==
  ASSUME NEW t \in Threads
  PROVE  CallOf(t) = CallAs(info, local[t]) /\ CallOf(t)' = CallAs(info', local'[t])
<1>1. CallOf(t) = CallAs(info, local[t])
  BY DEF CallOf, CallAs
<1>2. CallOf(t)' = CallAs(info', local'[t])
  BY DEF CallOf, CallAs
<1> QED
  BY <1>1, <1>2

\* An update of one's own is known to the descriptors, and only a helper has one.
LEMMA OwnIs ==
  ASSUME NEW T, NEW D, NEW me \in LocalType, SeenLocal(T, D, me)
  PROVE  me.pc \in {"idle", "done"} \/ me.own = 0 \/ (me.own \in DOMAIN D /\ me.pc = "help")
<1>1. me.pc \in {"idle", "update", "child", "cas", "help", "done"}
  BY DEF LocalType
<1> QED
  BY <1>1 DEF SeenLocal, Searching

\* Nothing is said of a call as long as no update of its own is done.
LEMMA CallKept ==
  ASSUME NEW T, NEW D, NEW E, NEW me \in LocalType, SeenLocal(T, D, me),
         \A o \in DOMAIN D : E[o].done = D[o].done
  PROVE  CallAs(E, me) = CallAs(D, me)
<1>1. me.pc \in {"idle", "done"} \/ me.own = 0 \/ me.own \in DOMAIN D
  BY OwnIs
<1>2. CASE me.pc \in {"idle", "done"}
  BY <1>2, CallIs
<1>3. CASE me.pc \notin {"idle", "done"}
  <2>1. me.own = 0 \/ E[me.own].done = D[me.own].done
    BY <1>1, <1>3
  <2> QED
    BY <1>3, <2>1, CallIs
<1> QED
  BY <1>2, <1>3

LEMMA AlikeCalls ==
  ASSUME NEW D, NEW me, NEW r, Alike(me, r),
         me.pc \notin {"idle", "done"}, r.pc \notin {"idle", "done"}
  PROVE  CallAs(D, r) = CallAs(D, me)
  BY CallIs DEF Alike

-----------------------------------------------------------------------------
(***************************************************************************)
(* What the dictionary does.                                               *)
(***************************************************************************)
OthersSay(t) == \A u \in Threads : u # t => CallOf(u)' = CallOf(u)

LEMMA DictTurn ==
  ASSUME NEW t \in Threads, OthersSay(t), NEW q, CallOf(t)' = q
  PROVE  [u \in Threads |-> CallOf(u)]' = [[u \in Threads |-> CallOf(u)] EXCEPT ![t] = q]
  BY DEF OthersSay

LEMMA DictStutters ==
  ASSUME NEW t \in Threads, OthersSay(t), CallOf(t)' = CallOf(t), KeysOf(node)' = KeysOf(node)
  PROVE  UNCHANGED Dictionary!vars
  BY DEF OthersSay, Dictionary!vars

LEMMA DictInvokes ==
  ASSUME NEW t \in Threads, OthersSay(t), KeysOf(node)' = KeysOf(node), NEW op, NEW k,
         CallOf(t) = Dictionary!Idle,
         CallOf(t)' = Dictionary!Busy(op, k, {(k \in KeysOf(node))})
  PROVE  Dictionary!Invoke(t, op, k)
  BY DictTurn DEF Dictionary!Invoke

LEMMA DictReturns ==
  ASSUME NEW t \in Threads, OthersSay(t), KeysOf(node)' = KeysOf(node), NEW b,
         CallOf(t) = Dictionary!Done(b), CallOf(t)' = Dictionary!Idle
  PROVE  Dictionary!Return(t)
  BY DictTurn DEF Dictionary!Return, Dictionary!Done

LEMMA DictAnswers ==
  ASSUME NEW t \in Threads, OthersSay(t), KeysOf(node)' = KeysOf(node),
         NEW op \in Ops, NEW k, NEW seen, NEW b \in seen, NEW res,
         CallOf(t) = Dictionary!Busy(op, k, seen), CallOf(t)' = Dictionary!Done(res),
         \/ op = "find" /\ res = b
         \/ op = (IF b THEN "insert" ELSE "delete") /\ res = FALSE
  PROVE  Dictionary!Answer(t)
<1>1. CallOf(t).phase = op /\ CallOf(t).seen = seen
  BY DEF Dictionary!Busy
<1> QED
  BY <1>1, DictTurn DEF Dictionary!Answer, Dictionary!Ops, Ops

Sees(c, x) == [c EXCEPT !.seen = @ \cup x]

\* An update takes effect: its caller is done, and whoever is busy with its key
\* has seen it.
SeeUpdate(u, k, b) == \A v \in Threads : v # u =>
  CallOf(v)' = IF CallOf(v).phase \in Dictionary!Ops /\ CallOf(v).key = k
               THEN Sees(CallOf(v), {b}) ELSE CallOf(v)

LEMMA DictInserts ==
  ASSUME NEW u \in Threads, NEW k, NEW seen, SeeUpdate(u, k, TRUE),
         CallOf(u) = Dictionary!Busy("insert", k, seen), CallOf(u)' = Dictionary!Done(TRUE),
         k \notin KeysOf(node), KeysOf(node)' = KeysOf(node) \cup {k}
  PROVE  Dictionary!Insert(u)
<1>1. CallOf(u).phase = "insert" /\ CallOf(u).key = k
  BY DEF Dictionary!Busy
<1>2. [v \in Threads |-> CallOf(v)]' = [Dictionary!Witnessed(k, TRUE) EXCEPT ![u] = Dictionary!Done(TRUE)]
  BY DEF Dictionary!Witnessed, SeeUpdate, Sees
<1> QED
  BY <1>1, <1>2 DEF Dictionary!Insert

LEMMA DictDeletes ==
  ASSUME NEW u \in Threads, NEW k, NEW seen, SeeUpdate(u, k, FALSE),
         CallOf(u) = Dictionary!Busy("delete", k, seen), CallOf(u)' = Dictionary!Done(TRUE),
         k \in KeysOf(node), KeysOf(node)' = KeysOf(node) \ {k}
  PROVE  Dictionary!Delete(u)
<1>1. CallOf(u).phase = "delete" /\ CallOf(u).key = k
  BY DEF Dictionary!Busy
<1>2. [v \in Threads |-> CallOf(v)]' = [Dictionary!Witnessed(k, FALSE) EXCEPT ![u] = Dictionary!Done(TRUE)]
  BY DEF Dictionary!Witnessed, SeeUpdate, Sees
<1> QED
  BY <1>1, <1>2 DEF Dictionary!Delete

-----------------------------------------------------------------------------
(***************************************************************************)
(* The steps that change no key.                                           *)
(***************************************************************************)

\* The search tells what the call has seen.
LEMMA AnswerSeen ==
  ASSUME NEW T, NEW D, Shared(T, D), PathTree(T, D), NEW me, LocalView(T, D, me),
         SeenLocal(T, D, me), me.pc = "child", NEW c, c = ChildFor(T, me.p, me.key), IsLeaf(T, c)
  PROVE  (T[c].key = me.key) \in me.seen
<1>1. Rooted(T) /\ me.p \in DOMAIN T /\ ~IsLeaf(T, me.p)
  BY PathTreeFacts DEF LocalView, SearchView, IsInternal
<1>2. c \in Path(T, me.p, me.key)
  BY <1>1, PathFacts
<1> QED
  BY <1>2 DEF SeenLocal, Searching, Tells

LEMMA ActsAreDictionary ==
  ASSUME SeenInv, NEW t \in Threads, NEW r, Acts(t, r)
  PROVE  Dictionary!Answer(t) \/ Dictionary!Return(t) \/ UNCHANGED Dictionary!vars
<1> DEFINE me == local[t]
           U == node'
           E == info'
           C == CallAs(info, me)
           R == CallAs(E, r)
<1>1. /\ Shared(node, info) /\ PathTree(node, info) /\ local \in [Threads -> LocalType]
      /\ me \in LocalType /\ LocalView(node, info, me)
      /\ PathLocal(node, me) /\ SeenLocal(node, info, me) /\ local' = Turn(local, t, r)
  BY SeenStarts DEF Acts
<1>2. CallOf(t) = C /\ CallOf(t)' = R
  <2>1. local'[t] = r
    BY <1>1 DEF Turn
  <2> QED
    BY <2>1, CallsAre
<1> HIDE DEF me, U, E, C, R
<1>3. ASSUME \A o \in DOMAIN info : E[o].done = info[o].done
      PROVE  OthersSay(t) /\ CallAs(E, me) = C
  <2>1. ASSUME NEW u \in Threads, u # t PROVE CallOf(u)' = CallOf(u)
    <3>1. local'[u] = local[u]
      BY <1>1, <2>1 DEF Turn
    <3>2. local[u] \in LocalType /\ SeenLocal(node, info, local[u])
      BY SeenStarts
    <3>3. CallAs(E, local[u]) = CallAs(info, local[u])
      BY <1>3, <3>2, CallKept
    <3> QED
      BY <3>1, <3>3, CallsAre DEF E
  <2>2. CallAs(E, me) = C
    BY <1>1, <1>3, CallKept DEF C
  <2> QED
    BY <2>1, <2>2 DEF OthersSay
<1>4. ASSUME OthersSay(t), KeysOf(U) = KeysOf(node), R = C PROVE UNCHANGED Dictionary!vars
  BY <1>2, <1>4, DictStutters DEF U
<1>5. me.pc \in Searching => me.own = 0
  BY <1>1 DEF SeenLocal
<1>6. CASE /\ U = node /\ E = info
           /\ \/ Searches(node, me, r) \/ Answers(node, me, r)
              \/ Helps(me, r) \/ Retries(me, r)
              \/ me.pc = "done" /\ r = Idle
  <2>1. OthersSay(t) /\ KeysOf(U) = KeysOf(node)
    BY <1>3, <1>6
  <2>2. CASE Searches(node, me, r) \/ Helps(me, r)
    <3>1. Alike(me, r) /\ me.pc \notin {"idle", "done"} /\ r.pc \notin {"idle", "done"}
      BY <2>2 DEF Searches, Helps
    <3>2. R = C
      BY <1>6, <3>1, AlikeCalls DEF R, C
    <3> QED
      BY <1>4, <2>1, <3>2
  <2>3. CASE Retries(me, r)
    <3>1. /\ r.pc \in {"child", "update"} /\ r.own = 0
          /\ r.key = me.key /\ r.op = me.op /\ r.seen = me.seen /\ me.pc \in {"child", "cas"}
      BY <1>1, <2>3, RestartIs DEF Retries
    <3>2. Alike(me, r)
      BY <1>5, <3>1 DEF Alike, Searching
    <3>3. R = C
      BY <1>6, <3>1, <3>2, AlikeCalls DEF R, C
    <3> QED
      BY <1>4, <2>1, <3>3
  <2>4. CASE Answers(node, me, r)
    <3> DEFINE c == ChildFor(node, me.p, me.key)
               b == node[c].key = me.key
    <3>1. me.pc = "child" /\ IsLeaf(node, c) /\ r.pc = "done"
          /\ \/ me.op = "find" /\ r.res = b
             \/ me.op # "find" /\ b = (me.op = "insert") /\ r.res = FALSE
      BY <2>4 DEF Answers
    <3>2. b \in me.seen
      BY <1>1, <3>1, AnswerSeen
    <3>3. me.op \in Ops
      BY <1>1, <3>1 DEF LocalView, SearchView
    <3> HIDE DEF b, c
    <3>4. C = Dictionary!Busy(me.op, me.key, me.seen)
      BY <1>5, <3>1, CallIs DEF C, Searching
    <3>5. R = Dictionary!Done(r.res)
      BY <3>1, CallIs DEF R
    <3>6. \/ me.op = "find" /\ r.res = b
          \/ me.op = (IF b THEN "insert" ELSE "delete") /\ r.res = FALSE
      BY <3>1, <3>3 DEF Ops
    <3> QED
      BY <1>2, <2>1, <3>2, <3>3, <3>4, <3>5, <3>6, DictAnswers DEF U
  <2>5. CASE me.pc = "done" /\ r = Idle
    <3>1. C = Dictionary!Done(me.res)
      BY <2>5, CallIs DEF C
    <3>2. R = Dictionary!Idle
      BY <2>5, CallIs DEF R, Idle
    <3> QED
      BY <1>2, <2>1, <3>1, <3>2, DictReturns DEF U
  <2> QED
    BY <1>6, <2>2, <2>3, <2>4, <2>5
<1>7. CASE QuietWrite(node, info, U, E) /\ (Stays(me, r) \/ Leaves(me, r))
  <2>1. \A q \in DOMAIN info : E[q].done = info[q].done
    BY <1>1, <1>7, QuietSaid
  <2>2. KeysOf(U) = KeysOf(node)
    BY <1>1, <1>7, QuietPlaces
  <2>3. OthersSay(t) /\ CallAs(E, me) = C
    BY <1>3, <2>1
  <2>4. CASE Stays(me, r)
    <3>1. R = CallAs(E, me)
      BY <2>4, AlikeCalls DEF R, Stays
    <3> QED
      BY <1>4, <2>2, <2>3, <3>1
  <2>5. CASE Leaves(me, r)
    <3>1. me.pc = "help" /\ Len(me.help) = 1
      BY <2>5 DEF Leaves
    <3>2. CASE me.own # 0 /\ me.help[1].at = "unflag" /\ r.pc = "done" /\ r.res = TRUE
      <4>1. info[me.own].done
        BY <1>1, <3>1, <3>2, OwnLeaves
      <4>2. C = Dictionary!Done(TRUE)
        BY <3>1, <3>2, <4>1, CallIs DEF C
      <4>3. R = Dictionary!Done(TRUE)
        BY <3>2, CallIs DEF R
      <4> QED
        BY <1>4, <2>2, <2>3, <4>2, <4>3
    <3>3. CASE (me.own = 0 \/ me.help[1].at = "backoff") /\ r = Restart(me)
      <4>1. me.own = 0 \/ ~info[me.own].done
        BY <1>1, <3>1, <3>3, OwnLeaves
      <4>2. C = Dictionary!Busy(me.op, me.key, me.seen)
        BY <3>1, <4>1, CallIs DEF C
      <4>3. /\ r.pc \in {"child", "update"} /\ r.own = 0
            /\ r.key = me.key /\ r.op = me.op /\ r.seen = me.seen
        BY <1>1, <3>3, RestartIs
      <4>4. R = Dictionary!Busy(me.op, me.key, me.seen)
        BY <4>3, CallIs DEF R
      <4> QED
        BY <1>4, <2>2, <2>3, <4>2, <4>4
    <3> QED
      BY <2>5, <3>2, <3>3 DEF Leaves
  <2> QED
    BY <1>7, <2>4, <2>5
<1>8. CASE FlagWrite(node, info, U, E, me) /\ Flags(info, me, r)
  <2>1. \A q \in DOMAIN info : E[q].done = info[q].done
    BY <1>1, <1>8, FlagSaid
  <2>2. /\ me.pc = "cas" /\ r.pc = "help" /\ r.own = Len(info) + 1
        /\ r.key = me.key /\ r.op = me.op /\ r.seen = me.seen
    BY <1>8 DEF Flags
  <2>3. KeysOf(U) = KeysOf(node)
    BY <1>1, <1>8, <2>2, FlagPlaces
  <2>4. C = Dictionary!Busy(me.op, me.key, me.seen)
    BY <1>5, <2>2, CallIs DEF C, Searching
  <2>5. ~E[r.own].done
    BY <1>1, <1>8, <2>2, FlagFresh
  <2>6. R = Dictionary!Busy(r.op, r.key, r.seen)
    BY <2>2, <2>5, CallIs DEF R
  <2> QED
    BY <1>3, <1>4, <2>1, <2>2, <2>3, <2>4, <2>6
<1> QED
  BY <1>6, <1>7, <1>8 DEF Acts, me, U, E

-----------------------------------------------------------------------------
(***************************************************************************)
(* The child CAS, and the other steps.                                     *)
(***************************************************************************)

LEMMA BusySees ==
  ASSUME NEW op, NEW k, NEW seen, NEW x, NEW c, c = Dictionary!Busy(op, k, seen)
  PROVE  Sees(c, x) = Dictionary!Busy(op, k, seen \cup x)
  BY DEF Dictionary!Busy, Sees

\* What a call says after update o, which is not its own.
LEMMA WitnessCall ==
  ASSUME NEW T, NEW D, NEW me \in LocalType, SeenLocal(T, D, me), LocalView(T, D, me),
         NEW o, ~D[o].done, ~Owns(me, o), NEW d, NEW E, NEW r,
         \A q \in DOMAIN D : q # o => E[q].done = D[q].done,
         r.pc = me.pc, r.op = me.op, r.key = me.key, r.own = me.own,
         me.pc = "done" => r.res = me.res,
         me.key = d.key /\ me.pc # "done" => r.seen = me.seen \cup Came(d),
         ~(me.key = d.key /\ me.pc # "done") => r.seen = me.seen
  PROVE  CallAs(E, r) =
           IF CallAs(D, me).phase \in Dictionary!Ops /\ CallAs(D, me).key = d.key
           THEN Sees(CallAs(D, me), Came(d)) ELSE CallAs(D, me)
<1> DEFINE C == CallAs(D, me)
           R == CallAs(E, r)
<1>1. CASE me.pc = "idle"
  <2>1. C = Dictionary!Idle /\ R = Dictionary!Idle
    BY <1>1, CallIs
  <2> QED
    BY <2>1 DEF Dictionary!Idle, Dictionary!Ops
<1>2. CASE me.pc = "done"
  <2>1. C = Dictionary!Done(me.res) /\ R = Dictionary!Done(me.res)
    BY <1>2, CallIs
  <2> QED
    BY <2>1 DEF Dictionary!Done, Dictionary!Ops
<1>3. CASE me.pc \notin {"idle", "done"}
  <2>1. me.own = 0 \/ (me.own \in DOMAIN D /\ me.own # o /\ E[me.own].done = D[me.own].done)
    BY <1>3, OwnIs DEF Owns
  <2>2. CASE me.own # 0 /\ D[me.own].done
    <3>1. C = Dictionary!Done(TRUE) /\ R = Dictionary!Done(TRUE)
      BY <1>3, <2>1, <2>2, CallIs
    <3> QED
      BY <3>1 DEF Dictionary!Done, Dictionary!Ops
  <2>3. CASE me.own = 0 \/ ~D[me.own].done
    <3>1. C = Dictionary!Busy(me.op, me.key, me.seen)
          /\ R = Dictionary!Busy(me.op, me.key, r.seen)
      BY <1>3, <2>1, <2>3, CallIs
    <3>2. me.op \in Dictionary!Ops
      BY <1>3 DEF LocalView, SearchView, Ops, Dictionary!Ops
    <3>3. C.phase \in Dictionary!Ops /\ C.key = me.key
      BY <3>1, <3>2 DEF Dictionary!Busy
    <3>4. Sees(C, Came(d)) = Dictionary!Busy(me.op, me.key, me.seen \cup Came(d))
      BY <3>1, BusySees
    <3> HIDE DEF C, R
    <3>5. CASE me.key = d.key
      <4>1. r.seen = me.seen \cup Came(d)
        BY <1>3, <3>5
      <4> QED
        BY <3>1, <3>3, <3>4, <3>5, <4>1 DEF C, R
    <3>6. CASE me.key # d.key
      <4>1. r.seen = me.seen
        BY <3>6
      <4> QED
        BY <3>1, <3>3, <3>6, <4>1 DEF C, R
    <3> QED
      BY <3>5, <3>6
  <2> QED
    BY <2>2, <2>3
<1> QED
  BY <1>1, <1>2, <1>3

LEMMA ChangesAreDictionary ==
  ASSUME SeenInv, NEW t \in Threads, Changes(t)
  PROVE  \E u \in Threads : Dictionary!Insert(u) \/ Dictionary!Delete(u)
<1> DEFINE U == node'
           E == info'
           M == local'
<1>1. /\ Shared(node, info) /\ PathTree(node, info) /\ Owned(node, info, local)
      /\ info \in Seq(InfoType)
  BY SeenStarts DEF Shared
<1>2. PICK o, c :
        /\ o \in DOMAIN info /\ ChildWrite(node, info, U, E, o, c) /\ local[t].pc = "help"
        /\ \A u \in Threads : u # t => M[u] = Witness(local[u], info[o])
        /\ Stays(Witness(local[t], info[o]), M[t])
  BY DEF Changes
<1> DEFINE d == info[o]
<1> HIDE DEF U, E, M, d
<1>3. E[o].done /\ \A q \in DOMAIN info : q # o => E[q].done = info[q].done
  BY <1>1, <1>2, SetDone DEF ChildWrite
<1>4. Pending(node, info, o) /\ ~info[o].done
  BY <1>1, <1>2, ChangeMakes DEF Pending
<1>5. PICK u \in Threads : Owns(local[u], o)
  BY <1>1, <1>2, <1>4 DEF Owned
<1>6. ASSUME NEW v \in Threads
      PROVE  /\ M[v].pc = local[v].pc /\ M[v].op = local[v].op /\ M[v].key = local[v].key
             /\ M[v].own = local[v].own
             /\ local[v].pc = "done" => M[v].res = local[v].res
             /\ local[v].key = d.key /\ local[v].pc # "done" => M[v].seen = local[v].seen \cup Came(d)
             /\ ~(local[v].key = d.key /\ local[v].pc # "done") => M[v].seen = local[v].seen
  <2> DEFINE me == local[v]
             w == Witness(me, d)
  <2>1. me \in LocalType /\ w = Witness(me, d)
    BY SeenStarts
  <2>2. v # t => M[v] = w
    BY <1>2 DEF d
  <2>3. v = t => Stays(w, M[v]) /\ me.pc = "help"
    BY <1>2 DEF d
  <2> HIDE DEF me, w
  <2>4. /\ w.pc = me.pc /\ w.op = me.op /\ w.key = me.key /\ w.own = me.own /\ w.res = me.res
        /\ me.key = d.key /\ me.pc # "done" => w.seen = me.seen \cup Came(d)
        /\ ~(me.key = d.key /\ me.pc # "done") => w.seen = me.seen
    BY <2>1, WitnessIs
  <2>5. CASE v = t
    BY <2>3, <2>4, <2>5 DEF Stays, Alike, me
  <2>6. CASE v # t
    BY <2>2, <2>4, <2>6 DEF me
  <2> QED
    BY <2>5, <2>6
<1>7. ASSUME NEW v \in Threads, v # u
      PROVE  CallOf(v)' = IF CallOf(v).phase \in Dictionary!Ops /\ CallOf(v).key = d.key
                          THEN Sees(CallOf(v), Came(d)) ELSE CallOf(v)
  <2>1. local[v] \in LocalType /\ SeenLocal(node, info, local[v]) /\ LocalView(node, info, local[v])
    BY SeenStarts
  <2>2. ~Owns(local[v], o)
    BY <1>1, <1>2, <1>5, <1>7 DEF Owned
  <2> DEFINE me == local[v]
             r == M[v]
  <2>3. /\ r.pc = me.pc /\ r.op = me.op /\ r.key = me.key /\ r.own = me.own
        /\ me.pc = "done" => r.res = me.res
        /\ me.key = d.key /\ me.pc # "done" => r.seen = me.seen \cup Came(d)
        /\ ~(me.key = d.key /\ me.pc # "done") => r.seen = me.seen
    BY <1>6
  <2>4. CallOf(v) = CallAs(info, me) /\ CallOf(v)' = CallAs(E, r)
    BY CallsAre DEF E, M
  <2> HIDE DEF me, r
  <2>5. me \in LocalType /\ SeenLocal(node, info, me) /\ LocalView(node, info, me) /\ ~Owns(me, o)
    BY <2>1, <2>2 DEF me
  <2>6. CallAs(E, r) =
           IF CallAs(info, me).phase \in Dictionary!Ops /\ CallAs(info, me).key = d.key
           THEN Sees(CallAs(info, me), Came(d)) ELSE CallAs(info, me)
    BY <1>3, <1>4, <2>3, <2>5, WitnessCall
  <2> QED
    BY <2>4, <2>6
<1>8. /\ CallOf(u) = Dictionary!Busy(d.kind, d.key, local[u].seen)
      /\ CallOf(u)' = Dictionary!Done(TRUE)
  <2> DEFINE me == local[u]
             r == M[u]
  <2>1. me.pc = "help" /\ me.own = o /\ r.pc = "help" /\ r.own = o
    BY <1>5, <1>6 DEF Owns
  <2>2. o # 0
    BY <1>1, <1>2, Typed
  <2>3. me.key = d.key /\ me.op = d.kind
    <3>1. SeenLocal(node, info, me)
      BY SeenStarts
    <3> HIDE DEF me
    <3> QED
      BY <2>1, <2>2, <3>1 DEF SeenLocal, d
  <2>4. CallOf(u) = CallAs(info, me) /\ CallOf(u)' = CallAs(E, r)
    BY CallsAre DEF E, M
  <2>5. CallAs(info, me) = Dictionary!Busy(me.op, me.key, me.seen)
    BY <1>4, <2>1, CallIs
  <2>6. CallAs(E, r) = Dictionary!Done(TRUE)
    BY <1>3, <2>1, <2>2, CallIs
  <2> QED
    BY <2>3, <2>4, <2>5, <2>6
<1>9. CASE d.kind = "insert"
  <2>1. d.key \notin KeysOf(node) /\ KeysOf(U) = KeysOf(node) \cup {d.key}
    BY <1>1, <1>2, <1>9, ChangeMakes DEF d
  <2>2. Came(d) = {TRUE}
    BY <1>9 DEF Came
  <2>3. SeeUpdate(u, d.key, TRUE)
    BY <1>7, <2>2 DEF SeeUpdate
  <2>4. Dictionary!Insert(u)
    BY <1>8, <1>9, <2>1, <2>3, DictInserts DEF U
  <2> QED
    BY <2>4
<1>10. CASE d.kind = "delete"
  <2>1. d.key \in KeysOf(node) /\ KeysOf(U) = KeysOf(node) \ {d.key}
    BY <1>1, <1>2, <1>10, ChangeMakes DEF d
  <2>2. Came(d) = {FALSE}
    BY <1>10 DEF Came
  <2>3. SeeUpdate(u, d.key, FALSE)
    BY <1>7, <2>2 DEF SeeUpdate
  <2>4. Dictionary!Delete(u)
    BY <1>8, <1>10, <2>1, <2>3, DictDeletes DEF U
  <2> QED
    BY <2>4
<1>11. d.kind \in {"insert", "delete"}
  BY <1>1, <1>2, Kinds DEF d
<1> QED
  BY <1>9, <1>10, <1>11

LEMMA InvokeIsDictionary ==
  ASSUME SeenInv, NEW t \in Threads, NEW op \in Ops, NEW k \in Keys, Invoke(t, op, k)
  PROVE  Dictionary!Invoke(t, op, k)
<1>1. PICK me \in LocalType :
        /\ me.op = op /\ me.key = k /\ me.seen = {(k \in KeysOf(node))}
        /\ local[t].pc = "idle" /\ local' = Turn(local, t, Restart(me))
        /\ node' = node /\ info' = info
  BY InvokeIs
<1> DEFINE r == Restart(me)
<1>2. r.pc \in {"child", "update"} /\ r.own = 0 /\ r.key = k /\ r.op = op /\ r.seen = me.seen
      /\ local' = Turn(local, t, r)
  BY <1>1, RestartIs
<1> HIDE DEF r
<1>3. local \in [Threads -> LocalType]
  BY SeenStarts
<1>4. local'[t] = r /\ \A u \in Threads : u # t => local'[u] = local[u]
  BY <1>2, <1>3 DEF Turn
<1>5. OthersSay(t)
  BY <1>1, <1>4, CallsAre DEF OthersSay
<1>6. CallOf(t) = Dictionary!Idle
  <2>1. CallAs(info, local[t]) = Dictionary!Idle
    BY <1>1, CallIs
  <2> QED
    BY <2>1, CallsAre
<1>7. CallAs(info', r) = Dictionary!Busy(op, k, me.seen)
  BY <1>2, CallIs
<1>8. CallOf(t)' = Dictionary!Busy(op, k, {(k \in KeysOf(node))})
  BY <1>1, <1>4, <1>7, CallsAre
<1>9. KeysOf(node)' = KeysOf(node)
  BY <1>1
<1> QED
  BY <1>5, <1>6, <1>8, <1>9, DictInvokes

LEMMA DictionaryInit ==
  ASSUME Init
  PROVE  Dictionary!Init
<1>1. \A t \in Threads : CallOf(t) = Dictionary!Idle
  BY DEF Init, CallOf, Idle, Dictionary!Idle
<1>2. KeysOf(node) = KeysOf(Built)
  BY DEF Init
<1> QED
  BY <1>1, <1>2 DEF Dictionary!Init

LEMMA NextIsDictionary ==
  ASSUME SeenInv, [Next]_vars
  PROVE  [Dictionary!Next]_(Dictionary!vars)
<1>1. TreeInv
  BY DEF SeenInv, PathInv
<1>2. CASE UNCHANGED vars
  BY <1>2 DEF vars, Dictionary!vars, CallOf
<1>3. ASSUME NEW t \in Threads, Step(t) PROVE [Dictionary!Next]_(Dictionary!vars)
  <2>1. CASE Changes(t)
    <3>1. PICK u \in Threads : Dictionary!Insert(u) \/ Dictionary!Delete(u)
      BY <2>1, ChangesAreDictionary
    <3> QED
      BY <3>1 DEF Dictionary!Next
  <2>2. ASSUME NEW r, Acts(t, r) PROVE [Dictionary!Next]_(Dictionary!vars)
    <3>1. Dictionary!Answer(t) \/ Dictionary!Return(t) \/ UNCHANGED Dictionary!vars
      BY <2>2, ActsAreDictionary
    <3> QED
      BY <3>1 DEF Dictionary!Next
  <2> QED
    BY <1>1, <1>3, <2>1, <2>2, StepActs
<1>4. ASSUME NEW t \in Threads, NEW op \in Ops, NEW k \in Keys, Invoke(t, op, k)
      PROVE  [Dictionary!Next]_(Dictionary!vars)
  <2>1. Dictionary!Invoke(t, op, k)
    BY <1>4, InvokeIsDictionary
  <2>2. op \in Dictionary!Ops
    BY DEF Ops, Dictionary!Ops
  <2> QED
    BY <2>1, <2>2 DEF Dictionary!Next
<1> QED
  BY <1>2, <1>3, <1>4 DEF Next, Terminating

\* insert, delete and find act on a set of keys at one instant of the call, for
\* any number of threads, keys and helpers: a successful update at the child CAS
\* of its descriptor, whoever makes it, every other answer at some instant when
\* it was true.
THEOREM Linearizable == Spec => RefinesKeySet
<1>1. Init => Dictionary!Init
  BY DictionaryInit
<1>2. SeenInv /\ [Next]_vars => [Dictionary!Next]_(Dictionary!vars)
  BY NextIsDictionary
<1> QED
  BY <1>1, <1>2, SeenInvariant, PTL DEF Spec, RefinesKeySet, Dictionary!Spec
=============================================================================
