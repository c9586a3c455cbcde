---------------------------- MODULE KernelProofs ----------------------------
(***************************************************************************)
(* Proofs about the protocol kernel, for any number of connections, any    *)
(* cap on requests in flight and answers of any length.                    *)
(***************************************************************************)
EXTENDS Kernel, FiniteSetTheorems, TLAPS

-----------------------------------------------------------------------------
(* Folds.  The library's induction theorems are about operators; these are *)
(* inductions over sets: a set without what is claimed has a smallest one. *)

\* A set of numbers that is finite and not empty has a greatest one.
LEMMA MaxIsMember ==
  ASSUME NEW S \in SUBSET Nat, IsFiniteSet(S), S # {}
  PROVE  Max(S) \in S /\ \A b \in S : b <= Max(S)
<1>. DEFINE Above(a) == {b \in S : b > a}
            T == {Above(a) : a \in S}
<1>1. \A a \in S : Above(a) \in FiniteSubsetsOf(S)
  BY FS_Subset DEF FiniteSubsetsOf
<1>2. PICK t \in T : \A u \in T : ~(<<u, t>> \in StrictSubsetOrdering(S))
  <2>1. T \subseteq FiniteSubsetsOf(S) /\ T # {}
    <3>. HIDE DEF Above
    <3>. QED
      BY <1>1
  <2>2. IsWellFoundedOn(StrictSubsetOrdering(S), FiniteSubsetsOf(S))
    BY FS_StrictSubsetOrderingWellFounded
  <2>. HIDE DEF T
  <2>. QED
    BY <2>1, <2>2, WFMin
<1>3. PICK a \in S : t = Above(a)
  BY <1>2
<1>4. ASSUME NEW b \in S, b > a PROVE FALSE
  <2>1. a \in Nat /\ b \in Nat /\ \A c \in S : c \in Nat
    OBVIOUS
  <2>2. b \in Above(a) /\ b \notin Above(b)
    BY <1>4, <2>1
  <2>3. \A c \in S : c > b => c > a
    BY <1>4, <2>1
  <2>4. <<Above(b), t>> \in StrictSubsetOrdering(S)
    BY <2>2, <2>3, <1>3 DEF StrictSubsetOrdering
  <2>. QED
    BY <1>2, <2>4
<1>5. \A b \in S : a >= b /\ b <= a
  <2>1. a \in Nat /\ \A b \in S : b \in Nat
    OBVIOUS
  <2>. QED
    BY <1>4, <2>1
<1>6. Max(S) \in S /\ \A b \in S : Max(S) >= b
  BY <1>5 DEF Max
<1>. QED
  BY <1>6

\* One frame.
Step(i, f) == Follow(Observe(i, f), f)

\* g folds the frames with the indices of each subset of S.
Folds(g, S, i, frames) ==
  g = [u \in SUBSET S |-> IF u = {} THEN i ELSE Step(g[u \ {Max(u)}], frames[Max(u)])]

\* Push is one of these.
LEMMA PushIsFold ==
  ASSUME NEW i, NEW frames
  PROVE  Push(i, frames) = (CHOOSE g : Folds(g, DOMAIN frames, i, frames))[DOMAIN frames]
BY DEF Push, FoldLeft, MapThenFoldSet, Step, Folds

\* Two folds agree where their frames do.
LEMMA FoldsAgree ==
  ASSUME NEW S \in SUBSET Nat, IsFiniteSet(S), NEW T \in SUBSET Nat, IsFiniteSet(T),
         NEW i, NEW x, NEW y, \A n \in S \cap T : x[n] = y[n],
         NEW g, NEW h, Folds(g, S, i, x), Folds(h, T, i, y),
         NEW u \in SUBSET (S \cap T)
  PROVE  g[u] = h[u]
<1>. DEFINE U   == S \cap T
            Bad == {w \in SUBSET U : g[w] # h[w]}
<1>1. IsFiniteSet(U)
  BY FS_Intersection
<1>2. SUFFICES ASSUME Bad # {} PROVE FALSE
  OBVIOUS
<1>3. Bad \subseteq FiniteSubsetsOf(U) /\ IsWellFoundedOn(StrictSubsetOrdering(U), FiniteSubsetsOf(U))
  BY <1>1, FS_Subset, FS_StrictSubsetOrderingWellFounded DEF FiniteSubsetsOf
<1>4. PICK w \in Bad : \A v \in Bad : ~(<<v, w>> \in StrictSubsetOrdering(U))
  <2>. HIDE DEF Bad, U
  <2>. QED
    BY <1>2, <1>3, WFMin
<1>5. CASE w = {}
  BY <1>5 DEF Folds
<1>6. CASE w # {}
  <2>1. Max(w) \in w
    BY <1>1, <1>6, MaxIsMember, FS_Subset
  <2>2. w \ {Max(w)} \in SUBSET U /\ w \ {Max(w)} # w /\ w \in SUBSET S /\ w \in SUBSET T
    BY <2>1
  <2>3. g[w \ {Max(w)}] = h[w \ {Max(w)}]
    BY <1>4, <2>2 DEF StrictSubsetOrdering
  <2>4. x[Max(w)] = y[Max(w)]
    BY <2>1
  <2>5. g[w] = Step(g[w \ {Max(w)}], x[Max(w)]) /\ h[w] = Step(h[w \ {Max(w)}], y[Max(w)])
    BY <1>6, <2>2 DEF Folds
  <2>. QED
    BY <2>3, <2>4, <2>5
<1>. QED
  BY <1>5, <1>6

\* There is a fold over every finite set of indices.
LEMMA FoldExists ==
  ASSUME NEW S \in SUBSET Nat, IsFiniteSet(S), NEW i, NEW frames
  PROVE  \E g : Folds(g, S, i, frames)
<1>. DEFINE Bad == {w \in SUBSET S : ~ \E g : Folds(g, w, i, frames)}
<1>1. SUFFICES ASSUME Bad # {} PROVE FALSE
  OBVIOUS
<1>2. Bad \subseteq FiniteSubsetsOf(S) /\ IsWellFoundedOn(StrictSubsetOrdering(S), FiniteSubsetsOf(S))
  BY FS_Subset, FS_StrictSubsetOrderingWellFounded DEF FiniteSubsetsOf
<1>3. PICK w \in Bad : \A v \in Bad : ~(<<v, w>> \in StrictSubsetOrdering(S))
  <2>. HIDE DEF Bad
  <2>. QED
    BY <1>1, <1>2, WFMin
<1>. DEFINE F(v) == CHOOSE g : Folds(g, v, i, frames)
            h == [u \in SUBSET w |->
                    IF u # w THEN F(u)[u]
                    ELSE IF w = {} THEN i
                    ELSE Step(F(w \ {Max(w)})[w \ {Max(w)}], frames[Max(w)])]
<1>4. ASSUME NEW v \in SUBSET w, v # w PROVE Folds(F(v), v, i, frames)
  <2>1. v \notin Bad
    BY <1>3, <1>4 DEF StrictSubsetOrdering
  <2>2. \E g : Folds(g, v, i, frames)
    BY <2>1
  <2>. QED
    BY <2>2
<1>. HIDE DEF F
<1>5. IsFiniteSet(w)
  BY FS_Subset
<1>6. ASSUME NEW u \in SUBSET w
      PROVE  h[u] = IF u = {} THEN i ELSE Step(h[u \ {Max(u)}], frames[Max(u)])
  <2>1. CASE u = {} /\ u # w
    BY <1>4, <2>1 DEF Folds
  <2>2. CASE u = {} /\ u = w
    BY <2>2
  <2>3. CASE u # {}
    <3>1. IsFiniteSet(u) /\ Max(u) \in u
      BY <1>5, <2>3, MaxIsMember, FS_Subset
    <3>. DEFINE v == u \ {Max(u)}
    <3>2. v \in SUBSET w /\ v # w /\ v # u /\ v \in SUBSET u /\ IsFiniteSet(v)
      BY <3>1, FS_Subset
    <3>3. h[v] = F(v)[v]
      BY <3>2
    <3>4. CASE u = w
      BY <2>3, <3>3, <3>4
    <3>5. CASE u # w
      <4>1. F(u)[u] = Step(F(u)[v], frames[Max(u)])
        BY <1>4, <2>3, <3>5 DEF Folds
      <4>2. F(u)[v] = F(v)[v]
        <5>. HIDE DEF v
        <5>1. Folds(F(u), u, i, frames) /\ Folds(F(v), v, i, frames)
          BY <1>4, <3>2, <3>5
        <5>2. v \in SUBSET (u \cap v) /\ u \in SUBSET Nat /\ v \in SUBSET Nat
          BY <3>2
        <5>. QED
          BY <3>1, <3>2, <5>1, <5>2, FoldsAgree
      <4>. QED
        BY <2>3, <3>3, <3>5, <4>1, <4>2
    <3>. QED
      BY <3>4, <3>5
  <2>. QED
    BY <2>1, <2>2, <2>3
<1>7. Folds(h, w, i, frames)
  <2>1. h = [u \in SUBSET w |-> h[u]]
    OBVIOUS
  <2>. HIDE DEF h
  <2>. QED
    BY <1>6, <2>1 DEF Folds
<1>8. \E g : Folds(g, w, i, frames)
  <2>. HIDE DEF h
  <2>. QED
    BY <1>7
<1>. QED
  BY <1>3, <1>8

\* Push of frames that are numbered from 1 is the value of any fold.
LEMMA PushIsAnyFold ==
  ASSUME NEW i, NEW n \in Nat, NEW frames, DOMAIN frames = 1 .. n
  PROVE  \E g : Folds(g, 1 .. n, i, frames) /\ Push(i, frames) = g[1 .. n]
<1>1. IsFiniteSet(1 .. n) /\ 1 .. n \in SUBSET Nat
  BY FS_Interval
<1>2. \E g : Folds(g, 1 .. n, i, frames)
  BY <1>1, FoldExists
<1>3. Folds(CHOOSE g : Folds(g, 1 .. n, i, frames), 1 .. n, i, frames)
  BY <1>2
<1>. QED
  BY <1>3, PushIsFold

\* Nothing is pushed.
LEMMA PushNothing == ASSUME NEW i PROVE Push(i, <<>>) = i
<1>1. DOMAIN <<>> = 1 .. 0
  OBVIOUS
<1>2. PICK g : Folds(g, 1 .. 0, i, <<>>) /\ Push(i, <<>>) = g[1 .. 0]
  BY <1>1, PushIsAnyFold
<1>3. 1 .. 0 = {}
  OBVIOUS
<1>. QED
  BY <1>2, <1>3 DEF Folds

\* One more frame is pushed.
LEMMA PushMore ==
  ASSUME NEW i, NEW F, NEW fs \in Seq(F), NEW f \in F
  PROVE  Push(i, Append(fs, f)) = Step(Push(i, fs), f)
<1>. DEFINE n == Len(fs)
            more == Append(fs, f)
<1>1. /\ n \in Nat /\ DOMAIN fs = 1 .. n /\ DOMAIN more = 1 .. n + 1 /\ more[n + 1] = f
      /\ \A k \in 1 .. n : more[k] = fs[k]
  OBVIOUS
<1>. HIDE DEF n, more
<1>2. PICK g : Folds(g, 1 .. n, i, fs) /\ Push(i, fs) = g[1 .. n]
  BY <1>1, PushIsAnyFold
<1>3. n + 1 \in Nat
  BY <1>1
<1>4. PICK h : Folds(h, 1 .. n + 1, i, more) /\ Push(i, more) = h[1 .. n + 1]
  BY <1>1, <1>3, PushIsAnyFold
<1>5. /\ IsFiniteSet(1 .. n) /\ IsFiniteSet(1 .. n + 1)
      /\ 1 .. n \in SUBSET Nat /\ 1 .. n + 1 \in SUBSET Nat /\ 1 .. n \in SUBSET (1 .. n \cap 1 .. n + 1)
  <2>1. n \in Int /\ n + 1 \in Int /\ 1 \in Int
    BY ONLY <1>1
  <2>2. IsFiniteSet(1 .. n) /\ IsFiniteSet(1 .. n + 1)
    BY <2>1, FS_Interval
  <2>3. 1 .. n \subseteq Nat /\ 1 .. n + 1 \subseteq Nat /\ 1 .. n \subseteq 1 .. n + 1
    BY ONLY <1>1
  <2>. QED
    BY <2>2, <2>3
<1>6. Max(1 .. n + 1) = n + 1
  <2>1. n + 1 \in 1 .. n + 1
    BY ONLY <1>1
  <2>2. Max(1 .. n + 1) \in 1 .. n + 1 /\ n + 1 <= Max(1 .. n + 1)
    BY <1>5, <2>1, MaxIsMember
  <2>. QED
    BY <1>1, <2>2
<1>7. h[1 .. n + 1] = Step(h[1 .. n], f)
  <2>1. (1 .. n + 1) \ {n + 1} = 1 .. n /\ 1 .. n + 1 # {}
    <3>1. n + 1 \in 1 .. n + 1
      BY ONLY <1>1
    <3>2. \A k : k \in (1 .. n + 1) \ {n + 1} <=> k \in 1 .. n
      BY ONLY <1>1
    <3>. QED
      BY <3>1, <3>2
  <2>2. h[1 .. n + 1] = Step(h[(1 .. n + 1) \ {Max(1 .. n + 1)}], more[Max(1 .. n + 1)])
    BY <1>4, <2>1 DEF Folds
  <2>. QED
    BY <1>1, <1>6, <2>1, <2>2
<1>8. h[1 .. n] = g[1 .. n]
  <2>. DEFINE S == 1 .. n
              T == 1 .. n + 1
  <2>1. \A k \in S \cap T : fs[k] = more[k]
    BY <1>1
  <2>2. /\ S \in SUBSET Nat /\ IsFiniteSet(S) /\ T \in SUBSET Nat /\ IsFiniteSet(T)
        /\ S \in SUBSET (S \cap T)
    BY <1>5
  <2>3. Folds(g, S, i, fs) /\ Folds(h, T, i, more)
    BY <1>2, <1>4
  <2>. HIDE DEF S, T
  <2>4. g[S] = h[S]
    BY <2>1, <2>2, <2>3, FoldsAgree
  <2>. QED
    BY <2>4 DEF S
<1>. QED
  BY <1>2, <1>4, <1>7, <1>8 DEF more

\* A set of numbers up to N that has 0, and with each number the next, has all of them.
LEMMA UpTo ==
  ASSUME NEW N \in Nat, NEW P \in SUBSET (0 .. N), 0 \in P, \A n \in P : n < N => n + 1 \in P
  PROVE  N \in P
<1>. DEFINE S == {n \in 0 .. N : 0 .. n \subseteq P}
<1>1. IsFiniteSet(0 .. N)
  BY FS_Interval
<1>2. 0 \in S
  OBVIOUS
<1>3. S \in SUBSET Nat /\ IsFiniteSet(S) /\ S # {}
  <2>1. S \subseteq 0 .. N /\ S # {}
    BY <1>2
  <2>. HIDE DEF S
  <2>2. IsFiniteSet(S)
    BY <1>1, <2>1, FS_Subset
  <2>. QED
    BY <2>1, <2>2
<1>. DEFINE m == Max(S)
<1>4. m \in S /\ \A n \in S : n <= m
  <2>. HIDE DEF S
  <2>. QED
    BY <1>3, MaxIsMember
<1>. HIDE DEF m
<1>5. m \in 0 .. N /\ 0 .. m \subseteq P /\ m \in P
  BY <1>4
<1>6. CASE m = N
  BY <1>5, <1>6
<1>7. CASE m < N
  <2>1. m + 1 \in P
    BY <1>5, <1>7
  <2>2. 0 .. m + 1 \subseteq P
    BY <1>5, <2>1
  <2>3. m + 1 \in S
    BY <1>5, <1>7, <2>2
  <2>. QED
    BY <1>4, <1>5, <2>3
<1>. QED
  BY <1>5, <1>6, <1>7

\* Frames are pushed in turn.
LEMMA PushBoth ==
  ASSUME NEW i, NEW F, NEW fs \in Seq(F), NEW gs \in Seq(F)
  PROVE  Push(i, fs \o gs) = Push(Push(i, fs), gs)
<1>. DEFINE N == Len(gs)
            P == {n \in 0 .. N : Push(i, fs \o SubSeq(gs, 1, n)) = Push(Push(i, fs), SubSeq(gs, 1, n))}
<1>1. N \in Nat /\ SubSeq(gs, 1, 0) = <<>> /\ SubSeq(gs, 1, N) = gs
  OBVIOUS
<1>2. 0 \in P
  <2>1. fs \o <<>> = fs
    OBVIOUS
  <2>2. Push(i, fs \o SubSeq(gs, 1, 0)) = Push(i, fs)
    BY <1>1, <2>1
  <2>3. Push(Push(i, fs), SubSeq(gs, 1, 0)) = Push(i, fs)
    <3>1. \A j : Push(j, <<>>) = j
      BY PushNothing
    <3>. QED
      BY <1>1, <3>1
  <2>4. 0 \in 0 .. N
    BY <1>1
  <2>. QED
    BY <2>2, <2>3, <2>4
<1>3. ASSUME NEW n \in P, n < N PROVE n + 1 \in P
  <2>1. n \in 0 .. N /\ n + 1 \in 1 .. N /\ gs[n + 1] \in F
    BY <1>3
  <2>. DEFINE x == SubSeq(gs, 1, n)
              e == gs[n + 1]
  <2>2. x \in Seq(F) /\ e \in F /\ SubSeq(gs, 1, n + 1) = Append(x, e)
    BY <2>1
  <2>. HIDE DEF x, e
  <2>3. fs \o x \in Seq(F) /\ fs \o Append(x, e) = Append(fs \o x, e)
    BY <2>2
  <2>4. Push(i, fs \o x) = Push(Push(i, fs), x)
    BY <1>3 DEF x
  <2>5. Push(i, Append(fs \o x, e)) = Step(Push(i, fs \o x), e)
    <3>. DEFINE both == fs \o x
    <3>. HIDE DEF both
    <3>1. both \in Seq(F)
      BY <2>3 DEF both
    <3>2. Push(i, Append(both, e)) = Step(Push(i, both), e)
      BY <2>2, <3>1, PushMore
    <3>. QED
      BY <3>2 DEF both
  <2>6. Push(Push(i, fs), Append(x, e)) = Step(Push(Push(i, fs), x), e)
    BY <2>2, PushMore
  <2>7. Push(i, fs \o SubSeq(gs, 1, n + 1)) = Push(Push(i, fs), SubSeq(gs, 1, n + 1))
    BY <2>2, <2>3, <2>4, <2>5, <2>6
  <2>. QED
    BY <2>1, <2>7
<1>4. N \in P
  <2>. HIDE DEF P, N
  <2>1. P \in SUBSET (0 .. N)
    BY DEF P
  <2>. QED
    BY <1>1, <1>2, <1>3, <2>1, UpTo
<1>. QED
  BY <1>1, <1>4
-----------------------------------------------------------------------------
(* Frames.  What the gateway has made of the frames so far: a view.        *)

Types == {"begin", "content", "start", "delta", "stop", "finish", "finish_length", "message_stop",
          "completed", "incomplete", "error", "failed", "done"}

Frames == [type : Types, index : Int, full : BOOLEAN]

View == [failure : BOOLEAN, output : BOOLEAN, completed : BOOLEAN, incomplete : BOOLEAN,
         begun : BOOLEAN, open : Int, next : Nat, over : BOOLEAN, formed : BOOLEAN]

\* The stream is well formed and goes on: which block is open, the index of the next,
\* whether the answer has begun, and whether it has failed.
Going(v, open, next, begun, failure) ==
  v \in View /\ v.formed /\ ~v.over /\ v.open = open /\ v.next = next /\ v.begun = begun /\ v.failure = failure

\* The stream is well formed, whether it goes on or not.
Over(v, next, begun, failure) ==
  v \in View /\ v.formed /\ v.next = next /\ v.begun = begun /\ v.failure = failure

\* The frames that are written are frames.
LEMMA FrameTypes ==
  /\ \A x \in Types : Frame(x) \in Frames
  /\ \A x \in Types, n \in Int, b \in BOOLEAN : BlockFrame(x, n, b) \in Frames
  /\ Content \in Frames /\ Unseen \in View
<1>1. \A x \in Types : Frame(x) \in Frames
  BY DEF Frames, Frame
<1>2. \A x \in Types, n \in Int, b \in BOOLEAN : BlockFrame(x, n, b) \in Frames
  BY DEF Frames, BlockFrame
<1>3. Content \in Frames
  BY DEF Frames, Content, Types
<1>4. Unseen \in View
  BY DEF Unseen, View
<1>. QED
  BY <1>1, <1>2, <1>3, <1>4

\* One frame is one step.
LEMMA PushOne == ASSUME NEW v, NEW f PROVE Push(v, <<f>>) = Step(v, f)
<1>. DEFINE S == {f}
<1>1. <<>> \in Seq(S) /\ f \in S /\ Append(<<>>, f) = <<f>>
  OBVIOUS
<1>. HIDE DEF S
<1>. DEFINE empty == <<>>
<1>. HIDE DEF empty
<1>2. Push(v, Append(empty, f)) = Step(Push(v, empty), f)
  <2>1. empty \in Seq(S) /\ f \in S
    BY <1>1 DEF empty
  <2>. QED
    BY ONLY <2>1, PushMore
<1>. USE DEF empty
<1>3. Push(v, <<>>) = v
  BY PushNothing
<1>. QED
  BY <1>1, <1>2, <1>3

Ends == {"message_stop", "completed", "incomplete", "failed", "done"}

\* What a step makes of a view, field by field.
LEMMA StepFields ==
  ASSUME NEW v \in View, NEW f \in Frames, f.type = "start" => f.index \in Nat
  PROVE  LET w == Step(v, f)
         IN  /\ w \in View
             /\ w.failure = (v.failure \/ f.type \in {"error", "failed"})
             /\ w.output = (v.output \/ f.full)
             /\ w.formed = (v.formed /\ Follows(v, f))
             /\ w.begun = (v.begun \/ f.type = "begin")
             /\ w.open = (IF f.type = "start" THEN f.index ELSE IF f.type = "stop" THEN -1 ELSE v.open)
             /\ w.next = (IF f.type = "start" THEN f.index + 1 ELSE v.next)
             /\ w.over = (v.over \/ f.type \in Ends)
<1>1. PICK a \in BOOLEAN : a = (v.failure \/ f.type \in {"error", "failed"})
  BY Zenon
<1>2. PICK b \in BOOLEAN : b = (v.output \/ f.full)
  BY Zenon
<1>3. PICK c \in BOOLEAN : c = (v.completed \/ f.type \in {"finish", "finish_length", "message_stop", "completed", "done"})
  BY Zenon
<1>4. PICK d \in BOOLEAN : d = (v.incomplete \/ f.type \in {"finish_length", "incomplete"})
  BY Zenon
<1>. DEFINE o == [v EXCEPT !.failure = a, !.output = b, !.completed = c, !.incomplete = d]
<1>5. Observe(v, f) = o
  BY ONLY <1>1, <1>2, <1>3, <1>4, Zenon DEF Observe
<1>6. /\ o \in View /\ o.failure = a /\ o.output = b
      /\ o.begun = v.begun /\ o.open = v.open /\ o.next = v.next /\ o.over = v.over /\ o.formed = v.formed
  BY DEF View
<1>7. Follows(o, f) = Follows(v, f)
  BY <1>6, Zenon DEF Follows
<1>. HIDE DEF o
<1>8. PICK g \in BOOLEAN : g = (o.formed /\ Follows(o, f))
  BY Zenon
<1>9. PICK h \in BOOLEAN : h = (o.begun \/ f.type = "begin")
  BY Zenon
<1>10. PICK k \in Int : k = (IF f.type = "start" THEN f.index ELSE IF f.type = "stop" THEN -1 ELSE o.open)
  BY <1>6 DEF View, Frames
<1>11. PICK n \in Nat : n = (IF f.type = "start" THEN f.index + 1 ELSE o.next)
  BY <1>6 DEF View, Frames
<1>12. PICK e \in BOOLEAN : e = (o.over \/ f.type \in Ends)
  BY Zenon
<1>. DEFINE w == [o EXCEPT !.formed = g, !.begun = h, !.open = k, !.next = n, !.over = e]
<1>13. k = (CASE f.type = "start" -> f.index [] f.type = "stop" -> -1 [] OTHER -> o.open)
  BY <1>10
<1>14. Follow(o, f) = w
  BY ONLY <1>8, <1>9, <1>11, <1>12, <1>13, Zenon DEF Follow, Ends
<1>15. /\ w \in View /\ w.failure = o.failure /\ w.output = o.output
       /\ w.formed = g /\ w.begun = h /\ w.open = k /\ w.next = n /\ w.over = e
  <2>1. \A x \in View : [x EXCEPT !.formed = g, !.begun = h, !.open = k, !.next = n, !.over = e] \in View
    BY DEF View
  <2>2. \A x \in View : LET y == [x EXCEPT !.formed = g, !.begun = h, !.open = k, !.next = n, !.over = e]
                        IN  y.failure = x.failure /\ y.output = x.output /\ y.formed = g /\ y.begun = h
                            /\ y.open = k /\ y.next = n /\ y.over = e
    BY DEF View
  <2>. QED
    BY <1>6, <2>1, <2>2, Zenon
<1>16. Step(v, f) = w
  BY <1>5, <1>14 DEF Step
<1>. HIDE DEF w
<1>17. w.open = (IF f.type = "start" THEN f.index ELSE IF f.type = "stop" THEN -1 ELSE v.open)
  BY <1>6, <1>10, <1>15
<1>18. w.next = (IF f.type = "start" THEN f.index + 1 ELSE v.next)
  BY <1>6, <1>11, <1>15
<1>19. w.failure = (v.failure \/ f.type \in {"error", "failed"}) /\ w.output = (v.output \/ f.full)
  BY <1>1, <1>2, <1>6, <1>15, Zenon
<1>20. w.formed = (v.formed /\ Follows(v, f)) /\ w.begun = (v.begun \/ f.type = "begin")
       /\ w.over = (v.over \/ f.type \in Ends)
  BY <1>6, <1>7, <1>8, <1>9, <1>12, <1>15, Zenon
<1>. QED
  BY <1>15, <1>16, <1>17, <1>18, <1>19, <1>20

\* A stream that goes on takes a frame that is due, and goes on.
LEMMA GoAny ==
  ASSUME NEW v, NEW k, NEW n, NEW b \in BOOLEAN, NEW x \in BOOLEAN, Going(v, k, n, b, x),
         NEW f \in Frames, Follows(v, f), f.type \notin Ends, f.type = "start" => f.index \in Nat
  PROVE  /\ Step(v, f) \in View /\ Step(v, f).formed /\ ~Step(v, f).over
         /\ Step(v, f).open = (IF f.type = "start" THEN f.index ELSE IF f.type = "stop" THEN -1 ELSE k)
         /\ Step(v, f).next = (IF f.type = "start" THEN f.index + 1 ELSE n)
         /\ Step(v, f).begun = (b \/ f.type = "begin")
         /\ Step(v, f).failure = (x \/ f.type \in {"error", "failed"})
<1>1. v \in View /\ v.formed /\ ~v.over /\ v.open = k /\ v.next = n /\ v.begun = b /\ v.failure = x
  BY DEF Going
<1>. DEFINE w == Step(v, f)
<1>2. /\ w \in View
      /\ w.failure = (v.failure \/ f.type \in {"error", "failed"})
      /\ w.formed = (v.formed /\ Follows(v, f))
      /\ w.begun = (v.begun \/ f.type = "begin")
      /\ w.open = (IF f.type = "start" THEN f.index ELSE IF f.type = "stop" THEN -1 ELSE v.open)
      /\ w.next = (IF f.type = "start" THEN f.index + 1 ELSE v.next)
      /\ w.over = (v.over \/ f.type \in Ends)
  BY <1>1, StepFields, Zenon
<1>. HIDE DEF w
<1>3. w \in View /\ w.formed /\ ~w.over /\ w.begun = (b \/ f.type = "begin")
      /\ w.failure = (x \/ f.type \in {"error", "failed"})
  BY <1>1, <1>2, Zenon
<1>4. /\ w.open = (IF f.type = "start" THEN f.index ELSE IF f.type = "stop" THEN -1 ELSE k)
      /\ w.next = (IF f.type = "start" THEN f.index + 1 ELSE n)
  BY <1>1, <1>2
<1>. QED
  BY <1>3, <1>4 DEF w

\* The frames, one by one.
LEMMA GoBegin ==
  ASSUME NEW v, NEW k, NEW n, NEW x \in BOOLEAN, Going(v, k, n, FALSE, x)
  PROVE  Going(Step(v, Frame("begin")), k, n, TRUE, x)
<1>. DEFINE f == Frame("begin")
<1>1. v \in View /\ f \in Frames /\ f.type = "begin"
  BY FrameTypes DEF Types, Going, View, Frame
<1>2. Follows(v, f)
  BY <1>1 DEF Going, Follows
<1>. HIDE DEF f
<1>3. f.type \notin Ends /\ f.type = "begin" /\ (f.type = "start" => f.index \in Nat)
  BY <1>1 DEF Ends
<1>. DEFINE w == Step(v, f)
<1>4. \A b \in BOOLEAN : Going(v, k, n, b, x) =>
        /\ w \in View /\ w.formed /\ ~w.over
        /\ w.open = (IF f.type = "start" THEN f.index ELSE IF f.type = "stop" THEN -1 ELSE k)
        /\ w.next = (IF f.type = "start" THEN f.index + 1 ELSE n)
        /\ w.begun = (b \/ f.type = "begin")
        /\ w.failure = (x \/ f.type \in {"error", "failed"})
  BY <1>1, <1>2, <1>3, GoAny
<1>. HIDE DEF w
<1>5. Going(w, k, n, TRUE, x)
  BY <1>3, <1>4 DEF Going
<1>. QED
  BY <1>5 DEF f, w

\* A block is opened where none is.
LEMMA GoStart ==
  ASSUME NEW v, NEW n, NEW b \in BOOLEAN, NEW x \in BOOLEAN, NEW full \in BOOLEAN, Going(v, -1, n, b, x)
  PROVE  Going(Step(v, BlockFrame("start", n, full)), n, n + 1, b, x)
<1>. DEFINE f == BlockFrame("start", n, full)
<1>1. v \in View /\ f \in Frames /\ f.type = "start" /\ f.index = n /\ n \in Nat
  BY FrameTypes DEF Types, Going, View, BlockFrame
<1>2. Follows(v, f)
  BY <1>1 DEF Going, Follows
<1>. HIDE DEF f
<1>3. f.type \notin Ends /\ f.type = "start"
  BY <1>1 DEF Ends
<1>4. Going(Step(v, f), n, n + 1, b, x)
  BY <1>1, <1>2, <1>3, GoAny DEF Going
<1>. QED
  BY <1>4 DEF f

\* The open block is written to.
LEMMA GoDelta ==
  ASSUME NEW v, NEW k, NEW n, NEW b \in BOOLEAN, NEW x \in BOOLEAN, NEW full \in BOOLEAN, Going(v, k, n, b, x)
  PROVE  Going(Step(v, BlockFrame("delta", k, full)), k, n, b, x)
<1>. DEFINE f == BlockFrame("delta", k, full)
<1>1. v \in View /\ f \in Frames /\ f.type = "delta" /\ f.index = k /\ k \in Int
  BY FrameTypes DEF Types, Going, View, BlockFrame
<1>2. Follows(v, f)
  BY <1>1 DEF Going, Follows
<1>. HIDE DEF f
<1>3. f.type \notin Ends /\ f.type = "delta"
  BY <1>1 DEF Ends
<1>4. Going(Step(v, f), k, n, b, x)
  BY <1>1, <1>2, <1>3, GoAny DEF Going
<1>. QED
  BY <1>4 DEF f

\* The open block is closed.
LEMMA GoStop ==
  ASSUME NEW v, NEW k, NEW n, NEW b \in BOOLEAN, NEW x \in BOOLEAN, NEW full \in BOOLEAN, Going(v, k, n, b, x)
  PROVE  Going(Step(v, BlockFrame("stop", k, full)), -1, n, b, x)
<1>. DEFINE f == BlockFrame("stop", k, full)
<1>1. v \in View /\ f \in Frames /\ f.type = "stop" /\ f.index = k /\ k \in Int
  BY FrameTypes DEF Types, Going, View, BlockFrame
<1>2. Follows(v, f)
  BY <1>1 DEF Going, Follows
<1>. HIDE DEF f
<1>3. f.type \notin Ends /\ f.type = "stop"
  BY <1>1 DEF Ends
<1>4. Going(Step(v, f), -1, n, b, x)
  BY <1>1, <1>2, <1>3, GoAny DEF Going
<1>. QED
  BY <1>4 DEF f

\* A chunk of a Chat answer is due at any time.
LEMMA GoContent ==
  ASSUME NEW v, NEW k, NEW n, NEW b \in BOOLEAN, NEW x \in BOOLEAN, Going(v, k, n, b, x)
  PROVE  Going(Step(v, Content), k, n, b, x)
<1>. DEFINE f == Content
<1>1. v \in View /\ f \in Frames /\ f.type = "content"
  BY FrameTypes DEF Types, Going, View, Content
<1>2. Follows(v, f)
  BY <1>1 DEF Going, Follows
<1>. HIDE DEF f
<1>3. f.type \notin Ends /\ f.type = "content"
  BY <1>1 DEF Ends
<1>4. Going(Step(v, f), k, n, b, x)
  BY <1>1, <1>2, <1>3, GoAny DEF Going
<1>. QED
  BY <1>4 DEF f

\* An error is due at any time.
LEMMA GoError ==
  ASSUME NEW v, NEW k, NEW n, NEW b \in BOOLEAN, NEW x \in BOOLEAN, Going(v, k, n, b, x)
  PROVE  Going(Step(v, Frame("error")), k, n, b, TRUE)
<1>. DEFINE f == Frame("error")
<1>1. v \in View /\ f \in Frames /\ f.type = "error"
  BY FrameTypes DEF Types, Going, View, Frame
<1>2. Follows(v, f)
  BY <1>1 DEF Going, Follows
<1>. HIDE DEF f
<1>3. f.type \notin Ends /\ f.type = "error" /\ (f.type = "start" => f.index \in Nat)
  BY <1>1 DEF Ends
<1>4. Going(Step(v, f), k, n, b, TRUE)
  <2>1. /\ Step(v, f) \in View /\ Step(v, f).formed /\ ~Step(v, f).over
        /\ Step(v, f).open = (IF f.type = "start" THEN f.index ELSE IF f.type = "stop" THEN -1 ELSE k)
        /\ Step(v, f).next = (IF f.type = "start" THEN f.index + 1 ELSE n)
        /\ Step(v, f).begun = (b \/ f.type = "begin")
        /\ Step(v, f).failure = (x \/ f.type \in {"error", "failed"})
    BY <1>1, <1>2, <1>3, GoAny
  <2>2. Step(v, f).begun = b /\ Step(v, f).failure = TRUE
    BY <1>1, <1>3, <2>1, Zenon
  <2>. QED
    BY <1>1, <1>3, <2>1, <2>2 DEF Going
<1>. QED
  BY <1>4 DEF f

\* A finish reason is due when no block is open.
LEMMA GoFinish ==
  ASSUME NEW v, NEW n, NEW b \in BOOLEAN, NEW x \in BOOLEAN, Going(v, -1, n, b, x), NEW y \in {"finish", "finish_length"}
  PROVE  Going(Step(v, Frame(y)), -1, n, b, x)
<1>. DEFINE f == Frame(y)
<1>1. v \in View /\ f \in Frames /\ f.type = y
  BY FrameTypes DEF Types, Going, View, Frame
<1>2. Follows(v, f)
  BY <1>1 DEF Going, Follows
<1>. HIDE DEF f
<1>3. /\ f.type \notin Ends /\ f.type # "start" /\ f.type # "stop" /\ f.type # "begin"
      /\ f.type # "error" /\ f.type # "failed"
  BY <1>1 DEF Ends
<1>4. Going(Step(v, f), -1, n, b, x)
  BY <1>1, <1>2, <1>3, GoAny DEF Going
<1>. QED
  BY <1>4 DEF f

\* The last frame of a stream.
LEMMA GoEnd ==
  ASSUME NEW v, NEW k, NEW n, NEW b \in BOOLEAN, NEW x \in BOOLEAN, Going(v, k, n, b, x),
         NEW y \in Ends, k = -1 \/ y \in {"failed", "done"}
  PROVE  Over(Step(v, Frame(y)), n, b, x \/ y = "failed")
<1>. DEFINE f == Frame(y)
<1>1. v \in View /\ f \in Frames /\ f.type = y
  BY FrameTypes DEF Types, Going, View, Frame, Ends
<1>2. Follows(v, f)
  BY <1>1 DEF Going, Follows, Ends
<1>. HIDE DEF f
<1>3. f.type # "start" /\ f.type # "stop" /\ f.type # "begin" /\ f.type # "error"
  BY <1>1 DEF Ends
<1>. DEFINE w == Step(v, f)
<1>4. /\ w \in View
      /\ w.failure = (v.failure \/ f.type \in {"error", "failed"})
      /\ w.formed = (v.formed /\ Follows(v, f))
      /\ w.begun = (v.begun \/ f.type = "begin")
      /\ w.next = (IF f.type = "start" THEN f.index + 1 ELSE v.next)
  BY <1>1, <1>3, StepFields, Zenon
<1>. HIDE DEF w
<1>5. w.failure = (x \/ y = "failed") /\ w.formed /\ w.begun = b /\ w.next = n
  <2>1. v.formed /\ v.next = n /\ v.begun = b /\ v.failure = x
    BY DEF Going
  <2>2. w.next = n
    BY <1>3, <1>4, <2>1
  <2>3. w.formed /\ w.begun = b
    BY <1>2, <1>3, <1>4, <2>1, Zenon
  <2>4. w.failure = (x \/ y = "failed")
    BY <1>1, <1>3, <1>4, <2>1, Zenon
  <2>. QED
    BY <2>2, <2>3, <2>4
<1>. QED
  BY <1>4, <1>5 DEF w, f, Over
-----------------------------------------------------------------------------
(* Translators: what a line makes of the locals, and what its frames make  *)
(* of the view.                                                            *)

Locals == [output : BOOLEAN, usage : {"none", "some", "zero"}, reason : {"none", "length", "stop"},
           error : BOOLEAN, finish : BOOLEAN, created : BOOLEAN,
           block : {"none", "thinking", "text", "tool"}, index : Nat, next : Nat]

\* The block the client has open, as the translator knows it.
OpenOf(t) == IF t.block = "none" THEN -1 ELSE t.index

\* A new translator has locals, and a line gives them usage and a reason that they can have.
LEMMA LocalsTypes ==
  /\ Fresh \in Locals
  /\ \A e \in Lines : UsageOf(e) \in {"none", "some", "zero"} /\ ReasonOf(e) \in {"none", "length", "stop"}
  /\ \A t \in Locals : OpenOf(t) \in Int
BY DEF Fresh, Locals, UsageOf, ReasonOf, OpenOf

\* One more frame, of the frames of the protocols.
LEMMA MoreFrames ==
  ASSUME NEW v, NEW fs \in Seq(Frames), NEW f \in Frames
  PROVE  Append(fs, f) \in Seq(Frames) /\ Push(v, Append(fs, f)) = Step(Push(v, fs), f)
BY PushMore

\* Frames after frames, of the frames of the protocols.
LEMMA BothFrames ==
  ASSUME NEW v, NEW fs \in Seq(Frames), NEW gs \in Seq(Frames)
  PROVE  fs \o gs \in Seq(Frames) /\ Push(v, fs \o gs) = Push(Push(v, fs), gs)
BY PushBoth

\* What every translator does with an error, and with anything else.
Marks(t, u, e) == (e = "error" => u.error) /\ (e # "error" => u.error = t.error)

\* A line of a Chat answer opens no block.
LEMMA ChatLineKeeps ==
  ASSUME NEW t \in Locals, NEW e \in Lines
  PROVE  LET r == ChatLine(t, e)
         IN  /\ r.t \in Locals /\ r.frames \in Seq(Frames) /\ Marks(t, r.t, e)
             /\ r.t.block = t.block /\ r.t.next = t.next
<1>1. UsageOf(e) \in {"none", "some", "zero"} /\ ReasonOf(e) \in {"none", "length", "stop"}
  BY LocalsTypes
<1>2. CASE e \in {"text", "reasoning", "tool"}
  <2>1. ChatLine(t, e) = Result(t, <<Content>>) /\ e # "error"
    BY <1>2 DEF ChatLine, Finishes
  <2>. QED
    BY <2>1, FrameTypes DEF Result, Locals, Marks
<1>3. CASE e = "step"
  <2>. DEFINE u == [t EXCEPT !.reason = ReasonOf(e), !.usage = UsageOf(e), !.output = TRUE]
  <2>1. ChatLine(t, e) = Result(u, <<>>) /\ e # "error"
    BY <1>3 DEF ChatLine, Finishes
  <2>2. u \in Locals /\ u.error = t.error /\ u.block = t.block /\ u.next = t.next
    BY <1>1 DEF Locals
  <2>. HIDE DEF u
  <2>. QED
    BY <2>1, <2>2 DEF Result, Marks
<1>4. CASE e \in Finishes
  <2>. DEFINE reason == IF t.reason # "none" THEN t.reason ELSE ReasonOf(e)
              usage  == IF UsageOf(e) # "none" THEN UsageOf(e) ELSE t.usage
              f      == Frame(IF reason = "length" THEN "finish_length" ELSE "finish")
  <2>1. PICK o \in BOOLEAN : o = (usage = "some")
    BY Zenon
  <2>2. ChatLine(t, e) = Result([t EXCEPT !.output = (usage = "some")], <<f>>) /\ e # "error"
    BY <1>4 DEF ChatLine, Finishes
  <2>3. f \in Frames
    BY FrameTypes DEF Types
  <2>. HIDE DEF f, usage
  <2>4. ChatLine(t, e) = Result([t EXCEPT !.output = o], <<f>>)
    BY <2>1, <2>2, Zenon
  <2>. QED
    BY <2>2, <2>3, <2>4 DEF Result, Locals, Marks
<1>5. CASE e = "error"
  <2>. DEFINE u == [t EXCEPT !.error = TRUE]
  <2>1. ChatLine(t, e) = Result(u, <<>>)
    BY <1>5 DEF ChatLine, Finishes
  <2>2. u \in Locals /\ u.error /\ u.block = t.block /\ u.next = t.next
    BY <1>1 DEF Locals
  <2>3. Marks(t, u, e)
    BY <1>5, <2>2, Zenon DEF Marks
  <2>. HIDE DEF u
  <2>. QED
    BY <2>1, <2>2, <2>3 DEF Result
<1>6. CASE e \notin {"text", "reasoning", "tool", "step", "error"} \cup Finishes
  <2>1. ChatLine(t, e) = Result(t, <<>>)
    BY <1>6 DEF ChatLine, Finishes
  <2>. QED
    BY <1>6, <2>1 DEF Result, Locals, Marks
<1>. QED
  BY <1>2, <1>3, <1>4, <1>5, <1>6

\* Its frames are due at any time.
LEMMA ChatLineGoes ==
  ASSUME NEW t \in Locals, NEW e \in Lines, NEW v, NEW n, NEW b \in BOOLEAN, NEW x \in BOOLEAN,
         Going(v, -1, n, b, x)
  PROVE  Going(Push(v, ChatLine(t, e).frames), -1, n, b, x)
<1>1. ChatLine(t, e).frames \in {<<>>, <<Content>>, <<Frame("finish")>>, <<Frame("finish_length")>>}
  BY DEF ChatLine, Result, Finishes
<1>2. Push(v, <<>>) = v
  BY PushNothing
<1>3. \A f : Push(v, <<f>>) = Step(v, f)
  BY PushOne
<1>4. Going(Step(v, Content), -1, n, b, x)
  BY GoContent
<1>5. Going(Step(v, Frame("finish")), -1, n, b, x) /\ Going(Step(v, Frame("finish_length")), -1, n, b, x)
  BY GoFinish
<1>. QED
  BY <1>1, <1>2, <1>3, <1>4, <1>5

\* Closing the open block, if there is one.
LEMMA CloseBlockGoes ==
  ASSUME NEW t \in Locals
  PROVE  /\ CloseBlock(t).frames \in Seq(Frames)
         /\ CloseBlock(t).t = [t EXCEPT !.block = "none"]
         /\ \A v, n : \A b, x \in BOOLEAN :
              Going(v, OpenOf(t), n, b, x) => Going(Push(v, CloseBlock(t).frames), -1, n, b, x)
<1>. DEFINE delta == BlockFrame("delta", t.index, FALSE)
            stop  == BlockFrame("stop", t.index, FALSE)
            fs    == CloseBlock(t).frames
<1>1. delta \in Frames /\ stop \in Frames /\ t.index \in Int
  <2>1. t.index \in Int /\ "delta" \in Types /\ "stop" \in Types
    BY DEF Types, Locals
  <2>. QED
    BY <2>1, FrameTypes
<1>2. CloseBlock(t).t = [t EXCEPT !.block = "none"]
  BY DEF CloseBlock, Result
<1>3. /\ t.block = "none" => fs = <<>>
      /\ t.block = "thinking" => fs = <<delta, stop>>
      /\ t.block \notin {"none", "thinking"} => fs = <<stop>>
  BY DEF CloseBlock, Result
<1>. HIDE DEF delta, stop
<1>4. fs \in Seq(Frames)
  <2>1. <<>> \in Seq(Frames) /\ <<stop>> \in Seq(Frames) /\ <<delta, stop>> \in Seq(Frames)
    BY <1>1
  <2>. HIDE DEF fs
  <2>. QED
    BY ONLY <1>3, <2>1, Zenon
<1>5. ASSUME NEW v, NEW n, NEW b \in BOOLEAN, NEW x \in BOOLEAN, Going(v, OpenOf(t), n, b, x)
      PROVE  Going(Push(v, fs), -1, n, b, x)
  <2>1. CASE t.block = "none"
    BY <1>3, <1>5, <2>1, PushNothing DEF OpenOf
  <2>2. CASE t.block # "none"
    <3>1. Going(v, t.index, n, b, x)
      BY <1>5, <2>2 DEF OpenOf
    <3>2. Going(Step(v, stop), -1, n, b, x)
      BY <3>1, GoStop DEF stop
    <3>3. Going(Step(v, delta), t.index, n, b, x)
      BY <3>1, GoDelta DEF delta
    <3>4. Going(Step(Step(v, delta), stop), -1, n, b, x)
      BY <3>3, GoStop DEF stop
    <3>5. Push(v, <<stop>>) = Step(v, stop) /\ Push(v, <<delta>>) = Step(v, delta)
      BY PushOne
    <3>6. Push(v, <<delta, stop>>) = Step(Step(v, delta), stop)
      <4>1. <<delta>> \in Seq(Frames) /\ <<delta, stop>> = Append(<<delta>>, stop)
        BY <1>1
      <4>2. \A fs1 \in Seq(Frames) : Push(v, Append(fs1, stop)) = Step(Push(v, fs1), stop)
        BY <1>1, MoreFrames
      <4>. QED
        BY <3>5, <4>1, <4>2
    <3>. HIDE DEF fs
    <3>7. CASE t.block = "thinking"
      BY <1>3, <3>4, <3>6, <3>7
    <3>8. CASE t.block # "thinking"
      BY <1>3, <2>2, <3>2, <3>5, <3>8
    <3>. QED
      BY <3>7, <3>8
  <2>. QED
    BY <2>1, <2>2
<1>. QED
  BY <1>2, <1>4, <1>5

\* A block of a Messages answer: it is open afterwards.
LEMMA StartBlockGoes ==
  ASSUME NEW t \in Locals, NEW type \in {"thinking", "text"}
  PROVE  LET r == StartBlock(t, type)
         IN  /\ r.t \in Locals /\ r.frames \in Seq(Frames) /\ r.t.block = type
             /\ r.t.error = t.error
             /\ \A v : \A b, x \in BOOLEAN :
                  Going(v, OpenOf(t), t.next, b, x) => Going(Push(v, r.frames), r.t.index, r.t.next, b, x)
<1>1. CASE t.block = type
  <2>1. StartBlock(t, type) = Result(t, <<>>)
    BY <1>1 DEF StartBlock
  <2>2. \A v : Push(v, <<>>) = v
    BY PushNothing
  <2>. QED
    BY <1>1, <2>1, <2>2 DEF Result, OpenOf
<1>2. CASE t.block # type
  <2>. DEFINE u  == [t EXCEPT !.block = type, !.index = t.next, !.next = t.next + 1]
              fs == CloseBlock(t).frames
              f  == BlockFrame("start", t.next, FALSE)
  <2>1. StartBlock(t, type) = Result(u, Append(fs, f))
    BY <1>2 DEF StartBlock
  <2>2. u \in Locals /\ u.block = type /\ u.error = t.error /\ u.index = t.next /\ u.next = t.next + 1
    <3>1. PICK m \in Nat : m = t.next
      BY DEF Locals
    <3>2. PICK k \in Nat : k = m + 1
      OBVIOUS
    <3>3. u = [t EXCEPT !.block = type, !.index = m, !.next = k]
      BY ONLY <3>1, <3>2, Zenon
    <3>. HIDE DEF u
    <3>. QED
      BY <3>1, <3>2, <3>3 DEF Locals
  <2>3. f \in Frames /\ fs \in Seq(Frames)
    <3>1. t.next \in Int /\ "start" \in Types
      BY DEF Types, Locals
    <3>. QED
      BY <3>1, FrameTypes, CloseBlockGoes
  <2>4. ASSUME NEW v, NEW b \in BOOLEAN, NEW x \in BOOLEAN, Going(v, OpenOf(t), t.next, b, x)
        PROVE  Going(Push(v, Append(fs, f)), t.next, t.next + 1, b, x)
    <3>1. Going(Push(v, fs), -1, t.next, b, x)
      <4>1. \A v1, n1 : \A b1, x1 \in BOOLEAN :
              Going(v1, OpenOf(t), n1, b1, x1) => Going(Push(v1, fs), -1, n1, b1, x1)
        BY CloseBlockGoes
      <4>. HIDE DEF fs
      <4>. QED
        BY <2>4, <4>1
    <3>2. Push(v, Append(fs, f)) = Step(Push(v, fs), f)
      <4>. HIDE DEF f, fs
      <4>. QED
        BY <2>3, MoreFrames
    <3>3. Going(Step(Push(v, fs), f), t.next, t.next + 1, b, x)
      BY <3>1, GoStart
    <3>. QED
      BY <3>2, <3>3
  <2>5. Append(fs, f) \in Seq(Frames)
    <3>. HIDE DEF f, fs
    <3>. QED
      BY <2>3, MoreFrames
  <2>. HIDE DEF u, f, fs
  <2>6. StartBlock(t, type).t = u /\ StartBlock(t, type).frames = Append(fs, f)
    BY <2>1 DEF Result
  <2>. QED
    BY <2>2, <2>4, <2>5, <2>6
<1>. QED
  BY <1>1, <1>2

\* Text or thinking in a Messages answer: a block of its type is open, and is written to.
LEMMA MessagesDeltaGoes ==
  ASSUME NEW t \in Locals, NEW type \in {"thinking", "text"}, NEW full \in BOOLEAN
  PROVE  LET r == MessagesDelta(t, type, full)
         IN  /\ r.t \in Locals /\ r.frames \in Seq(Frames) /\ r.frames # <<>> /\ r.t.error = t.error
             /\ \A v : \A b, x \in BOOLEAN :
                  Going(v, OpenOf(t), t.next, b, x) => Going(Push(v, r.frames), OpenOf(r.t), r.t.next, b, x)
<1>. DEFINE q  == StartBlock(t, type)
            u  == q.t
            fs == q.frames
            f  == BlockFrame("delta", u.index, full)
<1>1. /\ u \in Locals /\ fs \in Seq(Frames) /\ u.block = type /\ u.error = t.error
      /\ \A v : \A b, x \in BOOLEAN :
           Going(v, OpenOf(t), t.next, b, x) => Going(Push(v, fs), u.index, u.next, b, x)
  BY StartBlockGoes
<1>2. MessagesDelta(t, type, full) = Result(u, Append(fs, f))
  BY DEF MessagesDelta
<1>3. f \in Frames
  <2>1. u.index \in Int /\ "delta" \in Types
    BY <1>1 DEF Types, Locals
  <2>. HIDE DEF u
  <2>. QED
    BY <2>1, FrameTypes
<1>. HIDE DEF q, u, fs
<1>4. ASSUME NEW v, NEW b \in BOOLEAN, NEW x \in BOOLEAN, Going(v, OpenOf(t), t.next, b, x)
      PROVE  Going(Push(v, Append(fs, f)), OpenOf(u), u.next, b, x)
  <2>1. Going(Push(v, fs), u.index, u.next, b, x)
    BY <1>1, <1>4
  <2>2. Going(Step(Push(v, fs), f), u.index, u.next, b, x)
    BY <2>1, GoDelta
  <2>3. Push(v, Append(fs, f)) = Step(Push(v, fs), f)
    <3>. HIDE DEF f
    <3>. QED
      BY <1>1, <1>3, MoreFrames
  <2>4. OpenOf(u) = u.index
    BY <1>1 DEF OpenOf
  <2>. QED
    BY <2>2, <2>3, <2>4
<1>. HIDE DEF f
<1>5. Append(fs, f) \in Seq(Frames) /\ Append(fs, f) # <<>>
  BY <1>1, <1>3
<1>6. MessagesDelta(t, type, full).t = u /\ MessagesDelta(t, type, full).frames = Append(fs, f)
  BY <1>2 DEF Result
<1>. QED
  BY <1>1, <1>4, <1>5, <1>6

\* A tool call closes the open block, and its own.
LEMMA MessagesToolGoes ==
  ASSUME NEW t \in Locals
  PROVE  LET r == MessagesTool(t)
         IN  /\ r.t \in Locals /\ r.frames \in Seq(Frames) /\ r.frames # <<>> /\ r.t.error = t.error
             /\ \A v : \A b, x \in BOOLEAN :
                  Going(v, OpenOf(t), t.next, b, x) => Going(Push(v, r.frames), OpenOf(r.t), r.t.next, b, x)
<1>. DEFINE n  == t.next
            fs == CloseBlock(t).frames
            u  == [t EXCEPT !.block = "none", !.next = t.next + 1, !.output = TRUE]
            start == BlockFrame("start", n, TRUE)
            delta == BlockFrame("delta", n, TRUE)
            stop  == BlockFrame("stop", n, FALSE)
<1>1. u \in Locals /\ u.block = "none" /\ u.error = t.error /\ u.next = n + 1
  <2>1. PICK k \in Nat : k = n + 1
    BY DEF Locals
  <2>2. u = [t EXCEPT !.block = "none", !.next = k, !.output = TRUE]
    BY ONLY <2>1, Zenon
  <2>. HIDE DEF u
  <2>. QED
    BY <2>1, <2>2 DEF Locals
<1>2. MessagesTool(t) = Result(u, fs \o <<start, delta, stop>>)
  <2>1. CloseBlock(t).t = [t EXCEPT !.block = "none"]
    BY CloseBlockGoes
  <2>2. [CloseBlock(t).t EXCEPT !.next = @ + 1, !.output = TRUE] = u
    BY <2>1 DEF Locals
  <2>. QED
    BY <2>2 DEF MessagesTool
<1>3. start \in Frames /\ delta \in Frames /\ stop \in Frames /\ fs \in Seq(Frames)
  <2>1. n \in Int /\ "start" \in Types /\ "delta" \in Types /\ "stop" \in Types
    BY DEF Types, Locals
  <2>. HIDE DEF n
  <2>. QED
    BY <2>1, FrameTypes, CloseBlockGoes
<1>4. ASSUME NEW v, NEW b \in BOOLEAN, NEW x \in BOOLEAN, Going(v, OpenOf(t), n, b, x)
      PROVE  Going(Push(v, fs \o <<start, delta, stop>>), -1, n + 1, b, x)
  <2>. DEFINE w == Push(v, fs)
  <2>1. Going(w, -1, n, b, x)
    <3>1. \A v1, n1 : \A b1, x1 \in BOOLEAN :
            Going(v1, OpenOf(t), n1, b1, x1) => Going(Push(v1, fs), -1, n1, b1, x1)
      BY CloseBlockGoes
    <3>. HIDE DEF fs, n
    <3>. QED
      BY <1>4, <3>1
  <2>2. Going(Step(w, start), n, n + 1, b, x)
    BY <2>1, GoStart
  <2>3. Going(Step(Step(w, start), delta), n, n + 1, b, x)
    BY <2>2, GoDelta
  <2>4. Going(Step(Step(Step(w, start), delta), stop), -1, n + 1, b, x)
    BY <2>3, GoStop
  <2>5. Push(v, fs \o <<start, delta, stop>>) = Step(Step(Step(w, start), delta), stop)
    <3>. HIDE DEF fs, start, delta, stop
    <3>1. fs \o <<start>> = Append(fs, start)
          /\ fs \o <<start, delta>> = Append(fs \o <<start>>, delta)
          /\ fs \o <<start, delta, stop>> = Append(fs \o <<start, delta>>, stop)
          /\ fs \o <<start>> \in Seq(Frames) /\ fs \o <<start, delta>> \in Seq(Frames)
      BY <1>3
    <3>2. \A x1 \in Seq(Frames), f \in Frames : Push(v, Append(x1, f)) = Step(Push(v, x1), f)
      BY MoreFrames
    <3>. QED
      BY <1>3, <3>1, <3>2
  <2>. QED
    BY <2>4, <2>5
<1>. HIDE DEF fs, start, delta, stop, u, n
<1>5. fs \o <<start, delta, stop>> \in Seq(Frames) /\ fs \o <<start, delta, stop>> # <<>>
  BY <1>3
<1>6. MessagesTool(t).t = u /\ MessagesTool(t).frames = fs \o <<start, delta, stop>>
  BY <1>2 DEF Result
<1>7. OpenOf(u) = -1
  BY <1>1 DEF OpenOf
<1>. QED
  BY <1>1, <1>4, <1>5, <1>6, <1>7 DEF n

\* A line of a Messages answer: the view stays as far as the translator, and fails
\* with it; what writes nothing changes nothing of that.
LEMMA MessagesLineGoes ==
  ASSUME NEW t \in Locals, NEW e \in Lines
  PROVE  LET r == MessagesLine(t, e)
         IN  /\ r.t \in Locals /\ r.frames \in Seq(Frames) /\ Marks(t, r.t, e)
             /\ r.frames = <<>> => e # "error" /\ r.t.block = t.block /\ r.t.next = t.next /\ r.t.index = t.index
             /\ \A v : \A b, x \in BOOLEAN :
                  Going(v, OpenOf(t), t.next, b, x) =>
                    \E y \in BOOLEAN : /\ Going(Push(v, r.frames), OpenOf(r.t), r.t.next, b, y)
                                       /\ (e = "error" => y) /\ (e # "error" => y = x)
<1>1. UsageOf(e) \in {"none", "some", "zero"} /\ ReasonOf(e) \in {"none", "length", "stop"}
  BY LocalsTypes
<1>2. CASE e \in {"text", "empty"}
  <2>. DEFINE u == [t EXCEPT !.output = TRUE]
  <2>1. PICK full \in BOOLEAN : full = (e = "text")
    BY Zenon
  <2>2. MessagesLine(t, e) = MessagesDelta(u, "text", e = "text") /\ e # "error"
    BY <1>2 DEF MessagesLine, Finishes
  <2>3. MessagesLine(t, e) = MessagesDelta(u, "text", full)
    BY <2>1, <2>2, Zenon
  <2>4. u \in Locals /\ u.block = t.block /\ u.next = t.next /\ u.index = t.index /\ u.error = t.error
    BY DEF Locals
  <2>5. OpenOf(u) = OpenOf(t)
    BY <2>4 DEF OpenOf
  <2>. HIDE DEF u
  <2>. QED
    <3>. DEFINE r == MessagesDelta(u, "text", full)
    <3>1. /\ r.t \in Locals /\ r.frames \in Seq(Frames) /\ r.frames # <<>> /\ r.t.error = u.error
          /\ \A v : \A b, x \in BOOLEAN :
               Going(v, OpenOf(u), u.next, b, x) => Going(Push(v, r.frames), OpenOf(r.t), r.t.next, b, x)
      BY <2>4, MessagesDeltaGoes
    <3>2. Marks(t, r.t, e)
      BY <2>2, <2>4, <3>1 DEF Marks
    <3>. HIDE DEF r
    <3>3. MessagesLine(t, e) = r
      BY <2>3 DEF r
    <3>. QED
      BY <2>2, <2>4, <2>5, <3>1, <3>2, <3>3
<1>3. CASE e = "reasoning"
  <2>1. MessagesLine(t, e) = MessagesDelta(t, "thinking", TRUE) /\ e # "error"
    BY <1>3 DEF MessagesLine, Finishes
  <2>. QED
    <3>. DEFINE r == MessagesDelta(t, "thinking", TRUE)
    <3>1. /\ r.t \in Locals /\ r.frames \in Seq(Frames) /\ r.frames # <<>> /\ r.t.error = t.error
          /\ \A v : \A b, x \in BOOLEAN :
               Going(v, OpenOf(t), t.next, b, x) => Going(Push(v, r.frames), OpenOf(r.t), r.t.next, b, x)
      BY MessagesDeltaGoes
    <3>2. Marks(t, r.t, e)
      BY <2>1, <3>1 DEF Marks
    <3>. HIDE DEF r
    <3>3. MessagesLine(t, e) = r
      BY <2>1 DEF r
    <3>. QED
      BY <2>1, <3>1, <3>2, <3>3
<1>4. CASE e = "tool"
  <2>1. MessagesLine(t, e) = MessagesTool(t) /\ e # "error"
    BY <1>4 DEF MessagesLine, Finishes
  <2>. QED
    BY <2>1, MessagesToolGoes DEF Marks
<1>5. CASE e \in Finishes \cup {"step"}
  <2>1. PICK o \in BOOLEAN : o = (IF UsageOf(e) = "none" THEN t.output ELSE UsageOf(e) = "some")
    BY DEF Locals
  <2>. DEFINE u == [t EXCEPT !.reason = ReasonOf(e), !.output = o]
  <2>2. MessagesLine(t, e) =
          Result([t EXCEPT !.reason = ReasonOf(e),
                           !.output = IF UsageOf(e) = "none" THEN t.output ELSE UsageOf(e) = "some"], <<>>)
    BY <1>5 DEF MessagesLine, Finishes
  <2>3. MessagesLine(t, e) = Result(u, <<>>) /\ e # "error"
    BY <1>5, <2>1, <2>2 DEF Finishes
  <2>4. /\ u \in Locals /\ u.block = t.block /\ u.next = t.next /\ u.index = t.index /\ u.error = t.error
    BY <1>1 DEF Locals
  <2>5. OpenOf(u) = OpenOf(t)
    BY <2>4 DEF OpenOf
  <2>6. \A v : Push(v, <<>>) = v
    BY PushNothing
  <2>. HIDE DEF u
  <2>. QED
    BY <2>3, <2>4, <2>5, <2>6 DEF Marks, Result
<1>6. CASE e = "error"
  <2>. DEFINE u == [t EXCEPT !.error = TRUE]
              f == Frame("error")
  <2>1. MessagesLine(t, e) = Result(u, <<f>>)
    BY <1>6 DEF MessagesLine, Finishes
  <2>2. u \in Locals /\ u.block = t.block /\ u.next = t.next /\ u.error
    BY DEF Locals
  <2>3. OpenOf(u) = OpenOf(t)
    <3>1. u.index = t.index
      BY DEF Locals
    <3>. QED
      BY <2>2, <3>1 DEF OpenOf
  <2>4. ASSUME NEW v, NEW b \in BOOLEAN, NEW x \in BOOLEAN, Going(v, OpenOf(t), t.next, b, x)
        PROVE  Going(Push(v, <<f>>), OpenOf(u), u.next, b, TRUE)
    BY <2>2, <2>3, <2>4, GoError, PushOne
  <2>5. f \in Frames
    BY FrameTypes DEF Types
  <2>6. <<f>> \in Seq(Frames) /\ <<f>> # <<>>
    <3>. HIDE DEF f
    <3>. QED
      BY <2>5
  <2>. HIDE DEF u, f
  <2>7. MessagesLine(t, e).t = u /\ MessagesLine(t, e).frames = <<f>>
    BY <2>1 DEF Result
  <2>8. Marks(t, u, e)
    BY <1>6, <2>2, Zenon DEF Marks
  <2>. QED
    BY <1>6, <2>2, <2>4, <2>6, <2>7, <2>8
<1>7. CASE e \notin {"text", "empty", "reasoning", "tool", "step", "error"} \cup Finishes
  <2>1. MessagesLine(t, e) = Result(t, <<>>) /\ e # "error"
    BY <1>7 DEF MessagesLine, Finishes
  <2>2. \A v : Push(v, <<>>) = v
    BY PushNothing
  <2>. QED
    BY <2>1, <2>2 DEF Result, Marks
<1>. QED
  BY <1>2, <1>3, <1>4, <1>5, <1>6, <1>7

\* The end of a Messages answer.
LEMMA MessagesFinalGoes ==
  ASSUME NEW t \in Locals
  PROVE  LET fs == MessagesFinal(t)
         IN  /\ fs \in Seq(Frames)
             /\ t.error => fs = <<>>
             /\ \A v, n : \A b, x \in BOOLEAN :
                  Going(v, OpenOf(t), n, b, x) => \E y \in BOOLEAN : Over(Push(v, fs), n, b, y) /\ (x => y)
<1>1. CASE t.error
  <2>1. MessagesFinal(t) = <<>>
    BY <1>1 DEF MessagesFinal
  <2>2. \A v : Push(v, <<>>) = v
    BY PushNothing
  <2>3. \A v, n : \A b, x \in BOOLEAN : Going(v, OpenOf(t), n, b, x) => Over(v, n, b, x)
    BY DEF Going, Over
  <2>. QED
    BY <2>1, <2>2, <2>3
<1>2. CASE ~t.error
  <2>. DEFINE fs == CloseBlock(t).frames
              e  == Frame("error")
              m  == Frame("message_stop")
              f  == Frame(IF t.reason = "length" THEN "finish_length" ELSE "finish")
              gs == IF ~t.output THEN <<e>> ELSE <<f, m>>
  <2>1. MessagesFinal(t) = fs \o gs
    BY <1>2 DEF MessagesFinal
  <2>2. fs \in Seq(Frames)
    BY CloseBlockGoes
  <2>3. e \in Frames /\ f \in Frames /\ m \in Frames
    <3>1. /\ "error" \in Types /\ "message_stop" \in Types
          /\ (IF t.reason = "length" THEN "finish_length" ELSE "finish") \in Types
      BY DEF Types
    <3>. QED
      BY ONLY <3>1, FrameTypes, Zenon
  <2>4. <<e>> \in Seq(Frames) /\ <<f, m>> \in Seq(Frames) /\ <<f>> \in Seq(Frames) /\ <<f, m>> = Append(<<f>>, m)
    <3>. HIDE DEF e, f, m
    <3>. QED
      BY <2>3
  <2>5. fs \o <<e>> \in Seq(Frames) /\ fs \o <<f, m>> \in Seq(Frames)
    <3>. HIDE DEF fs, e, f, m
    <3>. QED
      BY <2>2, <2>4
  <2>6. ASSUME NEW v, NEW n, NEW b \in BOOLEAN, NEW x \in BOOLEAN, Going(v, OpenOf(t), n, b, x)
        PROVE  Over(Push(v, fs \o <<e>>), n, b, TRUE) /\ Over(Push(v, fs \o <<f, m>>), n, b, x)
    <3>. DEFINE w == Push(v, fs)
    <3>1. Going(w, -1, n, b, x)
      <4>1. \A v1, n1 : \A b1, x1 \in BOOLEAN :
              Going(v1, OpenOf(t), n1, b1, x1) => Going(Push(v1, fs), -1, n1, b1, x1)
        BY CloseBlockGoes
      <4>. HIDE DEF fs
      <4>. QED
        BY <2>6, <4>1
    <3>2. Going(Step(w, e), -1, n, b, TRUE)
      BY <3>1, GoError
    <3>3. Going(Step(w, f), -1, n, b, x)
      BY <3>1, GoFinish
    <3>4. Over(Step(Step(w, f), m), n, b, x)
      <4>1. "message_stop" \in Ends /\ "message_stop" # "failed"
        BY DEF Ends
      <4>. HIDE DEF w, f
      <4>2. Over(Step(Step(w, f), m), n, b, x \/ "message_stop" = "failed")
        BY <3>3, <4>1, GoEnd
      <4>. QED
        BY <4>1, <4>2
    <3>5. Push(v, fs \o <<e>>) = Step(w, e) /\ Push(v, fs \o <<f, m>>) = Step(Step(w, f), m)
      <4>. HIDE DEF fs, e, f, m
      <4>1. Push(v, fs \o <<e>>) = Push(w, <<e>>) /\ Push(v, fs \o <<f, m>>) = Push(w, <<f, m>>)
        <5>1. \A gs1 \in Seq(Frames) : Push(v, fs \o gs1) = Push(Push(v, fs), gs1)
          BY <2>2, BothFrames
        <5>. QED
          BY <2>4, <5>1
      <4>. HIDE DEF w
      <4>2. Push(w, <<e>>) = Step(w, e) /\ Push(w, <<f>>) = Step(w, f)
        BY PushOne
      <4>3. Push(w, <<f, m>>) = Step(Push(w, <<f>>), m)
        <5>1. \A gs1 \in Seq(Frames) : Push(w, Append(gs1, m)) = Step(Push(w, gs1), m)
          BY <2>3, MoreFrames
        <5>. QED
          BY <2>4, <5>1
      <4>. QED
        BY <4>1, <4>2, <4>3
    <3>. QED
      BY <3>2, <3>4, <3>5 DEF Going, Over
  <2>. HIDE DEF fs, e, f, m
  <2>7. CASE t.output
    BY <1>2, <2>1, <2>5, <2>6, <2>7
  <2>8. CASE ~t.output
    BY <1>2, <2>1, <2>5, <2>6, <2>8
  <2>. QED
    BY <2>7, <2>8
<1>. QED
  BY <1>1, <1>2

\* An item of a Responses answer: the first one begins it.
LEMMA OpenItemGoes ==
  ASSUME NEW t \in Locals, NEW kind \in {"thinking", "text", "tool"}, t.block # "none" => t.created
  PROVE  LET r == OpenItem(t, kind)
         IN  /\ r.t = [t EXCEPT !.created = TRUE, !.block = kind, !.index = t.next, !.next = t.next + 1]
             /\ r.frames \in Seq(Frames)
             /\ \A v : \A x \in BOOLEAN :
                  Going(v, OpenOf(t), t.next, t.created, x) => Going(Push(v, r.frames), t.next, t.next + 1, TRUE, x)
<1>. DEFINE begin == Frame("begin")
            stop  == BlockFrame("stop", t.index, TRUE)
            start == BlockFrame("start", t.next, kind = "tool")
            as    == StartResponse(t)
            bs    == CloseItem(t)
<1>1. PICK full \in BOOLEAN : full = (kind = "tool")
  BY Zenon
<1>2. start = BlockFrame("start", t.next, full)
  BY <1>1, Zenon
<1>3. begin \in Frames /\ stop \in Frames /\ start \in Frames
  <2>1. "begin" \in Types /\ "stop" \in Types /\ "start" \in Types /\ t.index \in Int /\ t.next \in Int
    BY DEF Types, Locals
  <2>. HIDE DEF start
  <2>. QED
    BY <1>2, <2>1, FrameTypes
<1>4. /\ t.created => as = <<>>
      /\ ~t.created => as = <<begin>>
      /\ t.block = "none" => bs = <<>>
      /\ t.block # "none" => bs = <<stop>>
  BY DEF StartResponse, CloseItem
<1>. HIDE DEF begin, stop, start, as, bs
<1>5. as \in Seq(Frames) /\ bs \in Seq(Frames) /\ <<start>> \in Seq(Frames)
  <2>1. <<>> \in Seq(Frames) /\ <<begin>> \in Seq(Frames) /\ <<stop>> \in Seq(Frames) /\ <<start>> \in Seq(Frames)
    BY <1>3
  <2>. QED
    BY ONLY <1>4, <2>1, Zenon
<1>6. as \o bs \in Seq(Frames) /\ as \o bs \o <<start>> \in Seq(Frames)
  <2>1. \A x, y \in Seq(Frames) : x \o y \in Seq(Frames)
    BY BothFrames
  <2>. QED
    BY ONLY <1>5, <2>1, Zenon
<1>7. ASSUME NEW v, NEW x \in BOOLEAN, Going(v, OpenOf(t), t.next, t.created, x)
      PROVE  Going(Push(v, as \o bs \o <<start>>), t.next, t.next + 1, TRUE, x)
  <2>1. Going(Push(v, as), OpenOf(t), t.next, TRUE, x)
    <3>1. CASE t.created
      <4>1. t.created = TRUE
        BY <3>1 DEF Locals
      <4>. QED
        BY <1>4, <1>7, <4>1, PushNothing
    <3>2. CASE ~t.created
      <4>1. t.created = FALSE
        BY <3>2 DEF Locals
      <4>2. Going(Step(v, begin), OpenOf(t), t.next, TRUE, x)
        BY <1>7, <4>1, GoBegin DEF begin
      <4>. QED
        BY <1>4, <3>2, <4>2, PushOne
    <3>. QED
      BY <3>1, <3>2
  <2>. DEFINE w == Push(v, as)
  <2>. HIDE DEF w
  <2>2. Going(Push(w, bs), -1, t.next, TRUE, x)
    <3>1. CASE t.block = "none"
      BY <1>4, <2>1, <3>1, PushNothing DEF OpenOf, w
    <3>2. CASE t.block # "none"
      <4>1. Going(w, t.index, t.next, TRUE, x)
        BY <2>1, <3>2 DEF OpenOf, w
      <4>2. Going(Step(w, stop), -1, t.next, TRUE, x)
        BY <4>1, GoStop DEF stop
      <4>. QED
        BY <1>4, <3>2, <4>2, PushOne
    <3>. QED
      BY <3>1, <3>2
  <2>3. Going(Step(Push(w, bs), start), t.next, t.next + 1, TRUE, x)
    BY <1>2, <2>2, GoStart
  <2>4. Push(v, as \o bs) = Push(w, bs)
    <3>1. \A x1, y \in Seq(Frames) : Push(v, x1 \o y) = Push(Push(v, x1), y)
      BY BothFrames
    <3>. QED
      BY <1>5, <3>1, Zenon DEF w
  <2>5. as \o bs \o <<start>> = Append(as \o bs, start)
    <3>1. \A y \in Seq(Frames) : y \o <<start>> = Append(y, start)
      BY <1>3
    <3>. QED
      BY <1>6, <3>1, Zenon
  <2>6. Push(v, Append(as \o bs, start)) = Step(Push(v, as \o bs), start)
    <3>1. \A gs \in Seq(Frames) : Push(v, Append(gs, start)) = Step(Push(v, gs), start)
      BY <1>3, MoreFrames
    <3>. QED
      BY <1>6, <3>1
  <2>. QED
    BY <2>3, <2>4, <2>5, <2>6
<1>8. OpenItem(t, kind) = Result([t EXCEPT !.created = TRUE, !.block = kind, !.index = t.next, !.next = t.next + 1],
                                 as \o bs \o <<start>>)
  BY DEF OpenItem, as, bs, start
<1>9. /\ OpenItem(t, kind).t = [t EXCEPT !.created = TRUE, !.block = kind, !.index = t.next, !.next = t.next + 1]
      /\ OpenItem(t, kind).frames = as \o bs \o <<start>>
  <2>. DEFINE p == [t EXCEPT !.created = TRUE, !.block = kind, !.index = t.next, !.next = t.next + 1]
              gs == as \o bs \o <<start>>
  <2>. HIDE DEF p, gs
  <2>1. OpenItem(t, kind) = Result(p, gs)
    BY <1>8 DEF p, gs
  <2>2. OpenItem(t, kind).t = p /\ OpenItem(t, kind).frames = gs
    BY <2>1 DEF Result
  <2>. QED
    BY <2>2 DEF p, gs
<1>. QED
  BY <1>6, <1>7, <1>9

\* Text, thinking or a tool call in a Responses answer: an item of its kind is open, and is written to.
LEMMA ResponsesDeltaGoes ==
  ASSUME NEW t \in Locals, NEW kind \in {"thinking", "text", "tool"}, t.block # "none" => t.created
  PROVE  LET r == ResponsesDelta(t, kind)
         IN  /\ r.t \in Locals /\ r.frames \in Seq(Frames) /\ r.frames # <<>>
             /\ r.t.error = t.error /\ r.t.finish = t.finish /\ r.t.created
             /\ \A v : \A x \in BOOLEAN :
                  Going(v, OpenOf(t), t.next, t.created, x) => Going(Push(v, r.frames), OpenOf(r.t), r.t.next, TRUE, x)
<1>. DEFINE q  == IF t.block = kind /\ kind # "tool" THEN Result(t, <<>>) ELSE OpenItem(t, kind)
            u  == q.t
            fs == q.frames
            f  == BlockFrame("delta", u.index, TRUE)
<1>1. /\ u \in Locals /\ fs \in Seq(Frames) /\ u.block = kind /\ u.error = t.error /\ u.finish = t.finish /\ u.created
      /\ \A v : \A x \in BOOLEAN :
           Going(v, OpenOf(t), t.next, t.created, x) => Going(Push(v, fs), u.index, u.next, TRUE, x)
  <2>1. CASE t.block = kind /\ kind # "tool"
    <3>1. u = t /\ fs = <<>> /\ t.created
      BY <2>1 DEF Result
    <3>2. t.created = TRUE
      BY <3>1 DEF Locals
    <3>3. \A v : Push(v, <<>>) = v
      BY PushNothing
    <3>4. OpenOf(t) = t.index
      BY <2>1 DEF OpenOf
    <3>. HIDE DEF q
    <3>5. ASSUME NEW v, NEW x \in BOOLEAN, Going(v, OpenOf(t), t.next, t.created, x)
          PROVE  Going(Push(v, fs), u.index, u.next, TRUE, x)
      <4>1. Push(v, fs) = v
        BY <3>1, <3>3
      <4>. QED
        BY <3>1, <3>2, <3>4, <3>5, <4>1
    <3>. QED
      <4>1. u \in Locals /\ u.block = kind /\ u.error = t.error /\ u.finish = t.finish /\ u.created
        BY <2>1, <3>1
      <4>2. fs \in Seq(Frames)
        BY <3>1
      <4>. QED
        BY <3>5, <4>1, <4>2
  <2>2. CASE ~(t.block = kind /\ kind # "tool")
    <3>. DEFINE p == [t EXCEPT !.created = TRUE, !.block = kind, !.index = t.next, !.next = t.next + 1]
    <3>1. q = OpenItem(t, kind)
      BY <2>2
    <3>. HIDE DEF q
    <3>2. /\ u = p /\ fs \in Seq(Frames)
          /\ \A v : \A x \in BOOLEAN :
               Going(v, OpenOf(t), t.next, t.created, x) => Going(Push(v, fs), t.next, t.next + 1, TRUE, x)
      <4>. HIDE DEF p
      <4>1. /\ OpenItem(t, kind).t = p /\ OpenItem(t, kind).frames \in Seq(Frames)
            /\ \A v : \A x \in BOOLEAN :
                 Going(v, OpenOf(t), t.next, t.created, x) =>
                   Going(Push(v, OpenItem(t, kind).frames), t.next, t.next + 1, TRUE, x)
        BY OpenItemGoes DEF p
      <4>. QED
        BY <3>1, <4>1
    <3>3. /\ p \in Locals /\ p.block = kind /\ p.error = t.error /\ p.finish = t.finish /\ p.created
          /\ p.index = t.next /\ p.next = t.next + 1
      <4>1. PICK m \in Nat : m = t.next
        BY DEF Locals
      <4>2. PICK k \in Nat : k = m + 1
        OBVIOUS
      <4>3. p = [t EXCEPT !.created = TRUE, !.block = kind, !.index = m, !.next = k]
        BY ONLY <4>1, <4>2, Zenon
      <4>. HIDE DEF p
      <4>. QED
        BY <4>1, <4>2, <4>3 DEF Locals
    <3>. HIDE DEF p, u, fs
    <3>. QED
      BY <3>2, <3>3
  <2>. QED
    BY <2>1, <2>2
<1>2. ResponsesDelta(t, kind) = Result(u, Append(fs, f))
  BY DEF ResponsesDelta
<1>3. f \in Frames
  <2>1. u.index \in Int /\ "delta" \in Types
    BY <1>1 DEF Types, Locals
  <2>. HIDE DEF u
  <2>. QED
    BY <2>1, FrameTypes
<1>. HIDE DEF q, u, fs
<1>4. ASSUME NEW v, NEW x \in BOOLEAN, Going(v, OpenOf(t), t.next, t.created, x)
      PROVE  Going(Push(v, Append(fs, f)), OpenOf(u), u.next, TRUE, x)
  <2>1. Going(Push(v, fs), u.index, u.next, TRUE, x)
    BY <1>1, <1>4
  <2>2. Going(Step(Push(v, fs), f), u.index, u.next, TRUE, x)
    BY <2>1, GoDelta
  <2>3. Push(v, Append(fs, f)) = Step(Push(v, fs), f)
    <3>. HIDE DEF f
    <3>. QED
      BY <1>1, <1>3, MoreFrames
  <2>4. OpenOf(u) = u.index
    BY <1>1 DEF OpenOf
  <2>. QED
    BY <2>2, <2>3, <2>4
<1>. HIDE DEF f
<1>5. Append(fs, f) \in Seq(Frames) /\ Append(fs, f) # <<>>
  BY <1>1, <1>3
<1>6. ResponsesDelta(t, kind).t = u /\ ResponsesDelta(t, kind).frames = Append(fs, f)
  BY <1>2 DEF Result
<1>. QED
  BY <1>1, <1>4, <1>5, <1>6

\* A line of a Responses answer: nothing is written before the answer begins, and
\* an error writes nothing.
LEMMA ResponsesLineGoes ==
  ASSUME NEW t \in Locals, NEW e \in Lines, t.block # "none" => t.created
  PROVE  LET r == ResponsesLine(t, e)
         IN  /\ r.t \in Locals /\ r.frames \in Seq(Frames) /\ Marks(t, r.t, e)
             /\ r.t.block # "none" => r.t.created
             /\ r.t.finish => t.finish \/ e \in Finishes
             /\ r.frames = <<>> => r.t.created = t.created /\ r.t.block = t.block /\ r.t.next = t.next /\ r.t.index = t.index
             /\ r.frames # <<>> => r.t.created
             /\ \A v : \A x \in BOOLEAN :
                  Going(v, OpenOf(t), t.next, t.created, x) =>
                    Going(Push(v, r.frames), OpenOf(r.t), r.t.next, r.t.created, x)
<1>1. UsageOf(e) \in {"none", "some", "zero"} /\ ReasonOf(e) \in {"none", "length", "stop"}
  BY LocalsTypes
<1>2. ASSUME NEW kind \in {"thinking", "text", "tool"}, ResponsesLine(t, e) = ResponsesDelta(t, kind), e # "error"
      PROVE  LET r == ResponsesLine(t, e)
             IN  /\ r.t \in Locals /\ r.frames \in Seq(Frames) /\ Marks(t, r.t, e)
                 /\ r.frames # <<>> /\ r.t.created /\ r.t.finish = t.finish
                 /\ \A v : \A x \in BOOLEAN :
                      Going(v, OpenOf(t), t.next, t.created, x) =>
                        Going(Push(v, r.frames), OpenOf(r.t), r.t.next, r.t.created, x)
  <2>. DEFINE r == ResponsesLine(t, e)
  <2>. HIDE DEF r
  <2>1. /\ r.t \in Locals /\ r.frames \in Seq(Frames) /\ r.frames # <<>>
        /\ r.t.error = t.error /\ r.t.finish = t.finish /\ r.t.created
        /\ \A v : \A x \in BOOLEAN :
             Going(v, OpenOf(t), t.next, t.created, x) => Going(Push(v, r.frames), OpenOf(r.t), r.t.next, TRUE, x)
    <3>1. r = ResponsesDelta(t, kind)
      BY <1>2 DEF r
    <3>. QED
      BY <3>1, ResponsesDeltaGoes
  <2>2. Marks(t, r.t, e)
    BY <1>2, <2>1, Zenon DEF Marks
  <2>3. r.t.created = TRUE
    BY <2>1 DEF Locals
  <2>. QED
    BY <2>1, <2>2, <2>3 DEF r
<1>3. ASSUME NEW u \in Locals, ResponsesLine(t, e) = Result(u, <<>>), Marks(t, u, e),
             u.created = t.created, u.block = t.block, u.next = t.next, u.index = t.index,
             u.finish => t.finish \/ e \in Finishes
      PROVE  LET r == ResponsesLine(t, e)
             IN  /\ r.t \in Locals /\ r.frames \in Seq(Frames) /\ Marks(t, r.t, e) /\ r.frames = <<>>
                 /\ r.t.finish => t.finish \/ e \in Finishes
                 /\ r.t.created = t.created /\ r.t.block = t.block /\ r.t.next = t.next /\ r.t.index = t.index
                 /\ \A v : \A x \in BOOLEAN :
                      Going(v, OpenOf(t), t.next, t.created, x) =>
                        Going(Push(v, r.frames), OpenOf(r.t), r.t.next, r.t.created, x)
  <2>1. ResponsesLine(t, e).t = u /\ ResponsesLine(t, e).frames = <<>>
    BY <1>3 DEF Result
  <2>2. \A v : Push(v, <<>>) = v
    BY PushNothing
  <2>3. OpenOf(u) = OpenOf(t)
    BY <1>3 DEF OpenOf
  <2>4. <<>> \in Seq(Frames)
    OBVIOUS
  <2>. QED
    BY <1>3, <2>1, <2>2, <2>3, <2>4
<1>4. CASE e \in {"text", "reasoning", "tool"}
  <2>1. /\ e # "error"
        /\ e = "text" => ResponsesLine(t, e) = ResponsesDelta(t, "text")
        /\ e = "reasoning" => ResponsesLine(t, e) = ResponsesDelta(t, "thinking")
        /\ e = "tool" => ResponsesLine(t, e) = ResponsesDelta(t, "tool")
    BY <1>4 DEF ResponsesLine, Finishes
  <2>2. \E kind \in {"thinking", "text", "tool"} : ResponsesLine(t, e) = ResponsesDelta(t, kind)
    BY <1>4, <2>1
  <2>. QED
    BY <1>2, <2>1, <2>2, Zenon
<1>5. CASE e \in Finishes
  <2>1. PICK o \in BOOLEAN : o = (IF UsageOf(e) = "none" THEN t.output ELSE UsageOf(e) = "some")
    BY DEF Locals
  <2>. DEFINE u == [t EXCEPT !.finish = TRUE, !.reason = ReasonOf(e), !.output = o]
  <2>2. ResponsesLine(t, e) =
          Result([t EXCEPT !.finish = TRUE, !.reason = ReasonOf(e),
                           !.output = IF UsageOf(e) = "none" THEN t.output ELSE UsageOf(e) = "some"], <<>>)
    BY <1>5 DEF ResponsesLine, Finishes
  <2>3. ResponsesLine(t, e) = Result(u, <<>>) /\ e # "error"
    BY <1>5, <2>1, <2>2 DEF Finishes
  <2>4. /\ u \in Locals /\ u.created = t.created /\ u.block = t.block /\ u.next = t.next /\ u.index = t.index
        /\ u.error = t.error
    BY <1>1 DEF Locals
  <2>5. Marks(t, u, e)
    BY <2>3, <2>4, Zenon DEF Marks
  <2>. HIDE DEF u
  <2>. QED
    BY <1>3, <1>5, <2>3, <2>4, <2>5, Zenon
<1>6. CASE e = "error"
  <2>. DEFINE u == [t EXCEPT !.error = TRUE]
  <2>1. ResponsesLine(t, e) = Result(u, <<>>)
    BY <1>6 DEF ResponsesLine, Finishes
  <2>2. /\ u \in Locals /\ u.created = t.created /\ u.block = t.block /\ u.next = t.next /\ u.index = t.index
        /\ u.error /\ u.finish = t.finish
    BY DEF Locals
  <2>3. Marks(t, u, e)
    BY <1>6, <2>2, Zenon DEF Marks
  <2>. HIDE DEF u
  <2>. QED
    BY <1>3, <2>1, <2>2, <2>3, Zenon
<1>7. CASE e \notin {"text", "reasoning", "tool", "error"} \cup Finishes
  <2>1. ResponsesLine(t, e) = Result(t, <<>>) /\ e # "error"
    BY <1>7 DEF ResponsesLine, Finishes
  <2>2. Marks(t, t, e)
    BY <2>1, Zenon DEF Marks
  <2>. QED
    BY <1>3, <2>1, <2>2, Zenon
<1>. QED
  BY <1>4, <1>5, <1>6, <1>7

\* The end of a Responses answer: failed, unless the upstream has finished.
LEMMA ResponsesEndGoes ==
  ASSUME NEW t \in Locals, t.block # "none" => t.created
  PROVE  /\ ResponsesFail(t) \in Seq(Frames) /\ ResponsesFinish(t) \in Seq(Frames)
         /\ ~t.created => ResponsesFail(t) = <<>> /\ ResponsesFinish(t) = <<>>
         /\ \A v, n : \A x \in BOOLEAN :
              Going(v, OpenOf(t), n, t.created, x) =>
                /\ \E y \in BOOLEAN : Over(Push(v, ResponsesFail(t)), n, t.created, y) /\ (t.created => y)
                /\ \E y \in BOOLEAN :
                     Over(Push(v, ResponsesFinish(t)), n, t.created, y) /\ (t.created /\ ~t.finish => y)
<1>1. CASE ~t.created
  <2>1. ResponsesFail(t) = <<>> /\ ResponsesFinish(t) = <<>>
    BY <1>1 DEF ResponsesFail, ResponsesFinish
  <2>2. \A v : Push(v, <<>>) = v
    BY PushNothing
  <2>3. \A v, n : \A x \in BOOLEAN : Going(v, OpenOf(t), n, t.created, x) => Over(v, n, t.created, x)
    BY DEF Going, Over
  <2>4. <<>> \in Seq(Frames)
    OBVIOUS
  <2>. QED
    BY <1>1, <2>1, <2>2, <2>3, <2>4
<1>2. CASE t.created
  <2>. DEFINE f   == Frame("failed")
              y   == IF t.reason = "length" THEN "incomplete" ELSE "completed"
              c   == Frame(y)
              fs  == CloseItem(t)
              stop == BlockFrame("stop", t.index, TRUE)
  <2>1. f \in Frames /\ c \in Frames /\ stop \in Frames
    <3>1. "failed" \in Types /\ y \in Types /\ "stop" \in Types /\ t.index \in Int
      BY DEF Types, Locals
    <3>. HIDE DEF y
    <3>. QED
      BY ONLY <3>1, FrameTypes, Zenon
  <2>2. /\ ResponsesFail(t) = <<f>>
        /\ ~t.finish => ResponsesFinish(t) = <<f>>
        /\ t.finish => ResponsesFinish(t) = Append(fs, c)
    BY <1>2 DEF ResponsesFail, ResponsesFinish
  <2>3. (t.block = "none" => fs = <<>>) /\ (t.block # "none" => fs = <<stop>>)
    BY DEF CloseItem
  <2>. HIDE DEF f, c, fs, stop
  <2>4. fs \in Seq(Frames) /\ <<f>> \in Seq(Frames)
    <3>1. <<>> \in Seq(Frames) /\ <<stop>> \in Seq(Frames) /\ <<f>> \in Seq(Frames)
      BY <2>1
    <3>. QED
      BY ONLY <2>3, <3>1, Zenon
  <2>5. Append(fs, c) \in Seq(Frames)
    BY <2>1, <2>4, MoreFrames
  <2>6. ASSUME NEW v, NEW n, NEW x \in BOOLEAN, Going(v, OpenOf(t), n, t.created, x)
        PROVE  Over(Push(v, <<f>>), n, t.created, TRUE) /\ Over(Push(v, Append(fs, c)), n, t.created, x)
    <3>1. Over(Step(v, f), n, t.created, TRUE)
      <4>1. t.created \in BOOLEAN /\ "failed" \in Ends
        BY DEF Locals, Ends
      <4>2. Over(Step(v, f), n, t.created, x \/ "failed" = "failed")
        BY <2>6, <4>1, GoEnd DEF f
      <4>3. (x \/ "failed" = "failed") = TRUE
        OBVIOUS
      <4>. QED
        BY <4>2, <4>3, Zenon
    <3>2. Going(Push(v, fs), -1, n, t.created, x)
      <4>1. CASE t.block = "none"
        BY <2>3, <2>6, <4>1, PushNothing DEF OpenOf
      <4>2. CASE t.block # "none"
        <5>1. Going(v, t.index, n, t.created, x) /\ t.created \in BOOLEAN
          BY <2>6, <4>2 DEF OpenOf, Locals
        <5>2. Going(Step(v, stop), -1, n, t.created, x)
          BY <5>1, GoStop DEF stop
        <5>. QED
          BY <2>3, <4>2, <5>2, PushOne
      <4>. QED
        BY <4>1, <4>2
    <3>. DEFINE w == Push(v, fs)
    <3>. HIDE DEF w
    <3>3. Over(Step(w, c), n, t.created, x)
      <4>1. t.created \in BOOLEAN /\ y \in Ends /\ y # "failed" /\ Going(w, -1, n, t.created, x)
        BY <3>2 DEF Locals, Ends, w
      <4>. HIDE DEF y
      <4>2. Over(Step(w, c), n, t.created, x \/ y = "failed")
        BY <4>1, GoEnd DEF c
      <4>3. (x \/ y = "failed") = x
        BY <4>1
      <4>. QED
        BY <4>2, <4>3, Zenon
    <3>4. Push(v, Append(fs, c)) = Step(w, c)
      BY <2>1, <2>4, MoreFrames DEF w
    <3>. QED
      BY <3>1, <3>3, <3>4, PushOne
  <2>. HIDE DEF y
  <2>. QED
    BY <1>2, <2>2, <2>4, <2>5, <2>6, Zenon
<1>. QED
  BY <1>1, <1>2

\* What is collected for an answer in one piece.
LEMMA CollectKeeps ==
  ASSUME NEW t \in Locals, NEW e \in Lines
  PROVE  /\ ChatCollect(t, e) \in Locals /\ Marks(t, ChatCollect(t, e), e)
         /\ MessagesCollect(t, e) \in Locals /\ Marks(t, MessagesCollect(t, e), e)
         /\ ResponsesCollect(t, e) \in Locals /\ Marks(t, ResponsesCollect(t, e), e)
         /\ ResponsesCollect(t, e).finish => t.finish \/ e \in Finishes
<1>1. UsageOf(e) \in {"none", "some", "zero"} /\ ReasonOf(e) \in {"none", "length", "stop"}
  BY LocalsTypes
<1>. DEFINE put == [t EXCEPT !.output = TRUE]
            bad == [t EXCEPT !.error = TRUE]
            use == IF UsageOf(e) # "none" THEN UsageOf(e) ELSE t.usage
            end == [t EXCEPT !.reason = ReasonOf(e), !.usage = use]
            fin == [t EXCEPT !.finish = TRUE, !.reason = ReasonOf(e), !.usage = use]
<1>2. put \in Locals /\ put.error = t.error /\ put.finish = t.finish
  BY DEF Locals
<1>3. bad \in Locals /\ bad.error /\ bad.finish = t.finish
  BY DEF Locals
<1>4. use \in {"none", "some", "zero"}
  BY <1>1 DEF Locals
<1>5. end \in Locals /\ end.error = t.error /\ fin \in Locals /\ fin.error = t.error
  <2>. HIDE DEF use
  <2>. QED
    BY <1>1, <1>4 DEF Locals
<1>6. CASE e \in {"text", "reasoning", "tool"}
  <2>1. ChatCollect(t, e) = put /\ MessagesCollect(t, e) = put /\ ResponsesCollect(t, e) = put /\ e # "error"
    BY <1>6 DEF ChatCollect, MessagesCollect, ResponsesCollect, Finishes
  <2>. HIDE DEF put
  <2>. QED
    BY <1>2, <2>1, Zenon DEF Marks
<1>7. CASE e \in Finishes
  <2>1. ChatCollect(t, e) = end /\ MessagesCollect(t, e) = end /\ ResponsesCollect(t, e) = fin /\ e # "error"
    BY <1>7 DEF ChatCollect, MessagesCollect, ResponsesCollect, Finishes
  <2>. HIDE DEF end, fin
  <2>. QED
    BY <1>5, <1>7, <2>1, Zenon DEF Marks
<1>8. CASE e = "error"
  <2>1. ChatCollect(t, e) = bad /\ MessagesCollect(t, e) = bad /\ ResponsesCollect(t, e) = bad
    BY <1>8 DEF ChatCollect, MessagesCollect, ResponsesCollect, Finishes
  <2>. HIDE DEF bad
  <2>. QED
    BY <1>3, <1>8, <2>1, Zenon DEF Marks
<1>9. CASE e \notin {"text", "reasoning", "tool", "error"} \cup Finishes
  <2>1. ChatCollect(t, e) = t /\ MessagesCollect(t, e) = t /\ ResponsesCollect(t, e) = t /\ e # "error"
    BY <1>9 DEF ChatCollect, MessagesCollect, ResponsesCollect, Finishes
  <2>. QED
    BY <2>1, Zenon DEF Marks
<1>. QED
  BY <1>6, <1>7, <1>8, <1>9

-----------------------------------------------------------------------------
(* Statements: what each makes of a handler, field by field.               *)

Handler == [pc : {"idle", "body", "init", "forward", "read", "drain", "done"},
            protocol : Protocols, stream : BOOLEAN, listening : BOOLEAN,
            aborted : BOOLEAN, signal : BOOLEAN, started : BOOLEAN, expired : BOOLEAN,
            t : Locals, lines : Nat,
            upstream : {"none", "asked", "open", "over", "stopped"},
            head : {"none", "ok", "error", "clash"},
            conn : {"open", "ended", "flushed", "closed", "destroyed", "cut"},
            slot : BOOLEAN, seen : View, cause : {"none", "end", "error", "timeout", "abort", "left"},
            sawError : BOOLEAN, sawFinish : BOOLEAN, tailError : BOOLEAN]

\* The request itself, and what is known of the upstream's answer.
Same(p, q) ==
  /\ p.protocol = q.protocol /\ p.stream = q.stream /\ p.slot = q.slot
  /\ p.cause = q.cause /\ p.sawError = q.sawError /\ p.sawFinish = q.sawFinish
  /\ p.tailError = q.tailError

\* The answer, as far as it was written.
Written(p, q) == p.head = q.head /\ p.seen = q.seen

\* A connection without a request is a handler that has nothing yet.
LEMMA IdleType == Idle \in Handler
BY LocalsTypes, FrameTypes DEF Idle, Handler, Protocols

\* res.write sends the head first, and its frames to a connection that is open.
LEMMA WriteFacts ==
  ASSUME NEW q \in Handler, NEW fs, fs # <<>>, q.conn = "open" => Push(q.seen, fs) \in View
  PROVE  LET p == Write(q, fs)
         IN  /\ p \in Handler /\ Same(p, q) /\ p.started
             /\ p.pc = q.pc /\ p.t = q.t /\ p.lines = q.lines /\ p.conn = q.conn
             /\ p.aborted = q.aborted /\ p.signal = q.signal /\ p.upstream = q.upstream
             /\ p.head = (IF q.head = "none" THEN "ok" ELSE q.head)
             /\ p.seen = (IF q.conn = "open" THEN Push(q.seen, fs) ELSE q.seen)
<1>. DEFINE h == IF q.head = "none" THEN "ok" ELSE q.head
            w == IF q.conn = "open" THEN Push(q.seen, fs) ELSE q.seen
            p == [q EXCEPT !.head = h, !.started = TRUE, !.seen = w]
<1>1. h \in {"none", "ok", "error", "clash"} /\ w \in View
  BY DEF Handler
<1>2. Write(q, fs) = p
  BY Zenon DEF Write, Writable
<1>. HIDE DEF h, w
<1>3. /\ p \in Handler /\ p.started
      /\ p.pc = q.pc /\ p.t = q.t /\ p.lines = q.lines /\ p.conn = q.conn
      /\ p.aborted = q.aborted /\ p.signal = q.signal /\ p.upstream = q.upstream
      /\ p.head = h /\ p.seen = w
  BY <1>1 DEF Handler
<1>4. Same(p, q)
  BY DEF Handler, Same
<1>. HIDE DEF p
<1>. QED
  BY <1>2, <1>3, <1>4 DEF h, w

\* A handler that returns leaves its response as it was.
LEMMA ReturnFacts ==
  ASSUME NEW q \in Handler
  PROVE  LET p == Return(q)
         IN  /\ p \in Handler /\ Same(p, q) /\ Written(p, q) /\ ~p.started
             /\ p.pc = "done" /\ p.lines = 0 /\ p.conn = q.conn
             /\ p.aborted = q.aborted /\ p.signal = q.signal /\ p.upstream = q.upstream
<1>. DEFINE p == [q EXCEPT !.pc = "done", !.t = Fresh, !.lines = 0, !.started = FALSE]
<1>1. Return(q) = p
  BY Zenon DEF Return
<1>2. /\ p \in Handler /\ ~p.started
      /\ p.pc = "done" /\ p.lines = 0 /\ p.conn = q.conn
      /\ p.aborted = q.aborted /\ p.signal = q.signal /\ p.upstream = q.upstream
  BY LocalsTypes DEF Handler
<1>3. Same(p, q) /\ Written(p, q)
  BY DEF Handler, Same, Written
<1>. HIDE DEF p
<1>. QED
  BY <1>1, <1>2, <1>3

\* res.end() ends a response that is open, and the handler with it.
LEMMA EndFacts ==
  ASSUME NEW q \in Handler
  PROVE  LET p == End(q)
         IN  /\ p \in Handler /\ Same(p, q) /\ Written(p, q) /\ ~p.started
             /\ p.pc = "done" /\ p.lines = 0 /\ p.conn = Shut(q.conn)
             /\ p.aborted = q.aborted /\ p.signal = q.signal /\ p.upstream = q.upstream
<1>. DEFINE c == Shut(q.conn)
            p == [q EXCEPT !.conn = c]
<1>1. End(q) = Return(p)
  BY Zenon DEF End
<1>2. c \in {"open", "ended", "flushed", "closed", "destroyed", "cut"}
  BY DEF Handler, Shut
<1>. HIDE DEF c
<1>3. /\ p \in Handler /\ p.conn = c
      /\ p.aborted = q.aborted /\ p.signal = q.signal /\ p.upstream = q.upstream
  BY <1>2 DEF Handler
<1>4. Same(p, q) /\ Written(p, q)
  BY DEF Handler, Same, Written
<1>. HIDE DEF p
<1>5. LET r == Return(p)
      IN  /\ r \in Handler /\ Same(r, p) /\ Written(r, p) /\ ~r.started
          /\ r.pc = "done" /\ r.lines = 0 /\ r.conn = p.conn
          /\ r.aborted = p.aborted /\ r.signal = p.signal /\ r.upstream = p.upstream
  BY <1>3, ReturnFacts
<1>6. Same(Return(p), q) /\ Written(Return(p), q)
  BY <1>4, <1>5, Zenon DEF Same, Written
<1>. QED
  BY <1>1, <1>3, <1>5, <1>6 DEF c

\* An answer in JSON writes the head, and clashes with one that was written.
LEMMA JsonFacts ==
  ASSUME NEW q \in Handler, NEW status \in {"ok", "error"}, NEW fs,
         q.conn = "open" => Push(q.seen, fs) \in View
  PROVE  LET p == Json(q, status, fs)
         IN  /\ p \in Handler /\ Same(p, q) /\ ~p.started
             /\ p.pc = "done" /\ p.lines = 0 /\ p.conn = Shut(q.conn)
             /\ p.aborted = q.aborted /\ p.signal = q.signal /\ p.upstream = q.upstream
             /\ p.head = (IF q.head = "none" THEN status ELSE "clash")
             /\ p.seen = (IF q.conn = "open" THEN Push(q.seen, fs) ELSE q.seen)
<1>. DEFINE h == IF q.head = "none" THEN status ELSE "clash"
            w == IF q.conn = "open" THEN Push(q.seen, fs) ELSE q.seen
            p == [q EXCEPT !.head = h, !.seen = w]
<1>1. h \in {"none", "ok", "error", "clash"} /\ w \in View
  BY DEF Handler
<1>2. Json(q, status, fs) = End(p)
  BY Zenon DEF Json, Writable
<1>. HIDE DEF h, w
<1>3. /\ p \in Handler /\ p.conn = q.conn
      /\ p.aborted = q.aborted /\ p.signal = q.signal /\ p.upstream = q.upstream
      /\ p.head = h /\ p.seen = w
  BY <1>1 DEF Handler
<1>4. Same(p, q)
  BY DEF Handler, Same
<1>. HIDE DEF p
<1>5. LET r == End(p)
      IN  /\ r \in Handler /\ Same(r, p) /\ Written(r, p) /\ ~r.started
          /\ r.pc = "done" /\ r.lines = 0 /\ r.conn = Shut(p.conn)
          /\ r.aborted = p.aborted /\ r.signal = p.signal /\ r.upstream = p.upstream
  BY <1>3, EndFacts
<1>6. Same(End(p), q)
  BY <1>4, <1>5, Zenon DEF Same
<1>. QED
  BY <1>2, <1>3, <1>5, <1>6 DEF Written, h, w

\* An error in JSON has no frames.
LEMMA FailFacts ==
  ASSUME NEW q \in Handler
  PROVE  LET p == Fail(q)
         IN  /\ p \in Handler /\ Same(p, q) /\ ~p.started
             /\ p.pc = "done" /\ p.lines = 0 /\ p.conn = Shut(q.conn)
             /\ p.aborted = q.aborted /\ p.signal = q.signal /\ p.upstream = q.upstream
             /\ p.head = (IF q.head = "none" THEN "error" ELSE "clash") /\ p.seen = q.seen
<1>1. Push(q.seen, <<>>) = q.seen /\ q.seen \in View
  BY PushNothing DEF Handler
<1>2. Fail(q) = Json(q, "error", <<>>)
  BY DEF Fail
<1>. QED
  BY <1>1, <1>2, JsonFacts

\* abort() stops the upstream's request, whether it was answered or not ...
LEMMA AbortFacts ==
  ASSUME NEW q \in Handler
  PROVE  LET p == Abort(q)
         IN  /\ p \in Handler /\ Same(p, q) /\ Written(p, q) /\ p.started = q.started
             /\ p.pc = q.pc /\ p.t = q.t /\ p.lines = q.lines /\ p.conn = q.conn /\ p.aborted = q.aborted
             /\ p.signal /\ p.upstream = (IF q.upstream \in {"asked", "open"} THEN "stopped" ELSE q.upstream)
<1>. DEFINE u == IF q.upstream \in {"asked", "open"} THEN "stopped" ELSE q.upstream
            p == [q EXCEPT !.signal = TRUE, !.upstream = u]
<1>1. Abort(q) = p
  BY Zenon DEF Abort
<1>2. u \in {"none", "asked", "open", "over", "stopped"}
  BY DEF Handler
<1>. HIDE DEF u
<1>3. /\ p \in Handler /\ p.started = q.started /\ p.pc = q.pc /\ p.t = q.t /\ p.lines = q.lines
      /\ p.conn = q.conn /\ p.aborted = q.aborted /\ p.signal /\ p.upstream = u
  BY <1>2 DEF Handler
<1>4. Same(p, q) /\ Written(p, q)
  BY DEF Handler, Same, Written
<1>. HIDE DEF p
<1>. QED
  BY <1>1, <1>3, <1>4 DEF u

\* ... and cancel() only one that was.
LEMMA CancelFacts ==
  ASSUME NEW q \in Handler
  PROVE  LET p == Cancel(q)
         IN  /\ p \in Handler /\ Same(p, q) /\ Written(p, q) /\ p.started = q.started
             /\ p.pc = q.pc /\ p.t = q.t /\ p.lines = q.lines /\ p.conn = q.conn /\ p.aborted = q.aborted
             /\ p.signal = q.signal /\ p.upstream = (IF q.upstream = "open" THEN "stopped" ELSE q.upstream)
<1>. DEFINE u == IF q.upstream = "open" THEN "stopped" ELSE q.upstream
            p == [q EXCEPT !.upstream = u]
<1>1. Cancel(q) = p
  BY Zenon DEF Cancel
<1>2. u \in {"none", "asked", "open", "over", "stopped"}
  BY DEF Handler
<1>. HIDE DEF u
<1>3. /\ p \in Handler /\ p.started = q.started /\ p.pc = q.pc /\ p.t = q.t /\ p.lines = q.lines
      /\ p.conn = q.conn /\ p.aborted = q.aborted /\ p.signal = q.signal /\ p.upstream = u
  BY <1>2 DEF Handler
<1>4. Same(p, q) /\ Written(p, q)
  BY DEF Handler, Same, Written
<1>. HIDE DEF p
<1>. QED
  BY <1>1, <1>3, <1>4 DEF u

\* The listener for 'close' aborts, or it does nothing.
LEMMA OnCloseFacts ==
  ASSUME NEW q \in Handler
  PROVE  LET p == OnClose(q)
         IN  /\ p \in Handler /\ Same(p, q) /\ Written(p, q) /\ p.started = q.started
             /\ p.pc = q.pc /\ p.t = q.t /\ p.lines = q.lines /\ p.conn = q.conn
             /\ \/ p.aborted = q.aborted /\ p.signal = q.signal /\ p.upstream = q.upstream
                \/ p.signal /\ p.upstream = (IF q.upstream \in {"asked", "open"} THEN "stopped" ELSE q.upstream)
<1>1. CASE ~q.listening \/ q.conn \in {"ended", "flushed", "cut"}
  <2>1. OnClose(q) = q
    BY <1>1 DEF OnClose
  <2>. QED
    BY <2>1 DEF Same, Written
<1>2. CASE ~(~q.listening \/ q.conn \in {"ended", "flushed", "cut"})
  <2>. DEFINE a == Abort(q)
              p == [a EXCEPT !.aborted = TRUE]
  <2>1. OnClose(q) = p
    BY <1>2 DEF OnClose
  <2>2. /\ a \in Handler /\ Same(a, q) /\ Written(a, q) /\ a.started = q.started
        /\ a.pc = q.pc /\ a.t = q.t /\ a.lines = q.lines /\ a.conn = q.conn
        /\ a.signal /\ a.upstream = (IF q.upstream \in {"asked", "open"} THEN "stopped" ELSE q.upstream)
    BY AbortFacts
  <2>. HIDE DEF a
  <2>3. /\ p \in Handler /\ p.started = a.started /\ p.pc = a.pc /\ p.t = a.t /\ p.lines = a.lines
        /\ p.conn = a.conn /\ p.signal = a.signal /\ p.upstream = a.upstream
    BY <2>2 DEF Handler
  <2>4. Same(p, a) /\ Written(p, a)
    BY <2>2 DEF Handler, Same, Written
  <2>. HIDE DEF p
  <2>5. Same(p, q) /\ Written(p, q)
    BY <2>2, <2>4, Zenon DEF Same, Written
  <2>. QED
    BY <2>1, <2>2, <2>3, <2>5
<1>. QED
  BY <1>1, <1>2

\* A response that is destroyed is not open any more; nobody is told of it yet.
LEMMA DestroyFacts ==
  ASSUME NEW q \in Handler
  PROVE  LET p == Destroy(q)
         IN  /\ p \in Handler /\ Same(p, q) /\ Written(p, q) /\ p.started = q.started
             /\ p.pc = q.pc /\ p.t = q.t /\ p.lines = q.lines
             /\ p.conn = (IF q.conn = "open" THEN "destroyed" ELSE q.conn)
             /\ p.aborted = q.aborted /\ p.signal = q.signal /\ p.upstream = q.upstream
<1>. DEFINE c == IF q.conn = "open" THEN "destroyed" ELSE q.conn
            p == [q EXCEPT !.conn = c]
<1>1. Destroy(q) = p
  BY Zenon DEF Destroy
<1>2. c \in {"open", "ended", "flushed", "closed", "destroyed", "cut"}
  BY DEF Handler
<1>. HIDE DEF c
<1>3. /\ p \in Handler /\ p.started = q.started /\ p.pc = q.pc /\ p.t = q.t /\ p.lines = q.lines
      /\ p.conn = c /\ p.aborted = q.aborted /\ p.signal = q.signal /\ p.upstream = q.upstream
  BY <1>2 DEF Handler
<1>4. Same(p, q) /\ Written(p, q)
  BY DEF Handler, Same, Written
<1>. HIDE DEF p
<1>. QED
  BY <1>1, <1>3, <1>4 DEF c
-----------------------------------------------------------------------------
(* A handler that reads the upstream's answer.                             *)

Halted(q) == q.signal => q.upstream \notin {"asked", "open"}

Shaped(q) == q.seen.formed /\ (q.protocol # "chat" /\ q.seen.next > 0 => q.seen.begun)

\* What the gateway has seen is as far as the translator, which it follows.
Tracks(q) ==
  \E b, x \in BOOLEAN :
    /\ Going(q.seen, OpenOf(q.t), q.t.next, b, x)
    /\ q.protocol # "chat" => (b <=> q.started)
    /\ q.protocol = "messages" /\ q.t.error => x

Engaged(q) ==
  /\ q.head = (IF q.started THEN "ok" ELSE "none")
  /\ q.conn \notin {"ended", "flushed"}
  /\ q.aborted => q.signal /\ q.conn \in {"closed", "destroyed"}
  /\ Halted(q) /\ Shaped(q)
  /\ q.started => q.stream
  /\ ~q.started => q.seen = Unseen
  /\ q.stream /\ ~q.started => q.t.block = "none" /\ q.t.next = 0 /\ (q.protocol = "messages" => ~q.t.error)
  /\ q.sawError => q.t.error
  /\ q.protocol = "responses" /\ q.t.finish => q.sawFinish
  /\ q.protocol = "responses" /\ q.stream => (q.t.created <=> q.started)
  /\ q.protocol = "chat" /\ q.stream => q.t.block = "none"
  /\ q.stream /\ q.conn = "open" => Tracks(q)

\* The frames fs take the view to where the locals u are.
Leads(q, u, fs) ==
  /\ u \in Locals
  /\ q.conn = "open" =>
       \E b, x \in BOOLEAN :
         /\ Going(Push(q.seen, fs), OpenOf(u), u.next, b, x)
         /\ q.protocol # "chat" => (b <=> (q.started \/ fs # <<>>))
         /\ q.protocol = "messages" /\ u.error => x
  /\ ~q.started /\ fs = <<>> => u.block = "none" /\ u.next = 0 /\ (q.protocol = "messages" => ~u.error)
  /\ q.protocol = "responses" => (u.created <=> (q.started \/ fs # <<>>))
  /\ q.protocol = "chat" => u.block = "none"

\* What reading leaves alone.
Steady(p, q) ==
  /\ p.pc = q.pc /\ p.protocol = q.protocol /\ p.stream = q.stream /\ p.slot = q.slot
  /\ p.cause = q.cause /\ p.upstream = q.upstream /\ p.conn = q.conn /\ p.lines = q.lines
  /\ p.aborted = q.aborted /\ p.signal = q.signal /\ p.tailError = q.tailError

\* What the translator calls for is written, and the handler goes on as before.
LEMMA LeadsOn ==
  ASSUME NEW q \in Handler, Engaged(q), q.stream, NEW m \in Handler, NEW u, NEW fs, Leads(q, u, fs),
         Steady(m, q), Written(m, q), m.started = q.started, m.t = u,
         m.sawError => u.error, q.protocol = "responses" /\ u.finish => m.sawFinish
  PROVE  LET p == Write(m, fs) IN p \in Handler /\ Engaged(p) /\ Steady(p, q) /\ p.sawError = m.sawError
<1>. DEFINE p == Write(m, fs)
<1>1. m.conn = "open" => Push(m.seen, fs) \in View
  BY DEF Leads, Going, Steady, Written
<1>2. /\ p \in Handler /\ Same(p, m) /\ (p.started <=> (q.started \/ fs # <<>>))
      /\ p.pc = m.pc /\ p.t = m.t /\ p.lines = m.lines /\ p.conn = m.conn
      /\ p.aborted = m.aborted /\ p.signal = m.signal /\ p.upstream = m.upstream
      /\ p.head = (IF fs # <<>> /\ m.head = "none" THEN "ok" ELSE m.head)
      /\ p.seen = (IF m.conn = "open" THEN Push(m.seen, fs) ELSE m.seen)
  <2>1. CASE fs = <<>>
    <3>1. p = m
      BY <2>1 DEF Write
    <3>2. Push(m.seen, fs) = m.seen
      BY <2>1, PushNothing
    <3>. QED
      BY <2>1, <3>1, <3>2 DEF Same
  <2>2. CASE fs # <<>>
    BY <1>1, <2>2, WriteFacts
  <2>. QED
    BY <2>1, <2>2
<1>. HIDE DEF p
<1>3. Steady(p, q) /\ p.seen = (IF q.conn = "open" THEN Push(q.seen, fs) ELSE q.seen) /\ p.t = u
  BY <1>2 DEF Steady, Same, Written
<1>4. q.conn = "open" => Tracks(p)
  BY <1>2, <1>3 DEF Leads, Tracks, Steady
<1>5. Shaped(p)
  <2>1. CASE q.conn = "open"
    <3>1. PICK b \in BOOLEAN, x \in BOOLEAN :
            /\ Going(p.seen, OpenOf(p.t), p.t.next, b, x)
            /\ p.protocol # "chat" => (b <=> p.started)
      BY <1>4, <2>1 DEF Tracks
    <3>2. ~p.started => p.t.next = 0
      BY <1>2, <1>3 DEF Leads
    <3>. QED
      BY <3>1, <3>2 DEF Going, Shaped
  <2>2. CASE q.conn # "open"
    BY <1>3, <2>2 DEF Engaged, Shaped, Steady
  <2>. QED
    BY <2>1, <2>2
<1>6. Engaged(p)
  <2>1. p.head = (IF p.started THEN "ok" ELSE "none")
    BY <1>2 DEF Engaged, Written
  <2>2. p.conn \notin {"ended", "flushed"} /\ (p.aborted => p.signal /\ p.conn \in {"closed", "destroyed"}) /\ Halted(p)
    BY <1>3 DEF Engaged, Steady, Halted
  <2>3. ~p.started => p.seen = Unseen
    <3>1. ~p.started => fs = <<>> /\ ~q.started
      BY <1>2
    <3>2. Push(q.seen, <<>>) = q.seen
      BY PushNothing
    <3>. QED
      BY <1>3, <3>1, <3>2 DEF Engaged
  <2>4. /\ p.stream /\ ~p.started => p.t.block = "none" /\ p.t.next = 0 /\ (p.protocol = "messages" => ~p.t.error)
        /\ p.protocol = "responses" /\ p.stream => (p.t.created <=> p.started)
        /\ p.protocol = "chat" /\ p.stream => p.t.block = "none"
    BY <1>2, <1>3 DEF Leads, Steady
  <2>5. (p.sawError => p.t.error) /\ (p.protocol = "responses" /\ p.t.finish => p.sawFinish) /\ p.stream
    BY <1>2, <1>3 DEF Same, Steady
  <2>. QED
    BY <1>3, <1>4, <1>5, <2>1, <2>2, <2>3, <2>4, <2>5 DEF Engaged, Steady
<1>. QED
  BY <1>2, <1>3, <1>6 DEF p, Same

\* A line of each protocol, in a stream.
LEMMA ChatLeads ==
  ASSUME NEW q \in Handler, Engaged(q), q.stream, q.protocol = "chat", NEW e \in Lines
  PROVE  LET r == ChatLine(q.t, e) IN Leads(q, r.t, r.frames) /\ Marks(q.t, r.t, e)
<1>. DEFINE r == ChatLine(q.t, e)
<1>1. q.t \in Locals /\ q.t.block = "none"
  BY DEF Handler, Engaged
<1>2. r.t \in Locals /\ Marks(q.t, r.t, e) /\ r.t.block = q.t.block /\ r.t.next = q.t.next
  BY <1>1, ChatLineKeeps
<1>3. q.conn = "open" => \E b, x \in BOOLEAN : Going(Push(q.seen, r.frames), -1, q.t.next, b, x)
  <2>1. SUFFICES ASSUME q.conn = "open" PROVE \E b, x \in BOOLEAN : Going(Push(q.seen, r.frames), -1, q.t.next, b, x)
    OBVIOUS
  <2>2. PICK b \in BOOLEAN, x \in BOOLEAN : Going(q.seen, OpenOf(q.t), q.t.next, b, x)
    BY <2>1 DEF Engaged, Tracks
  <2>3. Going(q.seen, -1, q.t.next, b, x)
    BY <1>1, <2>2 DEF OpenOf
  <2>. QED
    BY <1>1, <2>3, ChatLineGoes
<1>. HIDE DEF r
<1>4. Leads(q, r.t, r.frames)
  BY <1>1, <1>2, <1>3 DEF Leads, OpenOf, Engaged
<1>. QED
  BY <1>2, <1>4 DEF r

\* What a handler of the Messages protocol writes first.
Headed(q, fs) == IF q.protocol = "messages" /\ ~q.started /\ fs # <<>> THEN <<Frame("begin")>> \o fs ELSE fs

\* A view before message_start, and after it.
LEMMA BeginGoes ==
  ASSUME NEW v, NEW k, NEW n, NEW x \in BOOLEAN, Going(v, k, n, FALSE, x), NEW fs \in Seq(Frames)
  PROVE  /\ Going(Push(v, <<Frame("begin")>>), k, n, TRUE, x)
         /\ Push(v, <<Frame("begin")>> \o fs) = Push(Push(v, <<Frame("begin")>>), fs)
<1>. DEFINE f == Frame("begin")
<1>1. f \in Frames
  BY FrameTypes DEF Types
<1>2. Going(Step(v, f), k, n, TRUE, x)
  BY GoBegin
<1>. HIDE DEF f
<1>3. <<f>> \in Seq(Frames) /\ Push(v, <<f>>) = Step(v, f)
  BY <1>1, PushOne
<1>4. \A gs \in Seq(Frames) : Push(v, gs \o fs) = Push(Push(v, gs), fs)
  BY BothFrames
<1>. QED
  BY <1>2, <1>3, <1>4 DEF f

\* A line of a Messages stream, which the message_start goes ahead of.
LEMMA MessagesLeads ==
  ASSUME NEW q \in Handler, Engaged(q), q.stream, q.protocol = "messages", NEW e \in Lines
  PROVE  LET r == MessagesLine(q.t, e) IN Leads(q, r.t, Headed(q, r.frames)) /\ Marks(q.t, r.t, e)
<1>. DEFINE r  == MessagesLine(q.t, e)
            u  == r.t
            gs == r.frames
            fs == Headed(q, gs)
            k  == OpenOf(q.t)
            n  == q.t.next
<1>1. q.t \in Locals
  BY DEF Handler
<1>2. /\ u \in Locals /\ gs \in Seq(Frames) /\ Marks(q.t, u, e)
      /\ gs = <<>> => e # "error" /\ u.block = q.t.block /\ u.next = n /\ u.index = q.t.index
      /\ \A v : \A b, x \in BOOLEAN :
           Going(v, k, n, b, x) =>
             \E y \in BOOLEAN : /\ Going(Push(v, gs), OpenOf(u), u.next, b, y)
                                /\ (e = "error" => y) /\ (e # "error" => y = x)
  BY <1>1, MessagesLineGoes
<1>. HIDE DEF r
<1>3. /\ fs = <<>> <=> gs = <<>>
      /\ q.started \/ gs = <<>> => fs = gs
      /\ ~q.started /\ gs # <<>> => fs = <<Frame("begin")>> \o gs
  <2>1. <<Frame("begin")>> \o gs # <<>>
    BY <1>2
  <2>. QED
    BY <2>1 DEF Headed
<1>4. ASSUME q.conn = "open"
      PROVE  \E b, x \in BOOLEAN :
               /\ Going(Push(q.seen, fs), OpenOf(u), u.next, b, x)
               /\ b <=> (q.started \/ fs # <<>>)
               /\ u.error => x
  <2>1. PICK b \in BOOLEAN, x \in BOOLEAN : Going(q.seen, k, n, b, x) /\ (b <=> q.started) /\ (q.t.error => x)
    BY <1>4 DEF Engaged, Tracks
  <2>2. u.error /\ e # "error" => q.t.error
    BY <1>2 DEF Marks
  <2>. HIDE DEF k, n, u, gs, fs
  <2>3. CASE q.started \/ gs = <<>>
    <3>1. PICK y \in BOOLEAN : /\ Going(Push(q.seen, gs), OpenOf(u), u.next, b, y)
                               /\ (e = "error" => y) /\ (e # "error" => y = x)
      BY <1>2, <2>1
    <3>2. u.error => y
      BY <2>1, <2>2, <3>1
    <3>. QED
      BY <1>3, <2>1, <2>3, <3>1, <3>2
  <2>4. CASE ~q.started /\ gs # <<>>
    <3>. DEFINE w == Push(q.seen, <<Frame("begin")>>)
    <3>1. Going(q.seen, k, n, FALSE, x)
      BY <2>1, <2>4
    <3>2. Going(w, k, n, TRUE, x) /\ Push(q.seen, fs) = Push(w, gs)
      <4>1. gs \in Seq(Frames)
        BY <1>2
      <4>2. Going(w, k, n, TRUE, x) /\ Push(q.seen, <<Frame("begin")>> \o gs) = Push(w, gs)
        BY <3>1, <4>1, BeginGoes
      <4>. QED
        BY <1>3, <2>4, <4>2
    <3>. HIDE DEF w
    <3>3. PICK y \in BOOLEAN : /\ Going(Push(w, gs), OpenOf(u), u.next, TRUE, y)
                               /\ (e = "error" => y) /\ (e # "error" => y = x)
      BY <1>2, <3>2
    <3>4. u.error => y
      BY <2>1, <2>2, <3>3
    <3>. QED
      BY <1>3, <2>4, <3>2, <3>3, <3>4
  <2>. QED
    BY <2>3, <2>4
<1>5. ASSUME ~q.started, fs = <<>> PROVE u.block = "none" /\ u.next = 0 /\ ~u.error
  <2>1. gs = <<>> /\ q.t.block = "none" /\ n = 0 /\ ~q.t.error
    BY <1>3, <1>5 DEF Engaged
  <2>. QED
    BY <1>2, <2>1 DEF Marks
<1>. HIDE DEF u, gs, fs
<1>6. Leads(q, u, fs)
  BY <1>2, <1>4, <1>5 DEF Leads
<1>. QED
  BY <1>2, <1>6 DEF r, u, gs, fs

\* A line of a Responses stream, which begins with its first frames.
LEMMA ResponsesLeads ==
  ASSUME NEW q \in Handler, Engaged(q), q.stream, q.protocol = "responses", NEW e \in Lines
  PROVE  LET r == ResponsesLine(q.t, e)
         IN  Leads(q, r.t, r.frames) /\ Marks(q.t, r.t, e) /\ (r.t.finish => q.t.finish \/ e \in Finishes)
<1>. DEFINE r  == ResponsesLine(q.t, e)
            u  == r.t
            fs == r.frames
            k  == OpenOf(q.t)
            n  == q.t.next
<1>1. q.t \in Locals /\ (q.t.created <=> q.started) /\ (q.t.block # "none" => q.t.created)
  BY DEF Handler, Engaged
<1>2. /\ u \in Locals /\ fs \in Seq(Frames) /\ Marks(q.t, u, e)
      /\ u.finish => q.t.finish \/ e \in Finishes
      /\ fs = <<>> => u.created = q.t.created /\ u.block = q.t.block /\ u.next = n /\ u.index = q.t.index
      /\ fs # <<>> => u.created
      /\ \A v : \A x \in BOOLEAN : Going(v, k, n, q.t.created, x) => Going(Push(v, fs), OpenOf(u), u.next, u.created, x)
  BY <1>1, ResponsesLineGoes
<1>. HIDE DEF r, u, fs
<1>3. u.created <=> (q.started \/ fs # <<>>)
  <2>1. CASE fs = <<>>
    BY <1>1, <1>2, <2>1
  <2>2. CASE fs # <<>>
    BY <1>2, <2>2
  <2>. QED
    BY <2>1, <2>2
<1>4. ASSUME q.conn = "open"
      PROVE  \E b, x \in BOOLEAN :
               Going(Push(q.seen, fs), OpenOf(u), u.next, b, x) /\ (b <=> (q.started \/ fs # <<>>))
  <2>1. PICK b \in BOOLEAN, x \in BOOLEAN : Going(q.seen, k, n, b, x) /\ (b <=> q.started)
    BY <1>4 DEF Engaged, Tracks
  <2>2. b = q.t.created /\ u.created \in BOOLEAN
    BY <1>1, <1>2, <2>1 DEF Locals
  <2>. HIDE DEF k, n
  <2>3. Going(q.seen, k, n, q.t.created, x)
    BY <2>1, <2>2
  <2>4. Going(Push(q.seen, fs), OpenOf(u), u.next, u.created, x)
    BY <1>2, <2>3
  <2>. QED
    BY <1>3, <2>2, <2>4
<1>5. ASSUME ~q.started, fs = <<>> PROVE u.block = "none" /\ u.next = 0
  BY <1>1, <1>2, <1>5 DEF Engaged
<1>6. Leads(q, u, fs)
  BY <1>2, <1>3, <1>4, <1>5 DEF Leads
<1>. QED
  BY <1>2, <1>6 DEF r, u, fs

\* A line is taken: the handler goes on, and knows of an error and of a finish.
LEMMA TakeGoes ==
  ASSUME NEW q \in Handler, Engaged(q), NEW e \in Lines
  PROVE  LET p == Take(q, e) IN p \in Handler /\ Engaged(p) /\ Steady(p, q) /\ (e = "error" => p.sawError)
<1>1. PICK a \in BOOLEAN : a = (q.sawError \/ e = "error")
  BY Zenon
<1>2. PICK z \in BOOLEAN : z = (q.sawFinish \/ e \in Finishes)
  BY Zenon
<1>. DEFINE saw == [q EXCEPT !.sawError = a, !.sawFinish = z]
            r   == Translate(q, e)
<1>3. Take(q, e) = IF q.stream THEN WriteEvents([saw EXCEPT !.t = r.t], r.frames)
                   ELSE [saw EXCEPT !.t = Collect(q, e)]
  BY <1>1, <1>2, Zenon DEF Take
<1>4. ASSUME NEW u \in Locals
      PROVE  LET m == [saw EXCEPT !.t = u]
             IN  /\ m \in Handler /\ Steady(m, q) /\ Written(m, q) /\ m.started = q.started /\ m.t = u
                 /\ m.sawError = a /\ m.sawFinish = z
  BY DEF Handler, Steady, Written
<1>5. q.t \in Locals
  BY DEF Handler
<1>. HIDE DEF saw
<1>6. ASSUME NEW u, Marks(q.t, u, e) PROVE a => u.error
  <2>1. CASE e = "error"
    BY <1>6, <2>1 DEF Marks
  <2>2. CASE e # "error"
    <3>1. a => q.sawError
      BY <1>1, <2>2, Zenon
    <3>. QED
      BY <1>6, <2>2, <3>1 DEF Marks, Engaged
  <2>. QED
    BY <2>1, <2>2
<1>7. ASSUME NEW u, q.protocol = "responses", u.finish => q.t.finish \/ e \in Finishes PROVE u.finish => z
  <2>1. q.t.finish => q.sawFinish
    BY <1>7 DEF Engaged
  <2>. QED
    BY <1>2, <1>7, <2>1, Zenon
<1>10. e = "error" => a
  BY <1>1, Zenon
<1>8. CASE q.stream
  <2>. DEFINE fs == Headed(q, r.frames)
              m  == [saw EXCEPT !.t = r.t]
  <2>1. Leads(q, r.t, fs) /\ Marks(q.t, r.t, e) /\ (q.protocol = "responses" => (r.t.finish => q.t.finish \/ e \in Finishes))
    <3>1. CASE q.protocol = "chat"
      <4>1. r = ChatLine(q.t, e) /\ \A gs : Headed(q, gs) = gs
        BY <3>1 DEF Translate, Headed
      <4>. HIDE DEF r
      <4>. QED
        BY <1>8, <3>1, <4>1, ChatLeads
    <3>2. CASE q.protocol = "messages"
      <4>1. r = MessagesLine(q.t, e)
        BY <3>2 DEF Translate
      <4>. HIDE DEF r
      <4>. QED
        BY <1>8, <3>2, <4>1, MessagesLeads
    <3>3. CASE q.protocol = "responses"
      <4>1. r = ResponsesLine(q.t, e) /\ \A gs : Headed(q, gs) = gs
        BY <3>3 DEF Translate, Headed
      <4>. HIDE DEF r
      <4>. QED
        BY <1>8, <3>3, <4>1, ResponsesLeads
    <3>. QED
      BY <3>1, <3>2, <3>3 DEF Handler, Protocols
  <2>. HIDE DEF r
  <2>2. r.t \in Locals
    BY <2>1 DEF Leads
  <2>3. /\ m \in Handler /\ Steady(m, q) /\ Written(m, q) /\ m.started = q.started /\ m.t = r.t
        /\ m.sawError = a /\ m.sawFinish = z
    BY <1>4, <2>2
  <2>. HIDE DEF m
  <2>4. Take(q, e) = Write(m, fs)
    <3>1. Take(q, e) = WriteEvents(m, r.frames)
      BY <1>3, <1>8 DEF m
    <3>2. WriteEvents(m, r.frames) = Write(m, fs)
      BY <2>3 DEF WriteEvents, Headed, Steady
    <3>. QED
      BY <3>1, <3>2
  <2>5. (m.sawError => r.t.error) /\ (q.protocol = "responses" /\ r.t.finish => m.sawFinish)
    BY <1>6, <1>7, <2>1, <2>3
  <2>. HIDE DEF fs
  <2>6. LET p == Write(m, fs) IN p \in Handler /\ Engaged(p) /\ Steady(p, q) /\ p.sawError = m.sawError
    BY <1>8, <2>1, <2>3, <2>5, LeadsOn
  <2>7. e = "error" => m.sawError
    BY <1>10, <2>3
  <2>. QED
    BY <2>4, <2>6, <2>7
<1>9. CASE ~q.stream
  <2>. DEFINE u == Collect(q, e)
              p == [saw EXCEPT !.t = u]
  <2>1. u \in Locals /\ Marks(q.t, u, e) /\ (q.protocol = "responses" => (u.finish => q.t.finish \/ e \in Finishes))
    <3>1. /\ q.protocol = "chat" => u = ChatCollect(q.t, e)
          /\ q.protocol = "messages" => u = MessagesCollect(q.t, e)
          /\ q.protocol = "responses" => u = ResponsesCollect(q.t, e)
      BY DEF Collect
    <3>2. q.protocol \in {"chat", "messages", "responses"}
      BY DEF Handler, Protocols
    <3>. HIDE DEF u
    <3>. QED
      BY <1>5, <3>1, <3>2, CollectKeeps
  <2>. HIDE DEF u
  <2>2. /\ p \in Handler /\ Steady(p, q) /\ Written(p, q) /\ p.started = q.started /\ p.t = u
        /\ p.sawError = a /\ p.sawFinish = z
    BY <1>4, <2>1
  <2>. HIDE DEF p
  <2>3. (p.sawError => u.error) /\ (q.protocol = "responses" /\ u.finish => p.sawFinish)
    BY <1>6, <1>7, <2>1, <2>2
  <2>4. Engaged(p)
    BY <1>9, <2>2, <2>3 DEF Engaged, Steady, Written, Halted, Shaped
  <2>5. Take(q, e) = p
    BY <1>3, <1>9 DEF p, u
  <2>. QED
    BY <1>10, <2>2, <2>4, <2>5
<1>. QED
  BY <1>8, <1>9
-----------------------------------------------------------------------------
(* A handler that is done.                                                 *)

\* What the gateway has seen is no success, or it is one.
Earned(q) ==
  \/ q.seen.failure
  \/ ~q.seen.output
  \/ /\ q.cause = "end" /\ ~q.sawError /\ (q.tailError => DropsTail(q))
     /\ q.protocol = "responses" => q.sawFinish

Honest(q) == q.conn \in {"ended", "flushed"} /\ q.head = "ok" => Earned(q)

Stopped(q) == Halted(q) /\ (~Abandons(q) => q.upstream \notin {"asked", "open"})

Finished(q) ==
  /\ q.pc = "done" /\ q.head # "clash" /\ q.lines = 0
  /\ Stopped(q) /\ Shaped(q) /\ Honest(q)

\* What becomes of the connection and the place, whatever a handler does.
Moves(p, q) ==
  /\ p.slot = q.slot
  /\ p.conn = q.conn \/ p.conn \in {"ended", "destroyed", "cut"}

\* What is told of the statements that do not write.
Alike(p, q) ==
  /\ Same(p, q) /\ Written(p, q) /\ p.started = q.started
  /\ p.pc = q.pc /\ p.t = q.t /\ p.lines = q.lines

\* The stream is one that may be broken off at any time.
Live(q) ==
  q.conn = "open" =>
    \E k \in Int, n \in Nat : \E b, x \in BOOLEAN :
      Going(q.seen, k, n, b, x) /\ (q.protocol # "chat" /\ n > 0 => b)

\* A handler whose head was not written may answer with an error.
LEMMA FailEnds ==
  ASSUME NEW q \in Handler, q.head = "none", Stopped(q), Shaped(q)
  PROVE  Fail(q) \in Handler /\ Finished(Fail(q)) /\ Moves(Fail(q), q)
<1>. DEFINE p == Fail(q)
<1>1. /\ p \in Handler /\ Same(p, q)
      /\ p.pc = "done" /\ p.lines = 0 /\ p.conn = Shut(q.conn)
      /\ p.signal = q.signal /\ p.upstream = q.upstream
      /\ p.head = "error" /\ p.seen = q.seen
  BY FailFacts
<1>. HIDE DEF p
<1>2. Finished(p) /\ Moves(p, q)
  BY <1>1 DEF Finished, Stopped, Abandons, Halted, Shaped, Honest, Moves, Same, Shut
<1>. QED
  BY <1>1, <1>2 DEF p

\* A response is ended, and what the gateway has seen of it was earned.
LEMMA EndEnds ==
  ASSUME NEW q \in Handler, q.head # "clash", q.conn \notin {"ended", "flushed"}, Stopped(q), Shaped(q),
         q.conn = "open" /\ q.head = "ok" => Earned(q)
  PROVE  End(q) \in Handler /\ Finished(End(q)) /\ Moves(End(q), q)
<1>. DEFINE p == End(q)
<1>1. /\ p \in Handler /\ Same(p, q) /\ Written(p, q)
      /\ p.pc = "done" /\ p.lines = 0 /\ p.conn = Shut(q.conn)
      /\ p.signal = q.signal /\ p.upstream = q.upstream
  BY EndFacts
<1>. HIDE DEF p
<1>2. Finished(p) /\ Moves(p, q)
  BY <1>1 DEF Finished, Stopped, Abandons, Halted, Shaped, Honest, Earned, Moves, Same, Written, Shut, DropsTail
<1>. QED
  BY <1>1, <1>2 DEF p

\* A handler returns without an end: the gateway has no response it could log.
LEMMA ReturnEnds ==
  ASSUME NEW q \in Handler, q.head # "clash", q.conn \notin {"ended", "flushed"}, Stopped(q), Shaped(q)
  PROVE  Return(q) \in Handler /\ Finished(Return(q)) /\ Moves(Return(q), q)
<1>. DEFINE p == Return(q)
<1>1. /\ p \in Handler /\ Same(p, q) /\ Written(p, q)
      /\ p.pc = "done" /\ p.lines = 0 /\ p.conn = q.conn
      /\ p.signal = q.signal /\ p.upstream = q.upstream
  BY ReturnFacts
<1>. HIDE DEF p
<1>2. Finished(p) /\ Moves(p, q)
  BY <1>1 DEF Finished, Stopped, Abandons, Halted, Shaped, Honest, Moves, Same, Written
<1>. QED
  BY <1>1, <1>2 DEF p

\* An answer in one piece.
LEMMA AnswerEnds ==
  ASSUME NEW q \in Handler, q.head = "none", q.conn \notin {"ended", "flushed"}, Stopped(q), q.seen = Unseen,
         q.conn = "open" => /\ q.cause = "end" /\ ~q.sawError /\ (q.tailError => DropsTail(q))
                            /\ q.protocol = "responses" => q.sawFinish
  PROVE  Answer(q) \in Handler /\ Finished(Answer(q)) /\ Moves(Answer(q), q)
<1>. DEFINE y == IF q.t.reason = "length" THEN "finish_length" ELSE "finish"
            f == [Frame(y) EXCEPT !.full = q.t.output]
            p == Answer(q)
<1>2. f \in Frames /\ f.type = y
  <2>1. q.t.output \in BOOLEAN
    BY DEF Handler, Locals
  <2>2. y \in Types /\ f = [type |-> y, index |-> 0, full |-> q.t.output]
    BY DEF Types, Frame
  <2>. HIDE DEF y
  <2>. QED
    BY <2>1, <2>2 DEF Frames
<1>3. f.type # "start" /\ f.type \in {"finish", "finish_length"}
  BY <1>2
<1>. HIDE DEF f, y
<1>4. Unseen \in View /\ Unseen.open = -1 /\ Unseen.formed /\ ~Unseen.over /\ Unseen.next = 0
  BY FrameTypes DEF Unseen
<1>. DEFINE w == Step(Unseen, f)
<1>5. w \in View /\ w.formed = (Unseen.formed /\ Follows(Unseen, f)) /\ w.next = Unseen.next
  BY <1>2, <1>3, <1>4, StepFields
<1>6. Follows(Unseen, f)
  BY <1>3, <1>4 DEF Follows
<1>. HIDE DEF w
<1>7. Push(q.seen, <<f>>) = w
  BY PushOne DEF w
<1>8. p = Json(q, "ok", <<f>>)
  BY DEF Answer, f, y
<1>9. /\ p \in Handler /\ Same(p, q)
      /\ p.pc = "done" /\ p.lines = 0 /\ p.conn = Shut(q.conn)
      /\ p.signal = q.signal /\ p.upstream = q.upstream
      /\ p.head = "ok" /\ p.seen = (IF q.conn = "open" THEN w ELSE q.seen)
  BY <1>5, <1>7, <1>8, JsonFacts
<1>. HIDE DEF p
<1>10. Shaped(p)
  <2>1. p.seen.formed /\ p.seen.next = 0
    BY <1>4, <1>5, <1>6, <1>9
  <2>. QED
    BY <2>1 DEF Shaped
<1>11. Finished(p) /\ Moves(p, q)
  BY <1>9, <1>10 DEF Finished, Stopped, Abandons, Halted, Honest, Earned, Moves, Same, Shut, DropsTail
<1>. QED
  BY <1>9, <1>11 DEF p

\* A stream whose handler is engaged is live, and may be broken off.
LEMMA EngagedLives ==
  ASSUME NEW q \in Handler, Engaged(q), q.stream
  PROVE  Live(q)
<1>1. SUFFICES ASSUME q.conn = "open"
      PROVE  \E k \in Int, n \in Nat : \E b, x \in BOOLEAN :
               Going(q.seen, k, n, b, x) /\ (q.protocol # "chat" /\ n > 0 => b)
  BY DEF Live
<1>2. PICK b \in BOOLEAN, x \in BOOLEAN :
        Going(q.seen, OpenOf(q.t), q.t.next, b, x) /\ (q.protocol # "chat" => (b <=> q.started))
  BY <1>1 DEF Engaged, Tracks
<1>3. OpenOf(q.t) \in Int /\ q.t.next \in Nat
  BY LocalsTypes DEF Handler, Locals
<1>4. q.protocol # "chat" /\ q.t.next > 0 => b
  <2>1. ~q.started => q.t.next = 0
    BY DEF Engaged
  <2>. QED
    BY <1>2, <2>1
<1>. QED
  BY <1>2, <1>3, <1>4

\* The last frames of a stream.
LEMMA LastWrite ==
  ASSUME NEW q \in Handler, NEW fs, Shaped(q), q.head \in {"none", "ok"},
         q.conn = "open" =>
           \E n \in Nat : \E b, x \in BOOLEAN :
             Over(Push(q.seen, fs), n, b, x) /\ (q.protocol # "chat" /\ n > 0 => b)
  PROVE  LET p == Write(q, fs)
         IN  /\ p \in Handler /\ Same(p, q) /\ Shaped(p) /\ p.head \in {"none", "ok"}
             /\ p.pc = q.pc /\ p.conn = q.conn /\ p.t = q.t
             /\ p.aborted = q.aborted /\ p.signal = q.signal /\ p.upstream = q.upstream
             /\ p.seen = (IF q.conn = "open" THEN Push(q.seen, fs) ELSE q.seen)
<1>. DEFINE p == Write(q, fs)
<1>1. /\ p \in Handler /\ Same(p, q) /\ p.head \in {"none", "ok"}
      /\ p.pc = q.pc /\ p.conn = q.conn /\ p.t = q.t
      /\ p.aborted = q.aborted /\ p.signal = q.signal /\ p.upstream = q.upstream
      /\ p.seen = (IF q.conn = "open" THEN Push(q.seen, fs) ELSE q.seen)
  <2>1. CASE fs = <<>>
    <3>1. p = q
      BY <2>1 DEF Write
    <3>2. Push(q.seen, fs) = q.seen
      BY <2>1, PushNothing
    <3>. QED
      BY <3>1, <3>2 DEF Same
  <2>2. CASE fs # <<>>
    <3>1. q.conn = "open" => Push(q.seen, fs) \in View
      BY DEF Over
    <3>. QED
      BY <2>2, <3>1, WriteFacts
  <2>. QED
    BY <2>1, <2>2
<1>. HIDE DEF p
<1>2. Shaped(p)
  <2>1. CASE q.conn = "open"
    BY <1>1, <2>1 DEF Shaped, Over, Same
  <2>2. CASE q.conn # "open"
    BY <1>1, <2>2 DEF Shaped, Same
  <2>. QED
    BY <2>1, <2>2
<1>. QED
  BY <1>1, <1>2 DEF p

\* An error is the last frame.
LEMMA ErrorWrite ==
  ASSUME NEW q \in Handler, Live(q), Shaped(q), q.head \in {"none", "ok"}
  PROVE  LET p == Write(q, <<Frame("error")>>)
         IN  /\ p \in Handler /\ Same(p, q) /\ Shaped(p) /\ p.head \in {"none", "ok"}
             /\ p.pc = q.pc /\ p.conn = q.conn
             /\ p.aborted = q.aborted /\ p.signal = q.signal /\ p.upstream = q.upstream
             /\ q.conn = "open" => p.seen.failure
<1>. DEFINE fs == <<Frame("error")>>
<1>1. ASSUME q.conn = "open"
      PROVE  \E n \in Nat : \E b \in BOOLEAN :
               Over(Push(q.seen, fs), n, b, TRUE) /\ (q.protocol # "chat" /\ n > 0 => b)
  <2>1. PICK k \in Int, n \in Nat : \E b, x \in BOOLEAN :
               Going(q.seen, k, n, b, x) /\ (q.protocol # "chat" /\ n > 0 => b)
    BY <1>1 DEF Live
  <2>2. PICK b \in BOOLEAN, x \in BOOLEAN :
               Going(q.seen, k, n, b, x) /\ (q.protocol # "chat" /\ n > 0 => b)
    BY <2>1
  <2>3. Going(Step(q.seen, Frame("error")), k, n, b, TRUE)
    BY <2>2, GoError
  <2>4. Over(Push(q.seen, fs), n, b, TRUE)
    BY <2>3, PushOne DEF Going, Over
  <2>. QED
    BY <2>2, <2>4
<1>. HIDE DEF fs
<1>2. LET p == Write(q, fs)
      IN  /\ p \in Handler /\ Same(p, q) /\ Shaped(p) /\ p.head \in {"none", "ok"}
          /\ p.pc = q.pc /\ p.conn = q.conn
          /\ p.aborted = q.aborted /\ p.signal = q.signal /\ p.upstream = q.upstream
          /\ p.seen = (IF q.conn = "open" THEN Push(q.seen, fs) ELSE q.seen)
  BY <1>1, LastWrite
<1>3. q.conn = "open" => Push(q.seen, fs).failure
  BY <1>1 DEF Over
<1>. QED
  BY <1>2, <1>3 DEF fs

\* A stream ends with an error ...
LEMMA ErrorEnds ==
  ASSUME NEW q \in Handler, Live(q), Shaped(q), Stopped(q), q.head \in {"none", "ok"},
         q.conn \notin {"ended", "flushed"}
  PROVE  LET r == End(Write(q, <<Frame("error")>>)) IN r \in Handler /\ Finished(r) /\ Moves(r, q)
<1>. DEFINE p == Write(q, <<Frame("error")>>)
<1>1. /\ p \in Handler /\ Same(p, q) /\ Shaped(p) /\ p.head \in {"none", "ok"}
      /\ p.conn = q.conn /\ p.signal = q.signal /\ p.upstream = q.upstream
      /\ q.conn = "open" => p.seen.failure
  BY ErrorWrite
<1>. HIDE DEF p
<1>2. Stopped(p) /\ (p.conn = "open" /\ p.head = "ok" => Earned(p))
  BY <1>1 DEF Stopped, Abandons, Halted, Earned, Same
<1>3. End(p) \in Handler /\ Finished(End(p)) /\ Moves(End(p), p)
  BY <1>1, <1>2, EndEnds
<1>4. Moves(End(p), q)
  BY <1>1, <1>3 DEF Moves, Same
<1>. QED
  BY <1>3, <1>4 DEF p

\* ... or its connection is cut.
LEMMA DestroyEnds ==
  ASSUME NEW q \in Handler, Live(q), Shaped(q), Stopped(q), q.head \in {"none", "ok"},
         q.conn \notin {"ended", "flushed"}
  PROVE  LET r == End(Destroy(Write(q, <<Frame("error")>>))) IN r \in Handler /\ Finished(r) /\ Moves(r, q)
<1>. DEFINE p == Write(q, <<Frame("error")>>)
            d == Destroy(p)
<1>1. /\ p \in Handler /\ Same(p, q) /\ Shaped(p) /\ p.head \in {"none", "ok"}
      /\ p.conn = q.conn /\ p.signal = q.signal /\ p.upstream = q.upstream
  BY ErrorWrite
<1>. HIDE DEF p
<1>2. /\ d \in Handler /\ Same(d, p) /\ Written(d, p)
      /\ d.conn = (IF p.conn = "open" THEN "destroyed" ELSE p.conn)
      /\ d.signal = p.signal /\ d.upstream = p.upstream
  BY <1>1, DestroyFacts
<1>. HIDE DEF d
<1>3. Stopped(d) /\ Shaped(d) /\ d.conn # "open" /\ d.conn \notin {"ended", "flushed"} /\ d.head # "clash"
  BY <1>1, <1>2 DEF Stopped, Abandons, Halted, Same, Written, Shaped
<1>4. End(d) \in Handler /\ Finished(End(d)) /\ Moves(End(d), d)
  BY <1>2, <1>3, EndEnds
<1>5. Moves(End(d), q)
  BY <1>1, <1>2, <1>3, <1>4 DEF Moves, Same
<1>. QED
  BY <1>4, <1>5 DEF d, p

\* A handler that stops the upstream's request is otherwise where it was.
Stops(p, q) ==
  /\ p \in Handler /\ Alike(p, q) /\ p.conn = q.conn
  /\ Stopped(p) /\ Shaped(p) /\ (Live(q) => Live(p))

\* abort(), with cancel() before it or not, stops the upstream's request.
LEMMA AbortStops ==
  ASSUME NEW q \in Handler, Shaped(q)
  PROVE  Stops(Abort(q), q) /\ Stops(Abort(Cancel(q)), q)
<1>1. ASSUME NEW p \in Handler, Same(p, q), Written(p, q), p.started = q.started,
             p.pc = q.pc, p.t = q.t, p.lines = q.lines, p.conn = q.conn, p.upstream \notin {"asked", "open"}
      PROVE  Stops(p, q)
  <2>1. Alike(p, q) /\ Stopped(p) /\ Shaped(p)
    BY <1>1 DEF Alike, Stopped, Abandons, Halted, Shaped, Same, Written
  <2>2. Live(q) => Live(p)
    BY <1>1 DEF Live, Same, Written
  <2>. QED
    BY <1>1, <2>1, <2>2 DEF Stops
<1>2. Stops(Abort(q), q)
  <2>. DEFINE p == Abort(q)
  <2>1. /\ p \in Handler /\ Same(p, q) /\ Written(p, q) /\ p.started = q.started
        /\ p.pc = q.pc /\ p.t = q.t /\ p.lines = q.lines /\ p.conn = q.conn
        /\ p.upstream = (IF q.upstream \in {"asked", "open"} THEN "stopped" ELSE q.upstream)
    BY AbortFacts
  <2>. HIDE DEF p
  <2>2. p.upstream \notin {"asked", "open"}
    BY <2>1
  <2>3. Stops(p, q)
    BY <1>1, <2>1, <2>2
  <2>. QED
    BY <2>3 DEF p
<1>3. Stops(Abort(Cancel(q)), q)
  <2>. DEFINE c == Cancel(q)
              p == Abort(c)
  <2>1. /\ c \in Handler /\ Same(c, q) /\ Written(c, q) /\ c.started = q.started
        /\ c.pc = q.pc /\ c.t = q.t /\ c.lines = q.lines /\ c.conn = q.conn
    BY CancelFacts
  <2>. HIDE DEF c
  <2>2. /\ p \in Handler /\ Same(p, c) /\ Written(p, c) /\ p.started = c.started
        /\ p.pc = c.pc /\ p.t = c.t /\ p.lines = c.lines /\ p.conn = c.conn
        /\ p.upstream = (IF c.upstream \in {"asked", "open"} THEN "stopped" ELSE c.upstream)
    BY <2>1, AbortFacts
  <2>. HIDE DEF p
  <2>3. p.upstream \notin {"asked", "open"} /\ Same(p, q) /\ Written(p, q)
    BY <2>1, <2>2 DEF Same, Written
  <2>4. Stops(p, q)
    BY <1>1, <2>1, <2>2, <2>3
  <2>. QED
    BY <2>4 DEF p, c
<1>. QED
  BY <1>2, <1>3

\* The ends there are after it.
LEMMA StoppedEnds ==
  ASSUME NEW q \in Handler, NEW p, Stops(p, q), q.conn \notin {"ended", "flushed"}
  PROVE  /\ q.head = "none" => Fail(p) \in Handler /\ Finished(Fail(p)) /\ Moves(Fail(p), q)
         /\ Live(q) /\ q.head \in {"none", "ok"} =>
              /\ LET r == End(Write(p, <<Frame("error")>>)) IN r \in Handler /\ Finished(r) /\ Moves(r, q)
              /\ LET r == End(Destroy(Write(p, <<Frame("error")>>))) IN r \in Handler /\ Finished(r) /\ Moves(r, q)
<1>1. /\ p \in Handler /\ p.conn = q.conn /\ Stopped(p) /\ Shaped(p) /\ (Live(q) => Live(p))
      /\ p.head = q.head /\ p.slot = q.slot /\ p.conn \notin {"ended", "flushed"}
  BY DEF Stops, Alike, Same, Written
<1>2. \A r : Moves(r, p) => Moves(r, q)
  BY <1>1 DEF Moves
<1>3. q.head = "none" => Fail(p) \in Handler /\ Finished(Fail(p)) /\ Moves(Fail(p), p)
  BY <1>1, FailEnds
<1>4. Live(q) /\ q.head \in {"none", "ok"} =>
        /\ LET r == End(Write(p, <<Frame("error")>>)) IN r \in Handler /\ Finished(r) /\ Moves(r, p)
        /\ LET r == End(Destroy(Write(p, <<Frame("error")>>))) IN r \in Handler /\ Finished(r) /\ Moves(r, p)
  BY <1>1, ErrorEnds, DestroyEnds
<1>. QED
  BY <1>2, <1>3, <1>4

\* Nothing but the cause is put down when a loop throws.
LEMMA ThrowEnds ==
  ASSUME NEW q \in Handler, Engaged(q), q.pc \in {"forward", "read"}, q.pc = "forward" => ~q.started,
         NEW cause \in {"error", "timeout", "abort"}, cause = "timeout" \/ q.upstream \in {"over", "stopped"}
  PROVE  LET r == Throw(q, cause) IN r \in Handler /\ Finished(r) /\ Moves(r, q)
<1>. DEFINE p == [q EXCEPT !.cause = cause]
<1>1. /\ p \in Handler /\ p.pc = q.pc /\ p.protocol = q.protocol /\ p.stream = q.stream /\ p.cause = cause
      /\ p.started = q.started /\ p.aborted = q.aborted /\ p.signal = q.signal /\ p.upstream = q.upstream
      /\ p.head = q.head /\ p.seen = q.seen /\ p.conn = q.conn /\ p.t = q.t /\ p.slot = q.slot
      /\ p.sawError = q.sawError /\ p.sawFinish = q.sawFinish
  BY DEF Handler
<1>2. Engaged(p)
  <2>. HIDE DEF p
  <2>1. Tracks(q) => Tracks(p)
    BY <1>1 DEF Tracks
  <2>. QED
    BY <1>1, <2>1 DEF Engaged, Halted, Shaped
<1>3. /\ p.head = (IF p.started THEN "ok" ELSE "none") /\ p.conn \notin {"ended", "flushed"} /\ Shaped(p)
      /\ p.aborted => p.signal /\ p.conn # "open"
      /\ Halted(p) /\ p.protocol \in {"chat", "messages", "responses"}
      /\ p.stream => Live(p)
      /\ ~(p.stream /\ p.pc = "read") => ~p.started
  <2>. HIDE DEF p
  <2>1. p.protocol \in {"chat", "messages", "responses"}
    BY <1>1 DEF Handler, Protocols
  <2>2. p.stream => Live(p)
    BY <1>1, <1>2, EngagedLives
  <2>3. p.started => p.stream
    BY <1>2 DEF Engaged
  <2>. QED
    BY <1>1, <1>2, <2>1, <2>2, <2>3 DEF Engaged
<1>4. \A r : Moves(r, p) => Moves(r, q)
  <2>. HIDE DEF p
  <2>. QED
    BY <1>1 DEF Moves
<1>. DEFINE Good(r) == r \in Handler /\ Finished(r) /\ Moves(r, p)
<1>5. SUFFICES Good(Throw(q, cause))
  BY <1>4
<1>6. /\ p.protocol = "chat" /\ p.stream /\ p.pc = "read" => Throw(q, cause) = ChatStreamCatch(p)
      /\ p.protocol = "messages" /\ p.stream /\ p.pc = "read" => Throw(q, cause) = MessagesStreamCatch(p)
      /\ p.protocol = "responses" /\ p.stream /\ p.pc = "read" => Throw(q, cause) = ResponsesStreamCatch(p)
      /\ p.protocol = "chat" /\ ~(p.stream /\ p.pc = "read") => Throw(q, cause) = ChatCatch(p)
      /\ p.protocol = "messages" /\ ~(p.stream /\ p.pc = "read") => Throw(q, cause) = MessagesCatch(p)
      /\ p.protocol = "responses" /\ ~(p.stream /\ p.pc = "read") => Throw(q, cause) = ResponsesCatch(p)
  <2>1. Throw(q, cause) =
          CASE p.protocol = "chat" /\ p.stream /\ p.pc = "read"      -> ChatStreamCatch(p)
            [] p.protocol = "messages" /\ p.stream /\ p.pc = "read"  -> MessagesStreamCatch(p)
            [] p.protocol = "responses" /\ p.stream /\ p.pc = "read" -> ResponsesStreamCatch(p)
            [] p.protocol = "chat" /\ ~(p.stream /\ p.pc = "read")      -> ChatCatch(p)
            [] p.protocol = "messages" /\ ~(p.stream /\ p.pc = "read")  -> MessagesCatch(p)
            [] p.protocol = "responses" /\ ~(p.stream /\ p.pc = "read") -> ResponsesCatch(p)
    BY Zenon DEF Throw
  <2>. HIDE DEF p
  <2>. QED
    BY <2>1
<1>. HIDE DEF p
<1>7. /\ Stops(Abort(p), p) /\ Stops(Abort(Cancel(p)), p)
  BY <1>1, <1>3, AbortStops
<1>8. ~p.started => Good(Fail(Abort(p))) /\ Good(Fail(Abort(Cancel(p))))
  BY <1>1, <1>3, <1>7, StoppedEnds
<1>9. p.stream => /\ Good(End(Write(Abort(p), <<Frame("error")>>)))
                  /\ Good(End(Write(Abort(Cancel(p)), <<Frame("error")>>)))
                  /\ Good(End(Destroy(Write(Abort(Cancel(p)), <<Frame("error")>>))))
  BY <1>1, <1>3, <1>7, StoppedEnds
<1>10. p.protocol = "responses" => Stopped(p)
  <2>1. p.cause = "timeout" \/ p.upstream \in {"over", "stopped"}
    BY <1>1
  <2>. QED
    BY <1>3, <2>1 DEF Stopped, Abandons
<1>11. p.aborted => Good(End(Cancel(p)))
  <2>1. SUFFICES ASSUME p.aborted PROVE Good(End(Cancel(p)))
    OBVIOUS
  <2>. DEFINE c == Cancel(p)
  <2>2. /\ c \in Handler /\ Same(c, p) /\ Written(c, p) /\ c.conn = p.conn
        /\ c.signal = p.signal /\ c.upstream = (IF p.upstream = "open" THEN "stopped" ELSE p.upstream)
    BY <1>1, CancelFacts
  <2>. HIDE DEF c
  <2>3. Stopped(c) /\ Shaped(c) /\ c.conn # "open" /\ c.conn \notin {"ended", "flushed"} /\ c.head # "clash"
    BY <1>3, <2>1, <2>2 DEF Stopped, Abandons, Halted, Shaped, Same, Written
  <2>4. End(c) \in Handler /\ Finished(End(c)) /\ Moves(End(c), c)
    BY <2>2, <2>3, EndEnds
  <2>5. Moves(End(c), p)
    BY <2>2, <2>4 DEF Moves, Same
  <2>. QED
    BY <2>4, <2>5 DEF c
<1>12. p.signal => Good(Return(p))
  <2>1. p.signal => Stopped(p)
    BY <1>3 DEF Stopped, Abandons, Halted
  <2>. QED
    BY <1>1, <1>3, <2>1, ReturnEnds
<1>13. p.protocol = "responses" => Good(Return(p)) /\ (~p.started => Good(Fail(p)))
  BY <1>1, <1>3, <1>10, ReturnEnds, FailEnds
<1>14. p.protocol = "responses" /\ p.stream => Good(End(Destroy(Write(p, <<Frame("error")>>))))
  BY <1>1, <1>3, <1>10, DestroyEnds
<1>. HIDE DEF Good
<1>15. CASE p.protocol = "chat" /\ p.stream /\ p.pc = "read"
  BY <1>3, <1>6, <1>8, <1>9, <1>11, <1>15 DEF ChatStreamCatch
<1>16. CASE p.protocol = "messages" /\ p.stream /\ p.pc = "read"
  BY <1>3, <1>6, <1>8, <1>9, <1>11, <1>16 DEF MessagesStreamCatch
<1>17. CASE p.protocol = "responses" /\ p.stream /\ p.pc = "read"
  BY <1>1, <1>3, <1>6, <1>8, <1>9, <1>11, <1>13, <1>14, <1>17 DEF ResponsesStreamCatch
<1>18. CASE p.protocol = "chat" /\ ~(p.stream /\ p.pc = "read")
  BY <1>3, <1>6, <1>8, <1>12, <1>18 DEF ChatCatch
<1>19. CASE p.protocol = "messages" /\ ~(p.stream /\ p.pc = "read")
  BY <1>3, <1>6, <1>8, <1>12, <1>19 DEF MessagesCatch
<1>20. CASE p.protocol = "responses" /\ ~(p.stream /\ p.pc = "read")
  BY <1>1, <1>3, <1>6, <1>13, <1>20 DEF ResponsesCatch
<1>. QED
  BY <1>3, <1>15, <1>16, <1>17, <1>18, <1>19, <1>20

\* The upstream's answer has ended and the handler knows, or it left a response that was destroyed.
Exhausted(q) ==
  /\ q \in Handler /\ Engaged(q)
  /\ q.upstream = "over" \/ (q.protocol = "responses" /\ q.stream /\ q.cause = "left")
  /\ q.conn = "open" => q.cause = "end"

\* An error in the last line is the tail, or it was taken.
Left(q, tail)  == q.conn = "open" /\ q.tailError => tail = "error"
Counts(q) == q.conn = "open" /\ q.tailError => q.sawError

Good(r, q) == r \in Handler /\ Finished(r) /\ Moves(r, q)

\* The line that is left in the buffer is a line like any other.
LEMMA FlushGoes ==
  ASSUME NEW q, Exhausted(q), NEW tail \in Lines \cup {"none"}, Left(q, tail)
  PROVE  LET p == Flush(q, tail)
         IN  /\ Exhausted(p) /\ Counts(p) /\ p.protocol = q.protocol /\ p.stream = q.stream
             /\ \A r : Moves(r, p) => Moves(r, q)
<1>1. CASE tail = "none"
  <2>1. Flush(q, tail) = q
    BY <1>1 DEF Flush
  <2>. QED
    BY <1>1, <2>1 DEF Left, Counts
<1>2. CASE tail # "none"
  <2>1. Flush(q, tail) = Take(q, tail)
    BY <1>2 DEF Flush
  <2>. DEFINE p == Take(q, tail)
  <2>2. p \in Handler /\ Engaged(p) /\ Steady(p, q) /\ (tail = "error" => p.sawError)
    BY <1>2, TakeGoes DEF Exhausted
  <2>. HIDE DEF p
  <2>3. Exhausted(p) /\ p.protocol = q.protocol /\ p.stream = q.stream /\ \A r : Moves(r, p) => Moves(r, q)
    BY <2>2 DEF Exhausted, Steady, Moves
  <2>4. Counts(p)
    BY <2>2 DEF Steady, Left, Counts
  <2>. QED
    BY <2>1, <2>3, <2>4 DEF p
<1>. QED
  BY <1>1, <1>2

\* What every end has at hand.
LEMMA AtHand ==
  ASSUME NEW p, Exhausted(p)
  PROVE  /\ p \in Handler /\ p.t \in Locals /\ Stopped(p) /\ Shaped(p)
         /\ p.head = (IF p.started THEN "ok" ELSE "none") /\ p.conn \notin {"ended", "flushed"}
         /\ ~p.started => Good(Fail(p), p) /\ Good(Fail(Abort(p)), p)
         /\ p.stream => /\ Good(End(Write(p, <<Frame("error")>>)), p)
                        /\ Good(End(Write(Abort(p), <<Frame("error")>>)), p)
         /\ ~p.t.error => ~p.sawError
<1>1. /\ p \in Handler /\ p.t \in Locals /\ Stopped(p) /\ Shaped(p)
      /\ p.head = (IF p.started THEN "ok" ELSE "none") /\ p.conn \notin {"ended", "flushed"}
      /\ ~p.t.error => ~p.sawError
  BY DEF Exhausted, Engaged, Stopped, Abandons, Halted, Handler
<1>2. p.stream => Live(p)
  BY EngagedLives DEF Exhausted
<1>3. Stops(Abort(p), p)
  BY <1>1, AbortStops
<1>4. ~p.started => Good(Fail(p), p) /\ Good(Fail(Abort(p)), p)
  BY <1>1, <1>3, FailEnds, StoppedEnds DEF Good
<1>5. p.stream => /\ Good(End(Write(p, <<Frame("error")>>)), p)
                  /\ Good(End(Write(Abort(p), <<Frame("error")>>)), p)
  BY <1>1, <1>2, <1>3, ErrorEnds, StoppedEnds DEF Good
<1>. QED
  BY <1>1, <1>4, <1>5

\* A Chat stream ends: with an error, or with [DONE] after output.
LEMMA ChatStreamEnds ==
  ASSUME NEW q, Exhausted(q), q.protocol = "chat", q.stream, NEW tail \in Lines \cup {"none"}, Left(q, tail)
  PROVE  Good(ChatStreamEnd(q, tail), q)
<1>. DEFINE p == Flush(q, tail)
<1>1. Exhausted(p) /\ Counts(p) /\ p.protocol = "chat" /\ p.stream /\ \A r : Moves(r, p) => Moves(r, q)
  BY FlushGoes
<1>2. SUFFICES Good(ChatStreamEnd(q, tail), p)
  BY <1>1 DEF Good
<1>. DEFINE error == End(Write(p, <<Frame("error")>>))
            stop  == End(Write(Abort(p), <<Frame("error")>>))
            done  == End(Write(p, <<Frame("done")>>))
<1>3. ChatStreamEnd(q, tail) =
        CASE p.t.error /\ ~p.started -> Fail(p)
          [] p.t.error /\ p.started  -> error
          [] ~p.t.error /\ ~p.t.output /\ ~p.started -> Fail(Abort(p))
          [] ~p.t.error /\ ~p.t.output /\ p.started  -> stop
          [] OTHER -> done
  BY DEF ChatStreamEnd
<1>. HIDE DEF p
<1>4. /\ ~p.started => Good(Fail(p), p) /\ Good(Fail(Abort(p)), p)
      /\ Good(error, p) /\ Good(stop, p)
  BY <1>1, AtHand
<1>5. ~p.t.error => Good(done, p)
  <2>1. SUFFICES ASSUME ~p.t.error PROVE Good(done, p)
    OBVIOUS
  <2>. DEFINE fs == <<Frame("done")>>
              w  == Write(p, fs)
  <2>2. p.conn = "open" =>
          \E n \in Nat : \E b, x \in BOOLEAN :
            Over(Push(p.seen, fs), n, b, x) /\ (p.protocol # "chat" /\ n > 0 => b)
    <3>1. SUFFICES ASSUME p.conn = "open"
          PROVE \E n \in Nat : \E b, x \in BOOLEAN : Over(Push(p.seen, fs), n, b, x)
      BY <1>1
    <3>2. PICK b \in BOOLEAN, x \in BOOLEAN : Going(p.seen, OpenOf(p.t), p.t.next, b, x)
      BY <1>1, <3>1 DEF Exhausted, Engaged, Tracks
    <3>3. "done" \in Ends /\ "done" # "failed"
      BY DEF Ends
    <3>4. Over(Step(p.seen, Frame("done")), p.t.next, b, x \/ "done" = "failed")
      BY <3>2, <3>3, GoEnd
    <3>5. (x \/ "done" = "failed") \in BOOLEAN
      OBVIOUS
    <3>6. p.t.next \in Nat
      BY <1>1, AtHand DEF Locals
    <3>. QED
      BY <3>4, <3>5, <3>6, PushOne
  <2>. HIDE DEF fs
  <2>3. p \in Handler /\ Shaped(p) /\ p.head \in {"none", "ok"} /\ ~p.sawError /\ p.conn \notin {"ended", "flushed"}
        /\ Stopped(p)
    BY <1>1, <2>1, AtHand
  <2>4. /\ w \in Handler /\ Same(w, p) /\ Shaped(w) /\ w.head \in {"none", "ok"}
        /\ w.conn = p.conn /\ w.signal = p.signal /\ w.upstream = p.upstream
    BY <2>2, <2>3, LastWrite
  <2>. HIDE DEF w
  <2>5. Stopped(w) /\ (w.conn = "open" => Earned(w))
    BY <1>1, <2>3, <2>4 DEF Stopped, Abandons, Halted, Earned, Same, Exhausted, Counts
  <2>6. Good(End(w), w)
    BY <2>3, <2>4, <2>5, EndEnds DEF Good
  <2>. QED
    BY <2>4, <2>6 DEF Good, Moves, Same, w, fs
<1>. HIDE DEF error, stop, done
<1>. QED
  BY <1>3, <1>4, <1>5

\* A Messages stream ends: MessagesFinal reports an answer without output as an error.
LEMMA MessagesStreamEnds ==
  ASSUME NEW q, Exhausted(q), q.protocol = "messages", q.stream
  PROVE  Good(MessagesStreamEnd(q), q)
<1>. DEFINE gs == MessagesFinal(q.t)
            fs == Headed(q, gs)
            p  == Write(q, fs)
<1>1. WriteEvents(q, gs) = p
  BY DEF WriteEvents, Headed
<1>2. MessagesStreamEnd(q) = IF ~p.t.error /\ ~p.t.output THEN End(Abort(p)) ELSE End(p)
  BY <1>1 DEF MessagesStreamEnd
<1>3. /\ q \in Handler /\ q.t \in Locals /\ Stopped(q) /\ Shaped(q)
      /\ q.head \in {"none", "ok"} /\ q.conn \notin {"ended", "flushed"}
      /\ ~q.t.error => ~q.sawError
  BY AtHand
<1>4. /\ gs \in Seq(Frames)
      /\ q.t.error => gs = <<>>
      /\ \A v, n : \A b, x \in BOOLEAN :
           Going(v, OpenOf(q.t), n, b, x) => \E y \in BOOLEAN : Over(Push(v, gs), n, b, y) /\ (x => y)
  BY <1>3, MessagesFinalGoes
<1>5. ASSUME q.conn = "open"
      PROVE  \E n \in Nat : \E b, x \in BOOLEAN :
               /\ Over(Push(q.seen, fs), n, b, x) /\ (n > 0 => b)
               /\ q.t.error => x
  <2>. DEFINE k == OpenOf(q.t)
              n == q.t.next
  <2>1. PICK b \in BOOLEAN, x \in BOOLEAN : Going(q.seen, k, n, b, x) /\ (b <=> q.started) /\ (q.t.error => x)
    BY <1>5 DEF Exhausted, Engaged, Tracks
  <2>2. n \in Nat /\ (~q.started => n = 0)
    BY <1>3 DEF Locals, Exhausted, Engaged
  <2>. HIDE DEF k, n, gs, fs
  <2>3. CASE fs = gs
    <3>1. PICK y \in BOOLEAN : Over(Push(q.seen, gs), n, b, y) /\ (x => y)
      BY <1>4, <2>1 DEF k
    <3>. QED
      BY <2>1, <2>2, <2>3, <3>1
  <2>4. CASE fs # gs
    <3>. DEFINE w == Push(q.seen, <<Frame("begin")>>)
    <3>1. ~q.started /\ fs = <<Frame("begin")>> \o gs
      BY <2>4 DEF fs, Headed
    <3>2. Going(q.seen, k, n, FALSE, x)
      BY <2>1, <3>1
    <3>3. Going(w, k, n, TRUE, x) /\ Push(q.seen, fs) = Push(w, gs)
      <4>1. gs \in Seq(Frames)
        BY <1>4
      <4>2. Going(w, k, n, TRUE, x) /\ Push(q.seen, <<Frame("begin")>> \o gs) = Push(w, gs)
        BY <3>2, <4>1, BeginGoes
      <4>. QED
        BY <3>1, <4>2
    <3>. HIDE DEF w
    <3>4. PICK y \in BOOLEAN : Over(Push(w, gs), n, TRUE, y) /\ (x => y)
      BY <1>4, <3>3 DEF k
    <3>. QED
      BY <2>1, <2>2, <3>3, <3>4
  <2>. QED
    BY <2>3, <2>4
<1>. HIDE DEF gs, fs
<1>6. /\ p \in Handler /\ Same(p, q) /\ Shaped(p) /\ p.head \in {"none", "ok"}
      /\ p.conn = q.conn /\ p.signal = q.signal /\ p.upstream = q.upstream
      /\ p.seen = (IF q.conn = "open" THEN Push(q.seen, fs) ELSE q.seen)
  <2>1. q.conn = "open" =>
          \E n \in Nat : \E b, x \in BOOLEAN :
            Over(Push(q.seen, fs), n, b, x) /\ (q.protocol # "chat" /\ n > 0 => b)
    BY <1>5
  <2>. QED
    BY <1>3, <2>1, LastWrite
<1>. HIDE DEF p
<1>7. q.conn = "open" => Earned(p)
  <2>1. CASE q.t.error
    <3>1. q.conn = "open" => Push(q.seen, fs).failure
      BY <1>5, <2>1 DEF Over
    <3>. QED
      BY <1>6, <3>1 DEF Earned
  <2>2. CASE ~q.t.error
    BY <1>3, <1>6, <2>2 DEF Earned, Same, Exhausted, DropsTail
  <2>. QED
    BY <2>1, <2>2
<1>8. Stopped(p)
  BY <1>3, <1>6 DEF Stopped, Abandons, Halted, Same
<1>9. Good(End(p), q)
  <2>1. Good(End(p), p)
    BY <1>3, <1>6, <1>7, <1>8, EndEnds DEF Good
  <2>. QED
    BY <1>6, <2>1 DEF Good, Moves, Same
<1>10. Good(End(Abort(p)), q)
  <2>. DEFINE a == Abort(p)
  <2>1. Stops(a, p)
    BY <1>6, AbortStops
  <2>. HIDE DEF a
  <2>2. /\ a \in Handler /\ a.conn = p.conn /\ Stopped(a) /\ Shaped(a) /\ a.head = p.head /\ a.slot = p.slot
        /\ Earned(p) => Earned(a)
    BY <2>1 DEF Stops, Alike, Same, Written, Earned, DropsTail
  <2>3. Good(End(a), a)
    BY <1>3, <1>6, <1>7, <2>2, EndEnds DEF Good
  <2>4. Good(End(a), q)
    BY <1>6, <2>2, <2>3 DEF Good, Moves, Same
  <2>. QED
    BY <2>4 DEF a
<1>. QED
  BY <1>2, <1>9, <1>10

\* A Responses stream ends: failed, unless the finish event was there and some output.
LEMMA ResponsesStreamEnds ==
  ASSUME NEW q, Exhausted(q), q.protocol = "responses", q.stream, NEW tail \in Lines \cup {"none"}, Left(q, tail)
  PROVE  Good(ResponsesStreamEnd(q, tail), q)
<1>. DEFINE p == Flush(q, tail)
<1>1. Exhausted(p) /\ Counts(p) /\ p.protocol = "responses" /\ p.stream /\ \A r : Moves(r, p) => Moves(r, q)
  BY FlushGoes
<1>2. SUFFICES Good(ResponsesStreamEnd(q, tail), p)
  BY <1>1 DEF Good
<1>. DEFINE o      == [p EXCEPT !.head = "ok"]
            failed == End(Write(p, ResponsesFail(p.t)))
            done   == End(Write(o, ResponsesFinish(p.t)))
<1>3. ResponsesStreamEnd(q, tail) =
        CASE p.t.error /\ ~p.started -> Fail(p)
          [] p.t.error /\ p.started  -> failed
          [] ~p.t.error /\ ~p.t.output /\ ~p.t.created -> Fail(Abort(p))
          [] OTHER -> done
  BY DEF ResponsesStreamEnd
<1>. HIDE DEF p
<1>4. /\ p \in Handler /\ p.t \in Locals /\ Stopped(p) /\ Shaped(p)
      /\ p.head \in {"none", "ok"} /\ p.conn \notin {"ended", "flushed"}
      /\ ~p.started => Good(Fail(p), p) /\ Good(Fail(Abort(p)), p)
      /\ ~p.t.error => ~p.sawError
  BY <1>1, AtHand
<1>5. /\ p.t.created <=> p.started
      /\ p.t.block # "none" => p.t.created
      /\ ~p.started => p.seen = Unseen
      /\ p.t.finish => p.sawFinish
      /\ p.t.next \in Nat /\ (~p.started => p.t.next = 0)
  BY <1>1, <1>4 DEF Exhausted, Engaged, Locals
<1>6. ASSUME p.conn = "open"
      PROVE  /\ \E b, x \in BOOLEAN :
                  /\ Over(Push(p.seen, ResponsesFail(p.t)), p.t.next, b, x) /\ (p.t.next > 0 => b) /\ (p.t.created => x)
             /\ \E b, x \in BOOLEAN :
                  /\ Over(Push(p.seen, ResponsesFinish(p.t)), p.t.next, b, x) /\ (p.t.next > 0 => b)
                  /\ p.t.created /\ ~p.t.finish => x
  <2>1. PICK b \in BOOLEAN, x \in BOOLEAN : Going(p.seen, OpenOf(p.t), p.t.next, b, x) /\ (b <=> p.started)
    BY <1>1, <1>6 DEF Exhausted, Engaged, Tracks
  <2>2. b = p.t.created
    BY <1>4, <1>5, <2>1 DEF Locals
  <2>3. Going(p.seen, OpenOf(p.t), p.t.next, p.t.created, x)
    BY <2>1, <2>2
  <2>4. p.t.next > 0 => p.t.created
    BY <1>5
  <2>5. p.t.created \in BOOLEAN
    BY <2>2
  <2>6. /\ \E y \in BOOLEAN : Over(Push(p.seen, ResponsesFail(p.t)), p.t.next, p.t.created, y) /\ (p.t.created => y)
        /\ \E y \in BOOLEAN :
             Over(Push(p.seen, ResponsesFinish(p.t)), p.t.next, p.t.created, y) /\ (p.t.created /\ ~p.t.finish => y)
    BY <1>4, <1>5, <2>3, ResponsesEndGoes
  <2>. QED
    BY <2>4, <2>5, <2>6
<1>7. Good(failed, p) \/ ~p.t.error \/ ~p.started
  <2>1. SUFFICES ASSUME p.started PROVE Good(failed, p)
    OBVIOUS
  <2>. DEFINE fs == ResponsesFail(p.t)
              w  == Write(p, fs)
  <2>2. p.conn = "open" =>
          \E n \in Nat : \E b, x \in BOOLEAN :
            Over(Push(p.seen, fs), n, b, x) /\ (p.protocol # "chat" /\ n > 0 => b)
    BY <1>5, <1>6
  <2>. HIDE DEF fs
  <2>3. /\ w \in Handler /\ Same(w, p) /\ Shaped(w) /\ w.head \in {"none", "ok"}
        /\ w.conn = p.conn /\ w.signal = p.signal /\ w.upstream = p.upstream
        /\ w.seen = (IF p.conn = "open" THEN Push(p.seen, fs) ELSE p.seen)
    BY <1>4, <2>2, LastWrite
  <2>. HIDE DEF w
  <2>4. w.conn = "open" => Earned(w)
    BY <1>5, <1>6, <2>1, <2>3 DEF Earned, Over, fs
  <2>5. Stopped(w)
    BY <1>4, <2>3 DEF Stopped, Abandons, Halted, Same
  <2>6. Good(End(w), w)
    BY <1>4, <2>3, <2>4, <2>5, EndEnds DEF Good
  <2>. QED
    BY <2>3, <2>6 DEF Good, Moves, Same, w, fs
<1>8. Good(done, p) \/ p.t.error
  <2>1. SUFFICES ASSUME ~p.t.error PROVE Good(done, p)
    OBVIOUS
  <2>2. /\ o \in Handler /\ Same(o, p) /\ o.head = "ok" /\ o.conn = p.conn /\ o.signal = p.signal
        /\ o.upstream = p.upstream /\ o.seen = p.seen
    BY <1>4 DEF Handler, Same
  <2>. HIDE DEF o
  <2>3. /\ Shaped(o) /\ o.protocol = "responses" /\ ~o.sawError /\ (p.t.finish => o.sawFinish)
        /\ o.conn = "open" => o.cause = "end" /\ ~o.tailError
    BY <1>1, <1>4, <1>5, <2>1, <2>2 DEF Shaped, Same, Exhausted, Counts
  <2>. DEFINE fs == ResponsesFinish(p.t)
              w  == Write(o, fs)
  <2>4. o.conn = "open" =>
          \E n \in Nat : \E b, x \in BOOLEAN :
            Over(Push(o.seen, fs), n, b, x) /\ (o.protocol # "chat" /\ n > 0 => b)
    BY <1>5, <1>6, <2>2
  <2>5. ~p.t.created => fs = <<>>
    BY DEF ResponsesFinish
  <2>. HIDE DEF fs
  <2>6. /\ w \in Handler /\ Same(w, o) /\ Shaped(w) /\ w.head \in {"none", "ok"}
        /\ w.conn = o.conn /\ w.signal = o.signal /\ w.upstream = o.upstream
        /\ w.seen = (IF o.conn = "open" THEN Push(o.seen, fs) ELSE o.seen)
    BY <2>2, <2>3, <2>4, LastWrite
  <2>. HIDE DEF w
  <2>7. w.conn = "open" => Earned(w)
    <3>1. CASE p.t.created /\ ~p.t.finish
      BY <1>6, <2>2, <2>6, <3>1 DEF Earned, Over, fs
    <3>2. CASE p.t.created /\ p.t.finish
      BY <2>3, <2>6, <3>2 DEF Earned, Same
    <3>3. CASE ~p.t.created
      <4>1. w.seen = Unseen
        BY <1>5, <2>2, <2>5, <2>6, <3>3, PushNothing
      <4>. QED
        BY <4>1 DEF Earned, Unseen
    <3>. QED
      BY <3>1, <3>2, <3>3
  <2>8. Stopped(w)
    BY <1>4, <2>2, <2>6 DEF Stopped, Abandons, Halted, Same
  <2>9. Good(End(w), w)
    BY <1>4, <2>2, <2>6, <2>7, <2>8, EndEnds DEF Good
  <2>. QED
    BY <2>2, <2>6, <2>9 DEF Good, Moves, Same, w, fs
<1>. HIDE DEF failed, done
<1>. QED
  BY <1>3, <1>4, <1>5, <1>7, <1>8

\* An answer in one piece is an error, or it is one of success.
LEMMA BufferedEnds ==
  ASSUME NEW q, Exhausted(q), ~q.stream, NEW tail \in Lines \cup {"none"}, Left(q, tail)
  PROVE  /\ q.protocol = "chat" => Good(ChatBufferedEnd(q), q)
         /\ q.protocol = "messages" => Good(MessagesBufferedEnd(q), q)
         /\ q.protocol = "responses" => Good(ResponsesBufferedEnd(q, tail), q)
<1>1. ASSUME NEW p, Exhausted(p), ~p.stream, DropsTail(p) \/ Counts(p)
      PROVE  /\ Good(Fail(p), p) /\ Good(Fail(Abort(p)), p)
             /\ ~p.t.error /\ (p.protocol = "responses" => p.t.finish) => Good(Answer(p), p)
  <2>1. /\ p \in Handler /\ p.head = "none" /\ p.seen = Unseen /\ p.conn \notin {"ended", "flushed"} /\ Stopped(p)
        /\ (~p.t.error => ~p.sawError) /\ (p.protocol = "responses" /\ p.t.finish => p.sawFinish)
        /\ p.conn = "open" => p.cause = "end" /\ (~p.sawError /\ p.tailError => DropsTail(p))
        /\ ~p.started
    BY <1>1, AtHand DEF Exhausted, Engaged, Counts
  <2>2. Good(Fail(p), p) /\ Good(Fail(Abort(p)), p)
    BY <1>1, <2>1, AtHand
  <2>3. ~p.t.error /\ (p.protocol = "responses" => p.t.finish) => Good(Answer(p), p)
    BY <2>1, AnswerEnds DEF Good
  <2>. QED
    BY <2>2, <2>3
<1>2. q.protocol \in {"chat", "messages"} =>
        Good(Fail(q), q) /\ Good(Fail(Abort(q)), q) /\ (~q.t.error => Good(Answer(q), q))
  BY <1>1 DEF DropsTail
<1>3. q.protocol = "chat" => Good(ChatBufferedEnd(q), q)
  <2>. HIDE DEF Good
  <2>. QED
    BY <1>2 DEF ChatBufferedEnd
<1>4. q.protocol = "messages" => Good(MessagesBufferedEnd(q), q)
  <2>. HIDE DEF Good
  <2>. QED
    BY <1>2 DEF MessagesBufferedEnd
<1>5. q.protocol = "responses" => Good(ResponsesBufferedEnd(q, tail), q)
  <2>. DEFINE p == Flush(q, tail)
  <2>1. Exhausted(p) /\ Counts(p) /\ p.protocol = q.protocol /\ p.stream = q.stream /\ \A r : Moves(r, p) => Moves(r, q)
    BY FlushGoes
  <2>2. ResponsesBufferedEnd(q, tail) =
          CASE p.t.error -> Fail(p)
            [] ~p.t.error /\ ~p.t.finish -> Fail(p)
            [] ~p.t.error /\ p.t.finish /\ ~p.t.output -> Fail(Abort(p))
            [] OTHER -> Answer(p)
    BY DEF ResponsesBufferedEnd
  <2>. HIDE DEF p
  <2>3. /\ Good(Fail(p), p) /\ Good(Fail(Abort(p)), p)
        /\ ~p.t.error /\ (p.protocol = "responses" => p.t.finish) => Good(Answer(p), p)
    BY <1>1, <2>1
  <2>4. \A r : Good(r, p) => Good(r, q)
    BY <2>1 DEF Good
  <2>. QED
    BY <2>2, <2>3, <2>4
<1>. QED
  BY <1>3, <1>4, <1>5

\* However the upstream's answer ends, the handler ends soundly.
LEMMA AtEndEnds ==
  ASSUME NEW q, Exhausted(q), NEW tail \in Lines \cup {"none"}, Left(q, tail)
  PROVE  Good(AtEnd(q, tail), q)
<1>1. /\ q.protocol = "chat" /\ q.stream       => AtEnd(q, tail) = ChatStreamEnd(q, tail)
      /\ q.protocol = "chat" /\ ~q.stream      => AtEnd(q, tail) = ChatBufferedEnd(q)
      /\ q.protocol = "messages" /\ q.stream   => AtEnd(q, tail) = MessagesStreamEnd(q)
      /\ q.protocol = "messages" /\ ~q.stream  => AtEnd(q, tail) = MessagesBufferedEnd(q)
      /\ q.protocol = "responses" /\ q.stream  => AtEnd(q, tail) = ResponsesStreamEnd(q, tail)
      /\ q.protocol = "responses" /\ ~q.stream => AtEnd(q, tail) = ResponsesBufferedEnd(q, tail)
  BY DEF AtEnd
<1>2. q.protocol \in {"chat", "messages", "responses"}
  BY DEF Exhausted, Handler, Protocols
<1>3. CASE q.stream
  BY <1>1, <1>2, <1>3, ChatStreamEnds, MessagesStreamEnds, ResponsesStreamEnds
<1>4. CASE ~q.stream
  BY <1>1, <1>2, <1>4, BufferedEnds
<1>. QED
  BY <1>3, <1>4
-----------------------------------------------------------------------------
(* The state machine.                                                      *)

\* What is always true of a request: the inductive invariant, one request at a time.
Sound(q) ==
  /\ q \in Handler
  /\ q.conn \in {"closed", "flushed"} => ~q.slot
  /\ q.pc = "idle" => q = Idle
  /\ q.pc \notin {"idle", "done"} => Engaged(q)
  /\ q.pc \in {"body", "init", "forward"} => ~q.started
  /\ q.pc \in {"body", "init"} => q.upstream = "none"
  /\ q.pc = "done" => Finished(q)

\* A step of a handler keeps it, holds on to its place, and takes no line.
Proceeds(p, q) == Sound(p) /\ p.slot = q.slot /\ p.lines <= q.lines

\* A handler that is done is sound.
LEMMA GoodProceeds ==
  ASSUME NEW q, Sound(q), NEW p, Good(p, q)
  PROVE  Proceeds(p, q)
BY DEF Sound, Good, Finished, Moves, Proceeds, Handler

\* A handler that is engaged stays so where only its place in the code, its listener, the
\* watchdog or the upstream's request changes.
LEMMA StaysEngaged ==
  ASSUME NEW q \in Handler, Engaged(q), NEW p \in Handler, Halted(p),
         Same(p, q), Written(p, q), p.started = q.started, p.t = q.t, p.conn = q.conn,
         p.aborted => p.signal /\ p.conn \in {"closed", "destroyed"}
  PROVE  Engaged(p)
<1>1. Tracks(q) => Tracks(p)
  BY DEF Tracks, Same, Written
<1>. QED
  BY <1>1 DEF Engaged, Same, Written, Shaped

\* A connection that is closed or destroyed leaves a handler engaged: nothing reaches the
\* gateway any more, and what it has seen is as far as it is.
LEMMA GoneEngaged ==
  ASSUME NEW q \in Handler, Engaged(q), NEW p \in Handler,
         Same(p, q), Written(p, q), p.started = q.started, p.t = q.t, p.conn \in {"closed", "destroyed"},
         \/ p.aborted = q.aborted /\ p.signal = q.signal /\ p.upstream = q.upstream
         \/ p.signal /\ p.upstream = (IF q.upstream \in {"asked", "open"} THEN "stopped" ELSE q.upstream)
  PROVE  Engaged(p)
<1>1. Halted(p) /\ (p.aborted => p.signal)
  BY DEF Halted, Engaged
<1>. QED
  BY <1>1 DEF Engaged, Same, Written, Shaped

\* A connection without a request is sound.
LEMMA IdleSound == Sound(Idle)
BY IdleType DEF Sound, Idle

\* Requests that are answered at once, whatever the load: /health, and the refusal.
LEMMA AtOnce ==
  ASSUME NEW q, Sound(q), q.pc = "idle"
  PROVE  Proceeds(Json(q, "ok", <<>>), q) /\ Proceeds(Fail(q), q)
<1>1. q = Idle /\ q \in Handler
  BY DEF Sound
<1>2. /\ q.head = "none" /\ q.conn = "open" /\ ~q.signal /\ q.upstream = "none" /\ q.seen = Unseen
      /\ q.protocol = "chat"
  BY <1>1 DEF Idle
<1>3. Unseen.formed /\ ~Unseen.output /\ Unseen.next = 0 /\ Unseen \in View
  BY FrameTypes DEF Unseen
<1>4. Shaped(q) /\ Stopped(q)
  BY <1>2, <1>3 DEF Shaped, Stopped, Abandons, Halted
<1>5. Good(Fail(q), q)
  BY <1>1, <1>2, <1>4, FailEnds DEF Good
<1>. DEFINE p == Json(q, "ok", <<>>)
<1>6. /\ p \in Handler /\ Same(p, q) /\ p.pc = "done" /\ p.lines = 0 /\ p.conn = "ended"
      /\ p.signal = q.signal /\ p.upstream = q.upstream /\ p.head = "ok" /\ p.seen = q.seen
  <2>1. Push(q.seen, <<>>) = q.seen /\ q.seen \in View
    BY <1>2, <1>3, PushNothing
  <2>. QED
    BY <1>1, <1>2, <2>1, JsonFacts DEF Shut
<1>. HIDE DEF p
<1>7. Good(p, q)
  BY <1>2, <1>3, <1>4, <1>6 DEF Good, Finished, Moves, Stopped, Abandons, Halted, Shaped, Honest, Earned, Same
<1>. QED
  BY <1>5, <1>7, GoodProceeds DEF p

\* A request is admitted.
LEMMA Admitted ==
  ASSUME NEW q, Sound(q), q.pc = "idle", NEW protocol \in Protocols, NEW stream \in BOOLEAN
  PROVE  LET p == [q EXCEPT !.pc = "body", !.protocol = protocol, !.stream = stream, !.slot = TRUE]
         IN  Sound(p) /\ p.slot /\ ~q.slot /\ p.lines <= q.lines
<1>. DEFINE p == [q EXCEPT !.pc = "body", !.protocol = protocol, !.stream = stream, !.slot = TRUE]
<1>1. q = Idle /\ q \in Handler
  BY DEF Sound
<1>2. /\ p \in Handler /\ p.pc = "body" /\ p.slot /\ p.protocol = protocol /\ p.stream = stream
      /\ p.aborted = q.aborted /\ p.signal = q.signal /\ p.started = q.started /\ p.t = q.t
      /\ p.lines = q.lines /\ p.upstream = q.upstream /\ p.head = q.head /\ p.conn = q.conn
      /\ p.seen = q.seen /\ p.sawError = q.sawError
  <2>1. p \in Handler
    <3>1. q \in Handler
      BY <1>1
    <3>. QED
      BY <3>1 DEF Handler
  <2>2. p.pc = "body" /\ p.slot /\ p.protocol = protocol /\ p.stream = stream
    BY <1>1 DEF Handler
  <2>3. /\ p.aborted = q.aborted /\ p.signal = q.signal /\ p.started = q.started /\ p.t = q.t
        /\ p.lines = q.lines /\ p.upstream = q.upstream /\ p.head = q.head /\ p.conn = q.conn
        /\ p.seen = q.seen /\ p.sawError = q.sawError
    BY <1>1 DEF Handler
  <2>. QED
    BY <2>1, <2>2, <2>3
<1>3. /\ ~q.slot /\ ~q.aborted /\ ~q.signal /\ ~q.started /\ q.t = Fresh /\ q.lines = 0 /\ q.upstream = "none"
      /\ q.head = "none" /\ q.conn = "open" /\ q.seen = Unseen /\ ~q.sawError
  BY <1>1 DEF Idle
<1>. HIDE DEF p
<1>4. /\ Fresh.block = "none" /\ Fresh.next = 0 /\ ~Fresh.error /\ ~Fresh.finish /\ ~Fresh.created
  BY DEF Fresh
<1>5. OpenOf(p.t) = -1
  BY <1>2, <1>3, <1>4 DEF OpenOf
<1>6. Going(Unseen, -1, 0, FALSE, FALSE) /\ Unseen.next = 0 /\ Unseen.formed
  BY FrameTypes DEF Going, Unseen
<1>7. Tracks(p)
  <2>1. /\ Going(p.seen, OpenOf(p.t), p.t.next, FALSE, FALSE)
        /\ ~p.started /\ ~p.t.error
    BY <1>2, <1>3, <1>4, <1>5, <1>6
  <2>. QED
    BY <2>1 DEF Tracks
<1>8. Engaged(p)
  BY <1>2, <1>3, <1>4, <1>6, <1>7 DEF Engaged, Halted, Shaped
<1>9. Sound(p)
  BY <1>2, <1>3, <1>8 DEF Sound
<1>. QED
  BY <1>2, <1>3, <1>9 DEF p

\* The steps of a request up to the upstream's answer: it is refused, begun, sent and answered.
LEMMA EarlySteps ==
  ASSUME NEW q, Sound(q)
  PROVE  /\ q.pc = "body" => /\ Proceeds(Fail(q), q)
                             /\ Proceeds([q EXCEPT !.pc = "init", !.listening = (q.protocol = "responses")], q)
         /\ q.pc = "init" =>
              Proceeds([q EXCEPT !.pc = "forward", !.upstream = IF q.signal THEN "stopped" ELSE "asked"], q)
         /\ q.pc = "forward" /\ q.upstream = "asked" =>
              Proceeds([q EXCEPT !.pc = "read", !.upstream = "open", !.listening = TRUE], q)
<1>1. q \in Handler /\ (q.conn \in {"closed", "flushed"} => ~q.slot)
  BY DEF Sound
<1>2. ASSUME q.pc = "body" PROVE Proceeds(Fail(q), q)
  <2>1. q.head = "none" /\ Stopped(q) /\ Shaped(q)
    BY <1>2 DEF Sound, Engaged, Stopped, Abandons
  <2>2. Good(Fail(q), q)
    BY <1>1, <2>1, FailEnds DEF Good
  <2>. QED
    BY <2>2, GoodProceeds
<1>3. ASSUME q.pc = "body"
      PROVE  Proceeds([q EXCEPT !.pc = "init", !.listening = (q.protocol = "responses")], q)
  <2>1. PICK b \in BOOLEAN : b = (q.protocol = "responses")
    BY Zenon
  <2>. DEFINE p == [q EXCEPT !.pc = "init", !.listening = b]
  <2>2. /\ p \in Handler /\ p.pc = "init" /\ p.started = q.started /\ p.t = q.t /\ p.conn = q.conn
        /\ p.aborted = q.aborted /\ p.signal = q.signal /\ p.upstream = q.upstream /\ p.lines = q.lines
    BY <1>1 DEF Handler
  <2>3. Same(p, q) /\ Written(p, q)
    BY <1>1 DEF Handler, Same, Written
  <2>. HIDE DEF p
  <2>4. Engaged(q) /\ ~q.started /\ q.upstream = "none"
    BY <1>3 DEF Sound
  <2>5. Halted(p) /\ (p.aborted => p.signal /\ p.conn \in {"closed", "destroyed"})
    BY <2>2, <2>4 DEF Engaged, Halted
  <2>6. Engaged(p)
    BY <1>1, <2>2, <2>3, <2>4, <2>5, StaysEngaged
  <2>7. Proceeds(p, q)
    BY <1>1, <2>2, <2>3, <2>4, <2>6 DEF Proceeds, Sound, Same, Handler
  <2>. QED
    BY <2>1, <2>7 DEF p
<1>4. ASSUME q.pc = "init"
      PROVE  Proceeds([q EXCEPT !.pc = "forward", !.upstream = IF q.signal THEN "stopped" ELSE "asked"], q)
  <2>. DEFINE u == IF q.signal THEN "stopped" ELSE "asked"
              p == [q EXCEPT !.pc = "forward", !.upstream = u]
  <2>1. u \in {"asked", "stopped"} /\ (q.signal => u = "stopped")
    OBVIOUS
  <2>. HIDE DEF u
  <2>2. /\ p \in Handler /\ p.pc = "forward" /\ p.started = q.started /\ p.t = q.t /\ p.conn = q.conn
        /\ p.aborted = q.aborted /\ p.signal = q.signal /\ p.upstream = u /\ p.lines = q.lines
    BY <1>1, <2>1 DEF Handler
  <2>3. Same(p, q) /\ Written(p, q)
    BY <1>1 DEF Handler, Same, Written
  <2>. HIDE DEF p
  <2>4. Engaged(q) /\ ~q.started
    BY <1>4 DEF Sound
  <2>5. Halted(p) /\ (p.aborted => p.signal /\ p.conn \in {"closed", "destroyed"})
    BY <2>1, <2>2, <2>4 DEF Engaged, Halted
  <2>6. Engaged(p)
    BY <1>1, <2>2, <2>3, <2>4, <2>5, StaysEngaged
  <2>7. Proceeds(p, q)
    BY <1>1, <2>2, <2>3, <2>4, <2>6 DEF Proceeds, Sound, Same, Handler
  <2>. QED
    BY <2>7 DEF p, u
<1>5. ASSUME q.pc = "forward", q.upstream = "asked"
      PROVE  Proceeds([q EXCEPT !.pc = "read", !.upstream = "open", !.listening = TRUE], q)
  <2>. DEFINE p == [q EXCEPT !.pc = "read", !.upstream = "open", !.listening = TRUE]
  <2>2. /\ p \in Handler /\ p.pc = "read" /\ p.started = q.started /\ p.t = q.t /\ p.conn = q.conn
        /\ p.aborted = q.aborted /\ p.signal = q.signal /\ p.lines = q.lines
    BY <1>1 DEF Handler
  <2>3. Same(p, q) /\ Written(p, q)
    BY <1>1 DEF Handler, Same, Written
  <2>. HIDE DEF p
  <2>4. Engaged(q)
    BY <1>5 DEF Sound
  <2>5. Halted(p) /\ (p.aborted => p.signal /\ p.conn \in {"closed", "destroyed"})
    BY <1>5, <2>2, <2>4 DEF Engaged, Halted
  <2>6. Engaged(p)
    BY <1>1, <2>2, <2>3, <2>4, <2>5, StaysEngaged
  <2>7. Proceeds(p, q)
    BY <1>1, <2>2, <2>3, <2>6 DEF Proceeds, Sound, Same, Handler
  <2>. QED
    BY <2>7 DEF p
<1>. QED
  BY <1>2, <1>3, <1>4, <1>5

\* The upstream's request is over: what the handler knows is the same.
LEMMA UpstreamOver ==
  ASSUME NEW q \in Handler, Engaged(q)
  PROVE  LET o == [q EXCEPT !.upstream = "over"]
         IN  /\ o \in Handler /\ Engaged(o) /\ o.pc = q.pc /\ o.started = q.started /\ o.upstream = "over"
             /\ \A r : Good(r, o) => Good(r, q)
<1>. DEFINE o == [q EXCEPT !.upstream = "over"]
<1>1. /\ o \in Handler /\ o.upstream = "over" /\ o.pc = q.pc /\ o.started = q.started /\ o.t = q.t
      /\ o.conn = q.conn /\ o.aborted = q.aborted /\ o.signal = q.signal
  BY DEF Handler
<1>2. Same(o, q) /\ Written(o, q)
  BY DEF Handler, Same, Written
<1>. HIDE DEF o
<1>3. Halted(o) /\ (o.aborted => o.signal /\ o.conn \in {"closed", "destroyed"})
  BY <1>1 DEF Halted, Engaged
<1>4. Engaged(o)
  BY <1>1, <1>2, <1>3, StaysEngaged
<1>5. \A r : Good(r, o) => Good(r, q)
  BY <1>1, <1>2 DEF Good, Moves, Same
<1>. QED
  BY <1>1, <1>4, <1>5 DEF o

\* How it ended, and what was left in the buffer, is put down.
LEMMA Concluded ==
  ASSUME NEW q \in Handler, Engaged(q), NEW cause \in {"end", "left"}, NEW tailError \in BOOLEAN
  PROVE  LET p == [q EXCEPT !.cause = cause, !.tailError = tailError]
         IN  /\ p \in Handler /\ Engaged(p) /\ p.cause = cause /\ p.tailError = tailError
             /\ p.protocol = q.protocol /\ p.stream = q.stream /\ p.upstream = q.upstream /\ p.conn = q.conn
             /\ \A r : Good(r, p) => Good(r, q)
<1>. DEFINE p == [q EXCEPT !.cause = cause, !.tailError = tailError]
<1>1. /\ p \in Handler /\ p.cause = cause /\ p.tailError = tailError
  BY DEF Handler
<1>2. /\ p.pc = q.pc /\ p.started = q.started /\ p.t = q.t /\ p.conn = q.conn /\ p.upstream = q.upstream
      /\ p.aborted = q.aborted /\ p.signal = q.signal /\ p.head = q.head /\ p.seen = q.seen
  BY DEF Handler
<1>3. /\ p.slot = q.slot /\ p.protocol = q.protocol /\ p.stream = q.stream
      /\ p.sawError = q.sawError /\ p.sawFinish = q.sawFinish
  BY DEF Handler
<1>. HIDE DEF p
<1>4. Tracks(q) => Tracks(p)
  BY <1>2, <1>3 DEF Tracks
<1>5. Engaged(p)
  BY <1>2, <1>3, <1>4 DEF Engaged, Halted, Shaped
<1>6. \A r : Good(r, p) => Good(r, q)
  BY <1>2, <1>3 DEF Good, Moves
<1>. QED
  BY <1>1, <1>2, <1>3, <1>5, <1>6 DEF p

\* The steps that end a handler: the upstream refuses, its answer ends, the wait for it throws, or the
\* response was destroyed.
LEMMA LastSteps ==
  ASSUME NEW q, Sound(q)
  PROVE  /\ q.pc = "forward" => Proceeds(Fail([q EXCEPT !.upstream = "over"]), q)
         /\ q.pc \in {"forward", "read"} =>
              \A cause \in {"error", "timeout", "abort"} :
                /\ cause = "timeout" \/ q.upstream = "stopped" => Proceeds(Throw(q, cause), q)
                /\ Proceeds(Throw([q EXCEPT !.upstream = "over"], cause), q)
         /\ q.pc = "read" =>
              \A tail \in Lines \cup {"none"} :
                Proceeds(AtEnd([q EXCEPT !.upstream = "over", !.cause = "end", !.tailError = (tail = "error")],
                               tail), q)
         /\ q.pc = "read" /\ q.conn = "destroyed" /\ q.protocol = "responses" /\ q.stream =>
              \A tail \in Lines \cup {"none"} :
                Proceeds(ResponsesStreamEnd([q EXCEPT !.cause = "left"], tail), q)
<1>. DEFINE o == [q EXCEPT !.upstream = "over"]
<1>1. SUFFICES ASSUME q.pc \in {"forward", "read"} PROVE
         /\ q.pc = "forward" => Proceeds(Fail(o), q)
         /\ \A cause \in {"error", "timeout", "abort"} :
              /\ cause = "timeout" \/ q.upstream = "stopped" => Proceeds(Throw(q, cause), q)
              /\ Proceeds(Throw(o, cause), q)
         /\ \A tail \in Lines \cup {"none"} :
              Proceeds(AtEnd([q EXCEPT !.upstream = "over", !.cause = "end", !.tailError = (tail = "error")],
                             tail), q)
         /\ q.conn = "destroyed" /\ q.protocol = "responses" /\ q.stream =>
              \A tail \in Lines \cup {"none"} : Proceeds(ResponsesStreamEnd([q EXCEPT !.cause = "left"], tail), q)
  OBVIOUS
<1>2. q \in Handler /\ Engaged(q) /\ (q.pc = "forward" => ~q.started)
  BY <1>1 DEF Sound
<1>3. /\ o \in Handler /\ Engaged(o) /\ o.pc = q.pc /\ o.started = q.started /\ o.upstream = "over"
      /\ \A r : Good(r, o) => Good(r, q)
  BY <1>2, UpstreamOver, Zenon
<1>4. \A r : Good(r, q) => Proceeds(r, q)
  BY GoodProceeds
<1>5. ASSUME NEW tail \in Lines \cup {"none"}
      PROVE  Proceeds(AtEnd([q EXCEPT !.upstream = "over", !.cause = "end", !.tailError = (tail = "error")],
                            tail), q)
  <2>1. PICK b \in BOOLEAN : b = (tail = "error")
    BY Zenon
  <2>. DEFINE x == [o EXCEPT !.cause = "end", !.tailError = b]
  <2>2. [q EXCEPT !.upstream = "over", !.cause = "end", !.tailError = b] = x
    BY <1>2 DEF Handler
  <2>. HIDE DEF o
  <2>3. /\ x \in Handler /\ Engaged(x) /\ x.cause = "end" /\ x.tailError = b /\ x.upstream = o.upstream
        /\ \A r : Good(r, x) => Good(r, o)
    BY <1>3, Concluded, Zenon
  <2>. HIDE DEF x
  <2>4. Exhausted(x)
    BY <1>3, <2>3 DEF Exhausted
  <2>5. Left(x, tail)
    <3>1. b => tail = "error"
      BY <2>1, Zenon
    <3>. QED
      BY <2>3, <3>1 DEF Left
  <2>6. Good(AtEnd(x, tail), x)
    BY <2>4, <2>5, AtEndEnds
  <2>7. Proceeds(AtEnd(x, tail), q)
    BY <1>3, <1>4, <2>3, <2>6
  <2>8. Proceeds(AtEnd([q EXCEPT !.upstream = "over", !.cause = "end", !.tailError = b], tail), q)
    BY <2>2, <2>7
  <2>. QED
    BY <2>1, <2>8, Zenon
<1>. HIDE DEF o
<1>6. q.pc = "forward" => Proceeds(Fail(o), q)
  <2>1. SUFFICES ASSUME q.pc = "forward" PROVE Proceeds(Fail(o), q)
    OBVIOUS
  <2>2. o.head = "none" /\ Stopped(o) /\ Shaped(o)
    BY <1>2, <1>3, <2>1 DEF Engaged, Stopped, Abandons
  <2>3. Good(Fail(o), o)
    BY <1>3, <2>2, FailEnds DEF Good
  <2>. QED
    BY <1>3, <1>4, <2>3
<1>7. ASSUME NEW cause \in {"error", "timeout", "abort"}
      PROVE  /\ cause = "timeout" \/ q.upstream = "stopped" => Proceeds(Throw(q, cause), q)
             /\ Proceeds(Throw(o, cause), q)
  <2>1. cause = "timeout" \/ q.upstream = "stopped" => Good(Throw(q, cause), q)
    BY <1>1, <1>2, ThrowEnds DEF Good
  <2>2. Good(Throw(o, cause), o)
    BY <1>1, <1>2, <1>3, ThrowEnds DEF Good
  <2>. QED
    BY <1>3, <1>4, <2>1, <2>2
<1>8. ASSUME q.conn = "destroyed", q.protocol = "responses", q.stream, NEW tail \in Lines \cup {"none"}
      PROVE  Proceeds(ResponsesStreamEnd([q EXCEPT !.cause = "left"], tail), q)
  <2>1. q.tailError \in BOOLEAN
    BY <1>2 DEF Handler
  <2>. DEFINE x == [q EXCEPT !.cause = "left", !.tailError = q.tailError]
  <2>2. [q EXCEPT !.cause = "left"] = x
    BY <1>2 DEF Handler
  <2>3. /\ x \in Handler /\ Engaged(x) /\ x.protocol = q.protocol /\ x.stream = q.stream /\ x.conn = q.conn
        /\ x.cause = "left"
        /\ \A r : Good(r, x) => Good(r, q)
    BY <1>2, <2>1, Concluded, Zenon
  <2>. HIDE DEF x
  <2>4. Exhausted(x) /\ Left(x, tail)
    BY <1>8, <2>3 DEF Exhausted, Left
  <2>5. Good(ResponsesStreamEnd(x, tail), x)
    BY <1>8, <2>3, <2>4, ResponsesStreamEnds
  <2>. QED
    BY <1>4, <2>2, <2>3, <2>5
<1>. QED
  BY <1>5, <1>6, <1>7, <1>8, Zenon

\* A line is read.
LEMMA ReadStep ==
  ASSUME NEW q, Sound(q), q.pc = "read", NEW e \in Lines, NEW full \in BOOLEAN
  PROVE  LET p == [Take(q, e) EXCEPT !.lines = @ + 1, !.pc = IF full THEN "drain" ELSE @]
         IN  Sound(p) /\ p.slot = q.slot /\ p.lines = q.lines + 1
<1>. DEFINE m == Take(q, e)
            c == IF full THEN "drain" ELSE m.pc
            n == m.lines + 1
            p == [m EXCEPT !.lines = n, !.pc = c]
<1>1. q \in Handler /\ Engaged(q) /\ (q.conn \in {"closed", "flushed"} => ~q.slot)
  BY DEF Sound
<1>2. m \in Handler /\ Engaged(m) /\ Steady(m, q)
  BY <1>1, TakeGoes
<1>. HIDE DEF m
<1>3. c \in {"read", "drain"}
  BY <1>2 DEF Steady
<1>4. n \in Nat /\ n = q.lines + 1
  BY <1>1, <1>2 DEF Handler, Steady
<1>. HIDE DEF c, n
<1>5. /\ p \in Handler /\ p.pc = c /\ p.lines = n /\ p.started = m.started /\ p.t = m.t /\ p.conn = m.conn
      /\ p.aborted = m.aborted /\ p.signal = m.signal /\ p.upstream = m.upstream
  BY <1>2, <1>3, <1>4 DEF Handler
<1>6. Same(p, m) /\ Written(p, m)
  BY <1>2 DEF Handler, Same, Written
<1>. HIDE DEF p
<1>7. Halted(p) /\ (p.aborted => p.signal /\ p.conn \in {"closed", "destroyed"})
  BY <1>2, <1>5 DEF Engaged, Halted
<1>8. Engaged(p)
  BY <1>2, <1>5, <1>6, <1>7, StaysEngaged
<1>9. Sound(p) /\ p.slot = q.slot /\ p.lines = q.lines + 1
  BY <1>1, <1>2, <1>3, <1>4, <1>5, <1>6, <1>8 DEF Sound, Same, Steady
<1>. QED
  BY <1>9 DEF p, n, c, m

\* The wait for a slow client: the watchdog may fire, the client reads, or it is cut off.
LEMMA DrainSteps ==
  ASSUME NEW q, Sound(q), q.pc = "drain"
  PROVE  /\ Proceeds([q EXCEPT !.expired = TRUE], q)
         /\ Proceeds([q EXCEPT !.pc = "read"], q)
         /\ q.conn = "open" => Proceeds(Destroy([q EXCEPT !.pc = "read"]), q)
<1>1. q \in Handler /\ Engaged(q) /\ (q.conn \in {"closed", "flushed"} => ~q.slot)
  BY DEF Sound
<1>2. ASSUME NEW p \in Handler, p.pc \in {"read", "drain"}, Engaged(p), p.slot = q.slot, p.lines = q.lines,
             p.conn = q.conn \/ p.conn = "destroyed"
      PROVE  Proceeds(p, q)
  BY <1>1, <1>2 DEF Proceeds, Sound, Handler
<1>. DEFINE w == [q EXCEPT !.expired = TRUE]
            d == [q EXCEPT !.pc = "read"]
<1>3. /\ w \in Handler /\ w.pc = q.pc /\ w.started = q.started /\ w.t = q.t /\ w.conn = q.conn
      /\ w.aborted = q.aborted /\ w.signal = q.signal /\ w.upstream = q.upstream /\ w.lines = q.lines
  BY <1>1 DEF Handler
<1>4. /\ d \in Handler /\ d.pc = "read" /\ d.started = q.started /\ d.t = q.t /\ d.conn = q.conn
      /\ d.aborted = q.aborted /\ d.signal = q.signal /\ d.upstream = q.upstream /\ d.lines = q.lines
  BY <1>1 DEF Handler
<1>5. Same(w, q) /\ Written(w, q) /\ Same(d, q) /\ Written(d, q)
  BY <1>1 DEF Handler, Same, Written
<1>. HIDE DEF w, d
<1>6. Proceeds(w, q)
  <2>1. Engaged(w)
    <3>1. Halted(w) /\ (w.aborted => w.signal /\ w.conn \in {"closed", "destroyed"})
      BY <1>1, <1>3 DEF Engaged, Halted
    <3>. QED
      BY <1>1, <1>3, <1>5, <3>1, StaysEngaged
  <2>. QED
    BY <1>2, <1>3, <1>5, <2>1 DEF Same
<1>7. Engaged(d)
  <2>1. Halted(d) /\ (d.aborted => d.signal /\ d.conn \in {"closed", "destroyed"})
    BY <1>1, <1>4 DEF Engaged, Halted
  <2>. QED
    BY <1>1, <1>4, <1>5, <2>1, StaysEngaged
<1>8. Proceeds(d, q)
  BY <1>2, <1>4, <1>5, <1>7 DEF Same
<1>9. ASSUME q.conn = "open" PROVE Proceeds(Destroy(d), q)
  <2>. DEFINE p == Destroy(d)
  <2>1. /\ p \in Handler /\ Same(p, d) /\ Written(p, d) /\ p.started = d.started
        /\ p.pc = d.pc /\ p.t = d.t /\ p.lines = d.lines /\ p.conn = "destroyed"
        /\ p.aborted = d.aborted /\ p.signal = d.signal /\ p.upstream = d.upstream
    BY <1>4, <1>9, DestroyFacts
  <2>. HIDE DEF p
  <2>2. Engaged(p)
    <3>1. p.conn \in {"closed", "destroyed"}
      BY <2>1
    <3>. QED
      BY <1>4, <1>7, <2>1, <3>1, GoneEngaged
  <2>3. Proceeds(p, q)
    BY <1>2, <1>4, <1>5, <2>1, <2>2 DEF Same
  <2>. QED
    BY <2>3 DEF p
<1>. QED
  BY <1>6, <1>8, <1>9 DEF w, d

\* The response is handed over, or its connection closes: whatever the handler is at, its place is
\* free, and it keeps what it was sound about.
LEMMA GivenBack ==
  ASSUME NEW q, Sound(q)
  PROVE  /\ q.conn = "ended" =>
              LET p == [q EXCEPT !.slot = FALSE, !.conn = "flushed"]
              IN  Sound(p) /\ ~p.slot /\ p.lines = q.lines
         /\ q.pc # "idle" =>
              LET p == [OnClose(q) EXCEPT !.slot = FALSE, !.conn = "closed"]
              IN  Sound(p) /\ ~p.slot /\ p.lines = q.lines
<1>1. q \in Handler /\ q.pc \in {"idle", "body", "init", "forward", "read", "drain", "done"}
  BY DEF Sound, Handler
<1>2. ASSUME q.conn = "ended"
      PROVE  LET p == [q EXCEPT !.slot = FALSE, !.conn = "flushed"]
             IN  Sound(p) /\ ~p.slot /\ p.lines = q.lines
  <2>. DEFINE p == [q EXCEPT !.slot = FALSE, !.conn = "flushed"]
  <2>1. q.pc = "done" /\ Finished(q)
    <3>1. Idle.conn = "open"
      BY DEF Idle
    <3>2. q.pc # "idle"
      BY <1>2, <3>1 DEF Sound
    <3>. QED
      BY <1>1, <1>2, <3>2 DEF Sound, Engaged
  <2>2. /\ p \in Handler /\ ~p.slot /\ p.conn = "flushed" /\ p.pc = q.pc /\ p.lines = q.lines /\ p.head = q.head
        /\ p.signal = q.signal /\ p.upstream = q.upstream /\ p.seen = q.seen /\ p.protocol = q.protocol
    BY <1>1 DEF Handler
  <2>3. /\ p.cause = q.cause /\ p.sawError = q.sawError /\ p.sawFinish = q.sawFinish
        /\ p.tailError = q.tailError /\ p.stream = q.stream
    BY <1>1 DEF Handler
  <2>. HIDE DEF p
  <2>4. Finished(p)
    BY <1>2, <2>1, <2>2, <2>3 DEF Finished, Stopped, Abandons, Halted, Shaped, Honest, Earned, DropsTail
  <2>5. Sound(p)
    BY <2>1, <2>2, <2>4 DEF Sound
  <2>. QED
    BY <2>2, <2>5 DEF p
<1>3. ASSUME q.pc # "idle"
      PROVE  LET p == [OnClose(q) EXCEPT !.slot = FALSE, !.conn = "closed"]
             IN  Sound(p) /\ ~p.slot /\ p.lines = q.lines
  <2>. DEFINE c == OnClose(q)
              m == [c EXCEPT !.conn = "closed"]
              p == [c EXCEPT !.slot = FALSE, !.conn = "closed"]
  <2>1. /\ c \in Handler /\ Same(c, q) /\ Written(c, q) /\ c.started = q.started
        /\ c.pc = q.pc /\ c.t = q.t /\ c.lines = q.lines
        /\ \/ c.aborted = q.aborted /\ c.signal = q.signal /\ c.upstream = q.upstream
           \/ c.signal /\ c.upstream = (IF q.upstream \in {"asked", "open"} THEN "stopped" ELSE q.upstream)
    BY <1>1, OnCloseFacts
  <2>. HIDE DEF c
  <2>2. /\ p \in Handler /\ ~p.slot /\ p.conn = "closed" /\ p.pc = c.pc /\ p.lines = c.lines
        /\ p.aborted = c.aborted /\ p.signal = c.signal /\ p.upstream = c.upstream /\ p.started = c.started
        /\ p.t = c.t
    BY <2>1 DEF Handler
  <2>3. /\ p.protocol = c.protocol /\ p.stream = c.stream /\ p.head = c.head /\ p.seen = c.seen
        /\ p.cause = c.cause /\ p.sawError = c.sawError /\ p.sawFinish = c.sawFinish
    BY <2>1 DEF Handler
  <2>. HIDE DEF p
  <2>4. /\ p.protocol = q.protocol /\ p.stream = q.stream /\ p.head = q.head /\ p.seen = q.seen
        /\ p.cause = q.cause /\ p.sawError = q.sawError /\ p.sawFinish = q.sawFinish /\ p.pc = q.pc /\ p.lines = q.lines
        /\ p.started = q.started /\ p.t = q.t
    BY <2>1, <2>2, <2>3 DEF Same, Written
  <2>5. \/ p.aborted = q.aborted /\ p.signal = q.signal /\ p.upstream = q.upstream
        \/ p.signal /\ p.upstream = (IF q.upstream \in {"asked", "open"} THEN "stopped" ELSE q.upstream)
    BY <2>1, <2>2
  <2>6. ASSUME q.pc # "done" PROVE Engaged(p)
    <3>1. Engaged(q)
      BY <1>3, <2>6 DEF Sound
    <3>2. Halted(p) /\ (p.aborted => p.signal)
      BY <2>5, <3>1 DEF Engaged, Halted
    <3>. QED
      BY <2>2, <2>4, <3>1, <3>2 DEF Engaged, Shaped
  <2>7. ASSUME q.pc = "done" PROVE Finished(p)
    <3>1. Finished(q)
      BY <2>7 DEF Sound
    <3>2. Stopped(p)
      BY <2>4, <2>5, <3>1 DEF Finished, Stopped, Abandons, Halted
    <3>. QED
      BY <2>2, <2>4, <3>1, <3>2 DEF Finished, Shaped, Honest
  <2>8. p.pc \in {"body", "init"} => p.upstream = "none"
    BY <2>4, <2>5 DEF Sound
  <2>9. p.pc \in {"body", "init", "forward"} => ~p.started
    BY <2>4 DEF Sound
  <2>10. Sound(p)
    BY <1>3, <2>2, <2>4, <2>6, <2>7, <2>8, <2>9 DEF Sound
  <2>. QED
    BY <2>2, <2>4, <2>10 DEF p, c
<1>. QED
  BY <1>2, <1>3

\* A connection that is free again is given its next request.
LEMMA ReuseStep ==
  ASSUME NEW q, Sound(q), q.conn \in {"closed", "flushed"}
  PROVE  Proceeds(Idle, q)
<1>1. ~q.slot /\ q \in Handler
  BY DEF Sound
<1>2. Idle.slot = FALSE /\ Idle.lines = 0
  BY DEF Idle
<1>3. Idle.slot = q.slot
  <2>1. q.slot \in BOOLEAN
    BY <1>1 DEF Handler
  <2>. QED
    BY <1>1, <1>2, <2>1
<1>4. Idle.lines <= q.lines
  BY <1>1, <1>2 DEF Handler
<1>. QED
  BY <1>3, <1>4, IdleSound DEF Proceeds

\* The requests that are counted.
Counted == {r \in Request : s[r].slot}

\* The inductive invariant.
IInv ==
  /\ s \in [Request -> Handler] /\ inflight \in Nat
  /\ \A r \in Request : Sound(s[r]) /\ s[r].lines <= MaxLines[r]
  /\ InflightExact

\* A step of one request keeps it, if the request is sound and the count follows its place.
LEMMA StepKeeps ==
  ASSUME IInv, NEW r \in Request, NEW p, Become(r, p), Sound(p), p.lines <= MaxLines[r],
         \/ p.slot = s[r].slot /\ inflight' = inflight
         \/ p.slot /\ ~s[r].slot /\ inflight < MaxInflight /\ inflight' = inflight + 1
         \/ ~p.slot /\ Release(s[r])
  PROVE  IInv'
<1>. USE DEF IInv
<1>1. s' = [s EXCEPT ![r] = p] /\ p \in Handler
  BY DEF Become, Sound
<1>2. s' \in [Request -> Handler] /\ s'[r] = p /\ \A o \in Request \ {r} : s'[o] = s[o]
  BY <1>1
<1>3. \A o \in Request : Sound(s'[o]) /\ s'[o].lines <= MaxLines[o]
  BY <1>2
<1>4. IsFiniteSet(Counted) /\ Cardinality(Counted) \in Nat
  <2>1. IsFiniteSet(Request) /\ Counted \in SUBSET Request
    BY KernelAssumption DEF Counted
  <2>2. IsFiniteSet(Counted)
    BY <2>1, FS_Subset
  <2>. QED
    BY <2>2, FS_CardinalityType
<1>5. inflight = Cardinality(Counted) /\ inflight <= MaxInflight
  BY DEF InflightExact, Counted
<1>6. MaxInflight \in Nat
  BY KernelAssumption
<1>7. p.slot \in BOOLEAN /\ s[r].slot \in BOOLEAN
  BY <1>1 DEF Handler
<1>8. s[r].slot <=> r \in Counted
  BY DEF Counted
<1>9. Counted' = IF p.slot THEN Counted \cup {r} ELSE Counted \ {r}
  BY <1>2 DEF Counted
<1>10. /\ IsFiniteSet(Counted \cup {r}) /\ IsFiniteSet(Counted \ {r})
       /\ Cardinality(Counted \cup {r}) = IF r \in Counted THEN Cardinality(Counted) ELSE Cardinality(Counted) + 1
       /\ Cardinality(Counted \ {r}) = IF r \in Counted THEN Cardinality(Counted) - 1 ELSE Cardinality(Counted)
  BY <1>4, FS_AddElement, FS_RemoveElement
<1>11. inflight' \in Nat /\ inflight' = Cardinality(Counted') /\ inflight' <= MaxInflight
  <2>1. CASE p.slot = s[r].slot /\ inflight' = inflight
    <3>1. Cardinality(Counted') = Cardinality(Counted)
      <4>1. CASE p.slot
        BY <1>8, <1>9, <1>10, <2>1, <4>1
      <4>2. CASE ~p.slot
        <5>1. r \notin Counted
          BY <1>7, <1>8, <2>1, <4>2
        <5>. QED
          BY <1>9, <1>10, <4>2, <5>1
      <4>. QED
        BY <4>1, <4>2
    <3>. QED
      BY <1>5, <2>1, <3>1
  <2>2. CASE p.slot /\ ~s[r].slot /\ inflight < MaxInflight /\ inflight' = inflight + 1
    BY <1>5, <1>6, <1>8, <1>9, <1>10, <2>2
  <2>3. CASE ~p.slot /\ Release(s[r])
    <3>1. CASE s[r].slot
      <4>1. Cardinality(Counted) - 1 \in Nat
        <5>1. IsFiniteSet(Counted \ {r})
          BY <1>10
        <5>2. Cardinality(Counted \ {r}) \in Nat
          BY <5>1, FS_CardinalityType
        <5>. QED
          BY <1>8, <1>10, <3>1, <5>2
      <4>2. inflight > 0
        BY <1>4, <1>5, <4>1
      <4>3. inflight' = inflight - 1
        BY <2>3, <3>1, <4>2 DEF Release
      <4>. QED
        BY <1>4, <1>5, <1>6, <1>8, <1>9, <1>10, <2>3, <3>1, <4>1, <4>3
    <3>2. CASE ~s[r].slot
      <4>1. inflight' = inflight
        BY <2>3, <3>2 DEF Release
      <4>. QED
        BY <1>5, <1>8, <1>9, <1>10, <2>3, <3>2, <4>1
    <3>. QED
      BY <3>1, <3>2
  <2>. QED
    BY <2>1, <2>2, <2>3
<1>12. InflightExact'
  BY <1>11 DEF InflightExact, Counted
<1>. QED
  BY <1>2, <1>3, <1>11, <1>12

\* A step that leaves the count alone.
LEMMA DoKeeps ==
  ASSUME IInv, NEW r \in Request, NEW p, Do(r, p), Proceeds(p, s[r])
  PROVE  IInv'
<1>1. p.lines <= MaxLines[r]
  <2>1. p.lines \in Nat /\ s[r].lines \in Nat /\ p.lines <= s[r].lines /\ s[r].lines <= MaxLines[r]
    BY DEF Proceeds, Sound, Handler, IInv
  <2>2. MaxLines[r] \in Nat
    BY KernelAssumption
  <2>. QED
    BY <2>1, <2>2
<1>2. Become(r, p) /\ inflight' = inflight /\ Sound(p) /\ p.slot = s[r].slot
  BY DEF Do, Proceeds
<1>. QED
  BY <1>1, <1>2, StepKeeps

\* The inductive invariant holds initially ...
LEMMA InitHolds == Init => IInv
<1>. SUFFICES ASSUME Init PROVE IInv
  OBVIOUS
<1>1. s = [r \in Request |-> Idle] /\ inflight = 0
  BY DEF Init
<1>2. Sound(Idle) /\ Idle \in Handler /\ Idle.lines = 0 /\ ~Idle.slot
  BY IdleSound, IdleType DEF Idle
<1>3. \A r \in Request : s[r] = Idle
  BY <1>1
<1>4. \A r \in Request : Sound(s[r]) /\ s[r].lines <= MaxLines[r]
  BY <1>2, <1>3, KernelAssumption
<1>5. InflightExact
  <2>1. {r \in Request : s[r].slot} = {}
    BY <1>2, <1>3
  <2>. QED
    <3>1. Cardinality({r \in Request : s[r].slot}) = 0
      BY <2>1, FS_EmptySet
    <3>2. 0 <= MaxInflight
      BY KernelAssumption
    <3>. QED
      BY <1>1, <3>1, <3>2 DEF InflightExact
<1>. QED
  BY <1>1, <1>2, <1>4, <1>5 DEF IInv

\* ... and every step keeps it.
LEMMA NextKeeps == IInv /\ [Next]_vars => IInv'
<1>. SUFFICES ASSUME IInv, [Next]_vars PROVE IInv'
  OBVIOUS
<1>1. CASE UNCHANGED vars
  BY <1>1 DEF IInv, InflightExact, vars
<1>2. CASE Next
  <2>1. PICK r \in Request :
          \/ Server(r) \/ Handle(r) \/ WatchdogFires(r)
          \/ Drained(r) \/ DrainTimeout(r) \/ Finish(r) \/ Close(r) \/ Reuse(r)
    BY <1>2 DEF Next
  <2>2. Sound(s[r]) /\ s[r].lines <= MaxLines[r] /\ s[r].lines \in Nat /\ MaxLines[r] \in Nat
    BY KernelAssumption DEF IInv, Sound, Handler
  <2>3. ASSUME NEW p, Do(r, p), Proceeds(p, s[r]) PROVE IInv'
    BY <2>3, DoKeeps
  <2>4. CASE Exempt(r)
    BY <2>2, <2>3, <2>4, AtOnce DEF Exempt
  <2>5. CASE Refuse(r)
    BY <2>2, <2>3, <2>5, AtOnce DEF Refuse
  <2>6. ASSUME NEW kind \in KindsOf[r], Accept(r, kind[1], kind[2]) PROVE IInv'
    <3>1. kind[1] \in Protocols /\ kind[2] \in BOOLEAN
      BY KernelAssumption
    <3>. DEFINE p == [s[r] EXCEPT !.pc = "body", !.protocol = kind[1], !.stream = kind[2], !.slot = TRUE]
    <3>2. s[r].pc = "idle" /\ inflight < MaxInflight /\ inflight' = inflight + 1 /\ Become(r, p)
      BY <2>6 DEF Accept
    <3>3. Sound(p) /\ p.slot /\ ~s[r].slot /\ p.lines <= s[r].lines
      BY <2>2, <3>1, <3>2, Admitted, Zenon
    <3>. HIDE DEF p
    <3>4. p.lines <= MaxLines[r]
      BY <2>2, <3>3 DEF Sound, Handler
    <3>. QED
      BY <3>2, <3>3, <3>4, StepKeeps
  <2>7. CASE Reject(r)
    <3>1. s[r].pc = "body" /\ Do(r, Fail(s[r]))
      BY <2>7 DEF Reject
    <3>2. Proceeds(Fail(s[r]), s[r])
      BY <2>2, <3>1, EarlySteps, Zenon
    <3>. QED
      BY <2>3, <3>1, <3>2
  <2>8. CASE Begin(r)
    <3>1. s[r].pc = "body" /\ Do(r, [s[r] EXCEPT !.pc = "init", !.listening = (s[r].protocol = "responses")])
      BY <2>8 DEF Begin
    <3>2. Proceeds([s[r] EXCEPT !.pc = "init", !.listening = (s[r].protocol = "responses")], s[r])
      BY <2>2, <3>1, EarlySteps, Zenon
    <3>. QED
      BY <2>3, <3>1, <3>2
  <2>9. CASE Initialized(r)
    <3>1. s[r].pc = "init" /\ Do(r, [s[r] EXCEPT !.pc = "forward", !.upstream = IF s[r].signal THEN "stopped" ELSE "asked"])
      BY <2>9 DEF Initialized
    <3>2. Proceeds([s[r] EXCEPT !.pc = "forward", !.upstream = IF s[r].signal THEN "stopped" ELSE "asked"], s[r])
      BY <2>2, <3>1, EarlySteps, Zenon
    <3>. QED
      BY <2>3, <3>1, <3>2
  <2>10. CASE ForwardFails(r)
    <3>1. s[r].pc = "forward" /\ Do(r, Throw([s[r] EXCEPT !.upstream = "over"], "error"))
      BY <2>10 DEF ForwardFails
    <3>2. Proceeds(Throw([s[r] EXCEPT !.upstream = "over"], "error"), s[r])
      BY <2>2, <3>1, LastSteps, Zenon
    <3>. QED
      BY <2>3, <3>1, <3>2
  <2>11. CASE UpstreamRefuses(r)
    <3>1. s[r].pc = "forward" /\ Do(r, Fail([s[r] EXCEPT !.upstream = "over"]))
      BY <2>11 DEF UpstreamRefuses
    <3>2. Proceeds(Fail([s[r] EXCEPT !.upstream = "over"]), s[r])
      BY <2>2, <3>1, LastSteps, Zenon
    <3>. QED
      BY <2>3, <3>1, <3>2
  <2>12. CASE UpstreamAnswers(r)
    <3>1. s[r].pc = "forward" /\ s[r].upstream = "asked" /\ Do(r, [s[r] EXCEPT !.pc = "read", !.upstream = "open", !.listening = TRUE])
      BY <2>12 DEF UpstreamAnswers
    <3>2. Proceeds([s[r] EXCEPT !.pc = "read", !.upstream = "open", !.listening = TRUE], s[r])
      BY <2>2, <3>1, EarlySteps, Zenon
    <3>. QED
      BY <2>3, <3>1, <3>2
  <2>13. ASSUME NEW e \in Lines, NEW full \in BOOLEAN, ReadLine(r, e, full) PROVE IInv'
    <3>. DEFINE p == [Take(s[r], e) EXCEPT !.lines = @ + 1, !.pc = IF full THEN "drain" ELSE @]
    <3>1. s[r].pc = "read" /\ s[r].lines < MaxLines[r] /\ Become(r, p) /\ inflight' = inflight
      BY <2>13 DEF ReadLine, Do
    <3>2. Sound(p) /\ p.slot = s[r].slot /\ p.lines = s[r].lines + 1
      BY <2>2, <2>13, <3>1, ReadStep, Zenon
    <3>. HIDE DEF p
    <3>3. p.lines <= MaxLines[r]
      BY <2>2, <3>1, <3>2
    <3>. QED
      BY <3>1, <3>2, <3>3, StepKeeps
  <2>14. ASSUME NEW tail \in Lines \cup {"none"}, ReadEnds(r, tail) PROVE IInv'
    <3>1. /\ s[r].pc = "read"
          /\ Do(r, AtEnd([s[r] EXCEPT !.upstream = "over", !.cause = "end", !.tailError = (tail = "error")], tail))
      BY <2>14 DEF ReadEnds
    <3>2. Proceeds(AtEnd([s[r] EXCEPT !.upstream = "over", !.cause = "end", !.tailError = (tail = "error")], tail), s[r])
      BY <2>2, <3>1, LastSteps, Zenon
    <3>. QED
      BY <2>3, <3>1, <3>2
  <2>15. CASE ReadFails(r)
    <3>1. s[r].pc = "read" /\ Do(r, Throw([s[r] EXCEPT !.upstream = "over"], "error"))
      BY <2>15 DEF ReadFails
    <3>2. Proceeds(Throw([s[r] EXCEPT !.upstream = "over"], "error"), s[r])
      BY <2>2, <3>1, LastSteps, Zenon
    <3>. QED
      BY <2>3, <3>1, <3>2
  <2>16. CASE IdleTimeout(r)
    <3>1. s[r].pc = "read" /\ Do(r, Throw(s[r], "timeout"))
      BY <2>16 DEF IdleTimeout
    <3>2. Proceeds(Throw(s[r], "timeout"), s[r])
      BY <2>2, <3>1, LastSteps, Zenon
    <3>. QED
      BY <2>3, <3>1, <3>2
  <2>17. CASE StaleTimeout(r)
    <3>1. s[r].pc = "read" /\ Do(r, Throw(s[r], "timeout"))
      BY <2>17 DEF StaleTimeout
    <3>2. Proceeds(Throw(s[r], "timeout"), s[r])
      BY <2>2, <3>1, LastSteps, Zenon
    <3>. QED
      BY <2>3, <3>1, <3>2
  <2>18. CASE Aborted(r)
    <3>1. s[r].pc \in {"forward", "read"} /\ s[r].upstream = "stopped" /\ Do(r, Throw(s[r], "abort"))
      BY <2>18 DEF Aborted
    <3>2. Proceeds(Throw(s[r], "abort"), s[r])
      BY <2>2, <3>1, LastSteps, Zenon
    <3>. QED
      BY <2>3, <3>1, <3>2
  <2>19. CASE WatchdogFires(r)
    BY <2>2, <2>3, <2>19, DrainSteps DEF WatchdogFires
  <2>20. CASE Drained(r)
    BY <2>2, <2>3, <2>20, DrainSteps DEF Drained
  <2>21. CASE DrainTimeout(r)
    BY <2>2, <2>3, <2>21, DrainSteps DEF DrainTimeout
  <2>22. CASE Finish(r)
    <3>. DEFINE p == [s[r] EXCEPT !.slot = FALSE, !.conn = "flushed"]
    <3>1. Become(r, p) /\ Release(s[r]) /\ s[r].conn = "ended"
      BY <2>22 DEF Finish
    <3>2. Sound(p) /\ ~p.slot /\ p.lines = s[r].lines
      BY <2>2, <3>1, GivenBack, Zenon
    <3>. HIDE DEF p
    <3>. QED
      BY <2>2, <3>1, <3>2, StepKeeps
  <2>23. CASE Close(r)
    <3>. DEFINE p == [OnClose(s[r]) EXCEPT !.slot = FALSE, !.conn = "closed"]
    <3>1. Become(r, p) /\ Release(s[r]) /\ s[r].pc # "idle"
      BY <2>23 DEF Close
    <3>2. Sound(p) /\ ~p.slot /\ p.lines = s[r].lines
      BY <2>2, <3>1, GivenBack, Zenon
    <3>. HIDE DEF p
    <3>. QED
      BY <2>2, <3>1, <3>2, StepKeeps
  <2>24. CASE Reuse(r)
    BY <2>2, <2>3, <2>24, ReuseStep DEF Reuse
  <2>25. ASSUME NEW tail \in Lines \cup {"none"}, LeavesDestroyed(r, tail) PROVE IInv'
    <3>1. /\ s[r].pc = "read" /\ s[r].conn = "destroyed" /\ s[r].protocol = "responses" /\ s[r].stream
          /\ Do(r, ResponsesStreamEnd([s[r] EXCEPT !.cause = "left"], tail))
      BY <2>25 DEF LeavesDestroyed
    <3>2. Proceeds(ResponsesStreamEnd([s[r] EXCEPT !.cause = "left"], tail), s[r])
      BY <2>2, <3>1, LastSteps, Zenon
    <3>. QED
      BY <2>3, <3>1, <3>2
  <2>. QED
    BY <2>1, <2>4, <2>5, <2>6, <2>7, <2>8, <2>9, <2>10, <2>11, <2>12, <2>13, <2>14, <2>15, <2>16,
       <2>17, <2>18, <2>19, <2>20, <2>21, <2>22, <2>23, <2>24, <2>25 DEF Server, Handle
<1>. QED
  BY <1>1, <1>2

\* The inductive invariant always holds.
LEMMA Invariance == Spec => []IInv
BY InitHolds, NextKeeps, PTL DEF Spec
-----------------------------------------------------------------------------
(* Theorems.                                                               *)

\* The variables have the values they are meant to: a handler's locals and response stay in range,
\* whatever lines it is sent and whenever the connections break.
THEOREM TypeCorrect == Spec => []TypeOK
<1>1. IInv => TypeOK
  <2>. SUFFICES ASSUME IInv PROVE TypeOK
    OBVIOUS
  <2>1. inflight \in 0 .. Cardinality(Request)
    <3>1. IsFiniteSet(Request) /\ Counted \in SUBSET Request
      BY KernelAssumption DEF Counted
    <3>2. Cardinality(Counted) <= Cardinality(Request) /\ Cardinality(Request) \in Nat
      BY <3>1, FS_Subset, FS_CardinalityType
    <3>. QED
      BY <3>2 DEF IInv, InflightExact, Counted
  <2>2. \A q \in Handler : DOMAIN q = DOMAIN Idle
    BY DEF Handler, Idle
  <2>3. \A q \in Handler : DOMAIN q.t = DOMAIN Fresh /\ DOMAIN q.seen = DOMAIN Unseen
    BY DEF Handler, Locals, View, Fresh, Unseen
  <2>4. \A q \in Handler :
          /\ q.pc \in {"idle", "body", "init", "forward", "read", "drain", "done"}
          /\ q.protocol \in Protocols /\ q.lines \in Nat
          /\ q.upstream \in {"none", "asked", "open", "over", "stopped"}
          /\ q.head \in {"none", "ok", "error", "clash"}
          /\ q.conn \in {"open", "ended", "flushed", "closed", "destroyed", "cut"}
          /\ q.t.block \in {"none", "thinking", "text", "tool"} /\ q.t.index \in Nat /\ q.t.next \in Nat
    BY DEF Handler, Locals
  <2>5. ASSUME NEW r \in Request PROVE s[r] \in Handler /\ s[r].lines \in 0 .. MaxLines[r]
    <3>1. s[r] \in Handler /\ s[r].lines <= MaxLines[r] /\ MaxLines[r] \in Nat
      BY KernelAssumption DEF IInv
    <3>. QED
      BY <2>4, <3>1
  <2>. QED
    BY <2>1, <2>2, <2>3, <2>4, <2>5 DEF TypeOK
<1>. QED
  BY <1>1, Invariance, PTL

\* No handler answers twice: the head of a response is written at most once, by a stream's first
\* write or by an answer in JSON, on every path through the handlers and their catches.
THEOREM AnswersOnce == Spec => []OneReply
<1>1. IInv => OneReply
  <2>1. \A q : Sound(q) => q.head # "clash"
    <3>1. Idle.head = "none"
      BY DEF Idle
    <3>. QED
      BY <3>1 DEF Sound, Engaged, Finished
  <2>. QED
    BY <2>1 DEF IInv, OneReply
<1>. QED
  BY <1>1, Invariance, PTL

\* A request logged as a success was earned.
LEMMA SuccessEarned ==
  ASSUME NEW q, Sound(q), Success(q)
  PROVE  /\ q.cause = "end" /\ ~q.sawError /\ (q.tailError => DropsTail(q))
         /\ q.protocol = "responses" => q.sawFinish
<1>1. Finished(q) /\ q.conn \in {"ended", "flushed"} /\ q.head = "ok" /\ Status(q.seen, q.stream) = "success"
  BY DEF Success, Sound
<1>2. ~q.seen.failure /\ q.seen.output
  BY <1>1 DEF Status
<1>. QED
  BY <1>1, <1>2 DEF Finished, Honest, Earned

\* An answer that broke off, timed out or reported an error is never logged as a success, unless the
\* error was in a last line without a line feed and the handler is one that drops it.
THEOREM FailuresShow == Spec => []FailureShows
<1>1. IInv => FailureShows
  BY SuccessEarned DEF IInv, FailureShows
<1>. QED
  BY <1>1, Invariance, PTL

\* A Responses answer is logged as a success only after the upstream's finish event.
THEOREM CompletionsAreReal == Spec => []CompletionIsReal
<1>1. IInv => CompletionIsReal
  BY SuccessEarned DEF IInv, CompletionIsReal
<1>. QED
  BY <1>1, Invariance, PTL

\* The streams follow their protocols, however long the upstream's answer is and in whatever order
\* its lines come.
THEOREM StreamsFollow == Spec => []WellFormed
<1>1. IInv => WellFormed
  <2>1. \A q : Sound(q) => Shaped(q)
    <3>1. Shaped(Idle)
      BY DEF Shaped, Idle, Unseen
    <3>. QED
      BY <3>1 DEF Sound, Engaged, Finished
  <2>. QED
    BY <2>1 DEF IInv, WellFormed, Shaped
<1>. QED
  BY <1>1, Invariance, PTL

\* A handler that is done leaves no upstream request behind, unless it Abandons it.
THEOREM NothingGoesOn == Spec => []UpstreamStopped
<1>1. IInv => UpstreamStopped
  BY DEF IInv, Sound, Finished, Stopped, UpstreamStopped
<1>. QED
  BY <1>1, Invariance, PTL

\* A place is taken per request admitted and given back once, and the cap on requests in flight holds.
THEOREM PlacesAreCounted == Spec => []InflightExact
<1>1. IInv => InflightExact
  BY DEF IInv
<1>. QED
  BY <1>1, Invariance, PTL
=============================================================================
