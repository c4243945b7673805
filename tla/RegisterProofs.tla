--------------------------- MODULE RegisterProofs --------------------------
(***************************************************************************)
(* Proofs about the register phase, for every Cookfile and request.  First *)
(* sequences and ReachFrom; then type correctness together with who owns   *)
(* the open slot (TypeInv), from which CapturedByOwner follows.  Every     *)
(* step is one of a few moves of the stack (StepMoves), and over those go  *)
(* the invariants that follow: one frame visits a name (VisitInv), each    *)
(* frame does what the one below asked for (WorkInv), what a slot requires *)
(* was forced (SlotInv), entries and marks agree (EntryInv), what is       *)
(* reachable is at work or settled (PassInv): with them every body the     *)
(* engine closes over ran, and none twice (EachBodyOnce).  Last, the       *)
(* requires registered have no cycle (AcyclicInv), and path is the route   *)
(* of the stack (RouteInv), so a cycle reported is one (CyclesExact).      *)
(***************************************************************************)
EXTENDS Register, FiniteSetTheorems, SequenceTheorems, WellFoundedInduction, TLAPS
----------------------------------------------------------------------------
(* A sequence, whatever it is of. *)
IsSeq(s) == s \in Seq({s[i] : i \in DOMAIN s})

(* st is t with f pushed on it. *)
Cons(st, f, t) ==
  /\ IsSeq(st) /\ IsSeq(t)
  /\ Len(t) \in Nat /\ Len(st) = Len(t) + 1
  /\ DOMAIN t = 1 .. Len(t) /\ DOMAIN st = 1 .. Len(t) + 1
  /\ st[1] = f /\ \A i \in 1 .. Len(t) : st[i + 1] = t[i]

(* What is in Seq(S) is a sequence of what it holds. *)
LEMMA SeqIs == ASSUME NEW S, NEW s \in Seq(S) PROVE IsSeq(s)
<1>1. Len(s) \in Nat /\ s \in [1 .. Len(s) -> S] /\ DOMAIN s = 1 .. Len(s)
  BY LenProperties
<1> DEFINE T == {s[i] : i \in DOMAIN s}
<1>2. s \in [1 .. Len(s) -> T]  BY <1>1
<1>3. s \in Seq(T)
  <2> HIDE DEF T
  <2> QED  BY <1>1, <1>2
<1> QED  BY <1>3 DEF IsSeq

(* The domain of a sequence is 1 up to its length, and it is empty when      *)
(* that is 0.                                                                *)
LEMMA SeqHas ==
  ASSUME NEW s, IsSeq(s)
  PROVE  Len(s) \in Nat /\ DOMAIN s = 1 .. Len(s) /\ (s # <<>> <=> Len(s) > 0)
<1> DEFINE T == {s[i] : i \in DOMAIN s}
<1>1. s \in Seq(T)  BY DEF IsSeq
<1> HIDE DEF T
<1>2. Len(s) \in Nat /\ DOMAIN s = 1 .. Len(s)  BY <1>1, LenProperties
<1>3. s # <<>> => Len(s) \in Nat \ {0}  BY <1>1, EmptySeq
<1>4. Len(<<>>) = 0  BY EmptySeq
<1> QED  BY <1>2, <1>3, <1>4

(* Pushing makes a Cons. *)
LEMMA ConsSeq ==
  ASSUME NEW t, IsSeq(t), NEW f
  PROVE  Cons(<<f>> \o t, f, t)
<1> DEFINE T == {t[i] : i \in DOMAIN t}
           S == T \cup {f}
           st == <<f>> \o t
<1>1. t \in Seq(T)  BY DEF IsSeq
<1> HIDE DEF T
<1>2. t \in Seq(S)  BY <1>1, SeqMonotonic
<1>3. f \in S  OBVIOUS
<1> HIDE DEF S
<1>4. <<f>> \in Seq(S) /\ Len(<<f>>) = 1 /\ <<f>>[1] = f  BY <1>3
<1>5. /\ st \in Seq(S) /\ Len(st) = 1 + Len(t)
      /\ \A i \in 1 .. 1 + Len(t) : st[i] = IF i <= 1 THEN <<f>>[i] ELSE t[i - 1]
  BY <1>2, <1>4, ConcatProperties
<1>6. Len(t) \in Nat /\ DOMAIN t = 1 .. Len(t)  BY <1>2, LenProperties
<1>7. DOMAIN st = 1 .. Len(st)  BY <1>5, LenProperties
<1>8. IsSeq(st)  BY <1>5, SeqIs
<1> HIDE DEF st
<1>9. st[1] = f  BY <1>4, <1>5, <1>6
<1>10. ASSUME NEW i \in 1 .. Len(t) PROVE st[i + 1] = t[i]
  <2>1. i + 1 \in 1 .. 1 + Len(t) /\ ~(i + 1 <= 1) /\ (i + 1) - 1 = i  BY <1>6
  <2> QED  BY <2>1, <1>5
<1> QED  BY <1>5, <1>6, <1>7, <1>8, <1>9, <1>10 DEF Cons, st

(* A stack that is not empty is its head pushed on its tail. *)
LEMMA SplitSeq ==
  ASSUME NEW s, IsSeq(s), s # <<>>
  PROVE  Cons(s, Head(s), Tail(s))
<1> DEFINE T == {s[i] : i \in DOMAIN s}
<1>1. s \in Seq(T)  BY DEF IsSeq
<1> HIDE DEF T
<1>2. /\ Tail(s) \in Seq(T) /\ Len(Tail(s)) = Len(s) - 1
      /\ \A i \in 1 .. Len(Tail(s)) : Tail(s)[i] = s[i + 1]
  BY <1>1, HeadTailProperties
<1>3. Len(s) \in Nat /\ DOMAIN s = 1 .. Len(s) /\ Len(s) > 0  BY SeqHas
<1>4. DOMAIN Tail(s) = 1 .. Len(Tail(s)) /\ IsSeq(Tail(s))  BY <1>2, LenProperties, SeqIs
<1>5. Head(s) = s[1]  BY <1>1, <1>3
<1> QED  BY <1>2, <1>3, <1>4, <1>5 DEF Cons

(* The least element of a set of numbers. *)
LEMMA LeastNat ==
  ASSUME NEW T, T \subseteq Nat, T # {}
  PROVE  \E x \in T : \A y \in T : x <= y
<1>1. PICK x \in T : \A y \in T : ~ (<<y, x>> \in OpToRel(<, Nat))
  BY WFMin, NatLessThanWellFounded
<1>2. \A y \in T : ~ (y < x)
  BY <1>1 DEF OpToRel
<1> QED  BY <1>2

(* One element more at the end, the others where they were. *)
LEMMA AppendSeq ==
  ASSUME NEW s, IsSeq(s), NEW e
  PROVE  /\ IsSeq(Append(s, e)) /\ Len(Append(s, e)) = Len(s) + 1
         /\ DOMAIN Append(s, e) = 1 .. Len(s) + 1 /\ DOMAIN s = 1 .. Len(s) /\ Len(s) \in Nat
         /\ Append(s, e)[Len(s) + 1] = e
         /\ \A i \in 1 .. Len(s) : Append(s, e)[i] = s[i]
<1> DEFINE T == {s[i] : i \in DOMAIN s}
           S == T \cup {e}
<1>1. s \in Seq(T)  BY DEF IsSeq
<1> HIDE DEF T
<1>2. s \in Seq(S) /\ e \in S  BY <1>1, SeqMonotonic
<1> HIDE DEF S
<1>3. Append(s, e) \in Seq(S)  BY <1>2
<1>4. Len(s) \in Nat /\ DOMAIN s = 1 .. Len(s)  BY <1>2, LenProperties
<1>5. /\ Len(Append(s, e)) = Len(s) + 1 /\ Append(s, e)[Len(s) + 1] = e
      /\ \A i \in 1 .. Len(s) : Append(s, e)[i] = s[i]
  BY <1>2, <1>4
<1>6. DOMAIN Append(s, e) = 1 .. Len(s) + 1  BY <1>3, <1>5, LenProperties
<1> QED  BY <1>3, <1>4, <1>5, <1>6, SeqIs
----------------------------------------------------------------------------
(* Everything in S and one step further. *)
Near(step, S) == S \cup ((UNION {step[x] : x \in S}) \cap DOMAIN step)

(* The first n layers of what ReachFrom grows. *)
Layers(step, S, h, n) ==
  DOMAIN h = 0 .. n /\ h[0] = S /\ \A k \in 1 .. n : h[k] = Near(step, h[k - 1])

(* Layers can be grown as far as one likes. *)
LEMMA LayersExist ==
  ASSUME NEW step, NEW S, NEW n \in Nat
  PROVE  \E h : Layers(step, S, h, n)
<1> DEFINE T == {m \in Nat : ~ \E h : Layers(step, S, h, m)}
<1> SUFFICES ASSUME T # {} PROVE FALSE
  OBVIOUS
<1>1. PICK m \in T : \A y \in T : m <= y
  <2> HIDE DEF T
  <2>1. T \subseteq Nat  BY DEF T
  <2> QED  BY <2>1, LeastNat
<1>2. m # 0
  <2>1. Layers(step, S, [k \in 0 .. 0 |-> S], 0)  BY DEF Layers
  <2> QED  BY <2>1
<1>3. m - 1 \in Nat /\ m - 1 \notin T  BY <1>1, <1>2
<1>4. PICK h : Layers(step, S, h, m - 1)  BY <1>3
<1> DEFINE g == [k \in 0 .. m |-> IF k = m THEN Near(step, h[m - 1]) ELSE h[k]]
<1>5. Layers(step, S, g, m)
  <2>1. DOMAIN g = 0 .. m /\ g[0] = S  BY <1>2, <1>3, <1>4 DEF Layers
  <2>2. ASSUME NEW k \in 1 .. m PROVE g[k] = Near(step, g[k - 1])
    <3>1. CASE k = m  BY <3>1, <1>3
    <3>2. CASE k # m
      <4>1. k \in 1 .. m - 1  BY <3>2, <1>3
      <4>2. h[k] = Near(step, h[k - 1])  BY <4>1, <1>4 DEF Layers
      <4>3. g[k] = h[k] /\ g[k - 1] = h[k - 1]  BY <4>1
      <4> QED  BY <4>2, <4>3
    <3> QED  BY <3>1, <3>2
  <2> QED  BY <2>1, <2>2 DEF Layers
<1> QED  BY <1>5

(* Two layerings agree as far as both go. *)
LEMMA LayersAgree ==
  ASSUME NEW step, NEW S, NEW g, NEW h, NEW m \in Nat, NEW n \in Nat,
         Layers(step, S, g, m), Layers(step, S, h, n), NEW k \in Nat, k <= m, k <= n
  PROVE  g[k] = h[k]
<1> DEFINE T == {j \in Nat : j <= m /\ j <= n /\ g[j] # h[j]}
<1> SUFFICES ASSUME T # {} PROVE FALSE
  OBVIOUS
<1>1. PICK j \in T : \A y \in T : j <= y
  <2> HIDE DEF T
  <2>1. T \subseteq Nat  BY DEF T
  <2> QED  BY <2>1, LeastNat
<1>2. j # 0  BY DEF Layers
<1>3. j - 1 \in Nat /\ j - 1 \notin T  BY <1>1, <1>2
<1>4. g[j - 1] = h[j - 1]  BY <1>3
<1>5. g[j] = Near(step, g[j - 1]) /\ h[j] = Near(step, h[j - 1])  BY <1>2, <1>3 DEF Layers
<1> QED  BY <1>4, <1>5

(* What ReachFrom computes, layer by layer. *)
LEMMA ReachLayers ==
  ASSUME NEW step, NEW from
  PROVE  \E g : /\ ReachFrom(step, from) = g[Cardinality(DOMAIN step)]
                /\ g[0] = from \cap DOMAIN step /\ \A n \in Nat : g[n + 1] = Near(step, g[n])
<1> DEFINE S == from \cap DOMAIN step
           L(n) == CHOOSE h : Layers(step, S, h, n)
           G == [n \in Nat |-> L(n)[n]]
           Grown(g) == g = [n \in Nat |-> IF n = 0 THEN S
                                          ELSE g[n - 1] \cup
                                                 ((UNION {step[x] : x \in g[n - 1]}) \cap DOMAIN step)]
<1>1. \A n \in Nat : Layers(step, S, L(n), n)  BY LayersExist
<1>2. G[0] = S
  <2>1. L(0)[0] = S  BY <1>1 DEF Layers
  <2> QED  BY <2>1
<1>3. ASSUME NEW n \in Nat PROVE G[n + 1] = Near(step, G[n])
  <2> HIDE DEF L
  <2>1. L(n + 1)[n + 1] = Near(step, L(n + 1)[n])  BY <1>1 DEF Layers
  <2>2. L(n + 1)[n] = L(n)[n]
    <3>1. Layers(step, S, L(n), n) /\ Layers(step, S, L(n + 1), n + 1)  BY <1>1
    <3> QED  BY <3>1, LayersAgree
  <2> QED  BY <2>1, <2>2
<1>4. Grown(G)
  <2> DEFINE F == [n \in Nat |-> IF n = 0 THEN S ELSE Near(step, G[n - 1])]
  <2>1. ASSUME NEW n \in Nat PROVE G[n] = F[n]
    <3>1. CASE n = 0  BY <3>1, <1>2
    <3>2. CASE n # 0
      <4>1. n - 1 \in Nat /\ (n - 1) + 1 = n  BY <3>2
      <4>2. G[(n - 1) + 1] = Near(step, G[n - 1])  BY <4>1, <1>3
      <4> HIDE DEF G
      <4> QED  BY <4>1, <4>2, <3>2
    <3> QED  BY <3>1, <3>2
  <2>2. G = F
    <3>1. DOMAIN G = Nat /\ G = [n \in Nat |-> G[n]]  OBVIOUS
    <3> HIDE DEF G
    <3> QED  BY <2>1, <3>1
  <2> QED  BY <2>2 DEF Near
<1> DEFINE g == CHOOSE x : Grown(x)
<1>5. Grown(g)
  <2> HIDE DEF Grown, G
  <2> QED  BY <1>4
<1>6. g[0] = S /\ \A n \in Nat : g[n + 1] = Near(step, g[n])
  <2> DEFINE F == [n \in Nat |-> IF n = 0 THEN S ELSE Near(step, g[n - 1])]
  <2>1. g = F  BY <1>5 DEF Near
  <2>2. F[0] = S /\ \A n \in Nat : F[n + 1] = Near(step, g[(n + 1) - 1])
    <3> HIDE DEF g
    <3> QED  OBVIOUS
  <2>3. \A n \in Nat : (n + 1) - 1 = n  OBVIOUS
  <2> HIDE DEF F, g
  <2> QED  BY <2>1, <2>2, <2>3
<1>7. ReachFrom(step, from) = g[Cardinality(DOMAIN step)]  BY DEF ReachFrom
<1> QED  BY <1>6, <1>7

(* ReachFrom holds where it starts. *)
LEMMA ReachHas ==
  ASSUME NEW step, IsFiniteSet(DOMAIN step), NEW from
  PROVE  from \cap DOMAIN step \subseteq ReachFrom(step, from)
<1>1. PICK g : /\ ReachFrom(step, from) = g[Cardinality(DOMAIN step)]
               /\ g[0] = from \cap DOMAIN step /\ \A n \in Nat : g[n + 1] = Near(step, g[n])
  BY ReachLayers
<1> DEFINE T == {m \in Nat : ~ (from \cap DOMAIN step \subseteq g[m])}
<1>2. T = {}
  <2> SUFFICES ASSUME T # {} PROVE FALSE
    OBVIOUS
  <2>1. PICK m \in T : \A y \in T : m <= y
    <3> HIDE DEF T
    <3>1. T \subseteq Nat  BY DEF T
    <3> QED  BY <3>1, LeastNat
  <2>2. m # 0  BY <1>1
  <2>3. m - 1 \in Nat /\ m - 1 \notin T /\ (m - 1) + 1 = m  BY <2>1, <2>2
  <2>4. from \cap DOMAIN step \subseteq g[m - 1]  BY <2>3
  <2>5. g[m] = Near(step, g[m - 1])  BY <1>1, <2>3
  <2> QED  BY <2>1, <2>4, <2>5 DEF Near
<1> QED  BY <1>1, <1>2, FS_CardinalityType

(* It is within every set that holds S and is closed under step. *)
LEMMA ReachLeast ==
  ASSUME NEW step, IsFiniteSet(DOMAIN step), NEW from, NEW X, from \cap DOMAIN step \subseteq X,
         \A x \in X : step[x] \cap DOMAIN step \subseteq X
  PROVE  ReachFrom(step, from) \subseteq X
<1>1. PICK g : /\ ReachFrom(step, from) = g[Cardinality(DOMAIN step)]
               /\ g[0] = from \cap DOMAIN step /\ \A n \in Nat : g[n + 1] = Near(step, g[n])
  BY ReachLayers
<1> DEFINE T == {m \in Nat : ~ (g[m] \subseteq X)}
<1>2. T = {}
  <2> SUFFICES ASSUME T # {} PROVE FALSE
    OBVIOUS
  <2>1. PICK m \in T : \A y \in T : m <= y
    <3> HIDE DEF T
    <3>1. T \subseteq Nat  BY DEF T
    <3> QED  BY <3>1, LeastNat
  <2>2. m # 0  BY <1>1
  <2>3. m - 1 \in Nat /\ m - 1 \notin T /\ (m - 1) + 1 = m  BY <2>1, <2>2
  <2>4. g[m - 1] \subseteq X  BY <2>3
  <2>5. g[m] = Near(step, g[m - 1])  BY <1>1, <2>3
  <2> QED  BY <2>1, <2>4, <2>5 DEF Near
<1> QED  BY <1>1, <1>2, FS_CardinalityType

(* On a finite graph the layers stop growing, so it is closed under step.    *)
LEMMA ReachClosed ==
  ASSUME NEW step, IsFiniteSet(DOMAIN step), NEW from
  PROVE  /\ ReachFrom(step, from) \subseteq DOMAIN step
         /\ \A x \in ReachFrom(step, from) : step[x] \cap DOMAIN step \subseteq ReachFrom(step, from)
<1> DEFINE D == DOMAIN step
           N == Cardinality(D)
<1>0. ReachFrom(step, from) \subseteq D  BY ReachLeast
<1>1. PICK g : /\ ReachFrom(step, from) = g[N]
               /\ g[0] = from \cap DOMAIN step /\ \A n \in Nat : g[n + 1] = Near(step, g[n])
  BY ReachLayers
<1> DEFINE Full(n) == g[n + 1] = g[n]
           T == {m \in Nat : ~ (/\ g[m] \subseteq D
                                /\ IsFiniteSet(g[m])
                                /\ Full(m) \/ Cardinality(g[m]) >= m)}
<1>n. N \in Nat  BY FS_CardinalityType
<1>2. T = {}
  <2> SUFFICES ASSUME T # {} PROVE FALSE
    OBVIOUS
  <2>1. PICK m \in T : \A y \in T : m <= y
    <3> HIDE DEF T
    <3>1. T \subseteq Nat  BY DEF T
    <3> QED  BY <3>1, LeastNat
  <2>2. m # 0
    <3>1. g[0] \subseteq D /\ IsFiniteSet(g[0])  BY <1>1, FS_Subset
    <3>2. Cardinality(g[0]) >= 0  BY <3>1, FS_CardinalityType
    <3> QED  BY <3>1, <3>2
  <2>3. m - 1 \in Nat /\ m - 1 \notin T /\ (m - 1) + 1 = m  BY <2>1, <2>2
  <2>4. /\ g[m - 1] \subseteq D /\ IsFiniteSet(g[m - 1])
        /\ Full(m - 1) \/ Cardinality(g[m - 1]) >= m - 1
    BY <2>3
  <2>5. g[m] = Near(step, g[m - 1]) /\ g[m + 1] = Near(step, g[m])  BY <1>1, <2>3
  <2>6. g[m] \subseteq D /\ IsFiniteSet(g[m])
    <3>1. g[m] \subseteq D  BY <2>4, <2>5 DEF Near
    <3> QED  BY <3>1, FS_Subset
  <2>7. CASE g[m] = g[m - 1]
    <3>1. g[m + 1] = g[m]  BY <2>7, <2>5
    <3> QED  BY <3>1, <2>1, <2>6
  <2>8. CASE g[m] # g[m - 1]
    <3>1. ~Full(m - 1)  BY <2>8, <2>3
    <3>2. Cardinality(g[m - 1]) >= m - 1  BY <3>1, <2>4
    <3>3. g[m - 1] \subseteq g[m]  BY <2>5 DEF Near
    <3>5. Cardinality(g[m - 1]) \in Nat /\ Cardinality(g[m]) \in Nat
      BY <2>4, <2>6, FS_CardinalityType
    <3>4. Cardinality(g[m - 1]) < Cardinality(g[m])
      <4>1. /\ Cardinality(g[m - 1]) <= Cardinality(g[m])
            /\ Cardinality(g[m - 1]) # Cardinality(g[m])
        BY <3>3, <2>6, <2>8, FS_Subset
      <4> QED  BY <4>1, <3>5
    <3>6. Cardinality(g[m]) >= m
      <4>1. \A a, b, c \in Nat : a >= c - 1 /\ a < b => b >= c  OBVIOUS
      <4> QED  BY <4>1, <3>2, <3>4, <3>5
    <3> QED  BY <3>6, <2>1, <2>6
  <2> QED  BY <2>7, <2>8
<1>3. g[N] \subseteq D /\ (Full(N) \/ Cardinality(g[N]) >= N)
  <2>1. N \notin T  BY <1>2
  <2> HIDE DEF Full, N
  <2> QED  BY <2>1, <1>n
<1>4. CASE Full(N)
  <2>1. g[N] = Near(step, g[N])  BY <1>4, <1>1, <1>n
  <2>2. \A x \in g[N] : step[x] \cap DOMAIN step \subseteq g[N]  BY <2>1 DEF Near
  <2> QED  BY <2>2, <1>0, <1>1
<1>5. CASE Cardinality(g[N]) >= N
  <2>1. g[N] = D
    <3> SUFFICES ASSUME g[N] # D PROVE FALSE
      OBVIOUS
    <3>1. /\ Cardinality(g[N]) <= N /\ N # Cardinality(g[N])
          /\ IsFiniteSet(g[N])
      BY <1>3, FS_Subset
    <3>2. Cardinality(g[N]) \in Nat  BY <3>1, FS_CardinalityType
    <3> QED  BY <3>1, <3>2, <1>5, <1>n
  <2> QED  BY <2>1, <1>0, <1>1
<1> QED  BY <1>3, <1>4, <1>5
----------------------------------------------------------------------------
(* Frames of which Lua runs, frames whose name is on path, and the visits    *)
(* under way: of one name there is one.                                      *)
Lua(f) == f.at \in LuaFrames
OnPath(f) == f.at \in {"walk", "body"}
Visits(f) == f.at = "body" \/ (f.at = "walk" /\ ~f.again)

(* The slot s while the Lua of frame f runs. *)
Holds(s, f) == IF f.at = "body" THEN s # NoSlot /\ s.recipe = f.who ELSE s = NoSlot

(* The slot s when the frames of fr from k on are what there is: it belongs  *)
(* to the innermost of them that runs Lua.                                   *)
StandsFrom(s, fr, k) ==
  /\ \A j \in k .. Len(fr) :
       Lua(fr[j]) /\ (\A m \in k .. j - 1 : ~Lua(fr[m])) => Holds(s, fr[j])
  /\ (\A j \in k .. Len(fr) : ~Lua(fr[j])) => s = NoSlot

(* Every slot put aside belongs to who was interrupted. *)
Slots(s, fr) ==
  /\ StandsFrom(s, fr, 1)
  /\ \A j \in DOMAIN fr : Lua(fr[j]) => StandsFrom(fr[j].saved, fr, j + 1)

(* With no frame there is no slot. *)
LEMMA SlotsNil == \A s : Slots(s, <<>>) <=> s = NoSlot
  BY EmptySeq DEF Slots, StandsFrom

(* Below the top frame positions count from one further on. *)
LEMMA StandsShift ==
  ASSUME NEW st, NEW f, NEW t, Cons(st, f, t), NEW s, NEW k \in Nat \ {0}
  PROVE  StandsFrom(s, st, k + 1) <=> StandsFrom(s, t, k)
<1>1. /\ Len(t) \in Nat /\ Len(st) = Len(t) + 1
      /\ \A i \in 1 .. Len(t) : st[i + 1] = t[i]
  BY DEF Cons
<1>2. \A j \in k .. Len(t) : j + 1 \in k + 1 .. Len(st) /\ st[j + 1] = t[j]
  BY <1>1
<1>3. \A j \in k + 1 .. Len(st) : j - 1 \in k .. Len(t) /\ st[j] = t[j - 1] /\ (j - 1) + 1 = j
  <2> SUFFICES ASSUME NEW j \in k + 1 .. Len(st)
               PROVE  j - 1 \in k .. Len(t) /\ st[j] = t[j - 1] /\ (j - 1) + 1 = j
    OBVIOUS
  <2>1. j - 1 \in k .. Len(t) /\ (j - 1) + 1 = j  BY <1>1
  <2>2. st[(j - 1) + 1] = t[j - 1]  BY <2>1, <1>2
  <2> QED  BY <2>1, <2>2
<1>4. ASSUME StandsFrom(s, st, k + 1) PROVE StandsFrom(s, t, k)
  <2>1. ASSUME NEW j \in k .. Len(t), Lua(t[j]), \A m \in k .. j - 1 : ~Lua(t[m])
        PROVE  Holds(s, t[j])
    <3>1. j + 1 \in k + 1 .. Len(st) /\ st[j + 1] = t[j]  BY <1>2
    <3>2. \A m \in k + 1 .. (j + 1) - 1 : ~Lua(st[m])
      <4> SUFFICES ASSUME NEW m \in k + 1 .. (j + 1) - 1 PROVE ~Lua(st[m])
        OBVIOUS
      <4>1. m \in k + 1 .. Len(st) /\ m - 1 \in k .. j - 1  BY <1>1
      <4> QED  BY <4>1, <1>3, <2>1
    <3> QED  BY <3>1, <3>2, <1>4, <2>1 DEF StandsFrom
  <2>2. (\A j \in k .. Len(t) : ~Lua(t[j])) => \A j \in k + 1 .. Len(st) : ~Lua(st[j])
    BY <1>3
  <2> QED  BY <2>1, <2>2, <1>4 DEF StandsFrom
<1>5. ASSUME StandsFrom(s, t, k) PROVE StandsFrom(s, st, k + 1)
  <2>1. ASSUME NEW j \in k + 1 .. Len(st), Lua(st[j]), \A m \in k + 1 .. j - 1 : ~Lua(st[m])
        PROVE  Holds(s, st[j])
    <3>1. j - 1 \in k .. Len(t) /\ st[j] = t[j - 1]  BY <1>3
    <3>2. \A m \in k .. (j - 1) - 1 : ~Lua(t[m])
      <4> SUFFICES ASSUME NEW m \in k .. (j - 1) - 1 PROVE ~Lua(t[m])
        OBVIOUS
      <4>1. m \in k .. Len(t) /\ m + 1 \in k + 1 .. j - 1  BY <1>1
      <4> QED  BY <4>1, <1>2, <2>1
    <3> QED  BY <3>1, <3>2, <1>5, <2>1 DEF StandsFrom
  <2>2. (\A j \in k + 1 .. Len(st) : ~Lua(st[j])) => \A j \in k .. Len(t) : ~Lua(t[j])
    BY <1>2
  <2> QED  BY <2>1, <2>2, <1>5 DEF StandsFrom
<1> QED  BY <1>4, <1>5

(* What Slots says of a stack, frame by frame. *)
LEMMA SlotsCons ==
  ASSUME NEW st, NEW f, NEW t, Cons(st, f, t), NEW s
  PROVE  Slots(s, st) <=> IF Lua(f) THEN Holds(s, f) /\ Slots(f.saved, t) ELSE Slots(s, t)
<1>0. /\ Len(t) \in Nat /\ Len(st) = Len(t) + 1 /\ st[1] = f
      /\ DOMAIN t = 1 .. Len(t) /\ DOMAIN st = 1 .. Len(t) + 1
      /\ \A i \in 1 .. Len(t) : st[i + 1] = t[i]
  BY DEF Cons
<1> DEFINE Saved(fr) == \A j \in DOMAIN fr : Lua(fr[j]) => StandsFrom(fr[j].saved, fr, j + 1)
<1>1. ASSUME NEW x PROVE StandsFrom(x, st, 2) <=> StandsFrom(x, t, 1)
  <2>1. 1 \in Nat \ {0} /\ 1 + 1 = 2  OBVIOUS
  <2> QED  BY <2>1, StandsShift
<1>2. Saved(st) <=> Saved(t) /\ (Lua(f) => StandsFrom(f.saved, t, 1))
  <2>1. ASSUME NEW j \in DOMAIN t
        PROVE  (Lua(st[j + 1]) => StandsFrom(st[j + 1].saved, st, (j + 1) + 1))
                 <=> (Lua(t[j]) => StandsFrom(t[j].saved, t, j + 1))
    <3>1. st[j + 1] = t[j] /\ j + 1 \in Nat \ {0}  BY <1>0
    <3>2. StandsFrom(t[j].saved, st, (j + 1) + 1) <=> StandsFrom(t[j].saved, t, j + 1)
      BY <3>1, StandsShift
    <3> QED  BY <3>1, <3>2
  <2>2. (Lua(st[1]) => StandsFrom(st[1].saved, st, 1 + 1)) <=> (Lua(f) => StandsFrom(f.saved, t, 1))
    <3>1. 1 + 1 = 2  OBVIOUS
    <3> QED  BY <3>1, <1>0, <1>1
  <2>3. \A j \in DOMAIN st : j = 1 \/ (j - 1 \in DOMAIN t /\ j = (j - 1) + 1)  BY <1>0
  <2>4. 1 \in DOMAIN st /\ \A j \in DOMAIN t : j + 1 \in DOMAIN st  BY <1>0
  <2>5. ASSUME Saved(st) PROVE Saved(t) /\ (Lua(f) => StandsFrom(f.saved, t, 1))
    BY <2>1, <2>2, <2>4, <2>5
  <2>6. ASSUME Saved(t), Lua(f) => StandsFrom(f.saved, t, 1) PROVE Saved(st)
    <3> SUFFICES ASSUME NEW j \in DOMAIN st, Lua(st[j]) PROVE StandsFrom(st[j].saved, st, j + 1)
      OBVIOUS
    <3>1. CASE j = 1  BY <3>1, <2>2, <2>6
    <3>2. CASE j # 1
      <4>1. PICK i \in DOMAIN t : j = i + 1  BY <3>2, <2>3
      <4> QED  BY <4>1, <2>1, <2>6
    <3> QED  BY <3>1, <3>2
  <2> QED  BY <2>5, <2>6
<1>3. CASE Lua(f)
  <2>1. StandsFrom(s, st, 1) <=> Holds(s, f)
    <3>1. 1 \in 1 .. Len(st) /\ Lua(st[1]) /\ 1 .. 1 - 1 = {}  BY <1>0, <1>3
    <3>2. \A j \in 1 .. Len(st) : j = 1 \/ 1 \in 1 .. j - 1  BY <1>0
    <3> QED  BY <3>1, <3>2, <1>0 DEF StandsFrom
  <2> QED  BY <2>1, <1>2, <1>3 DEF Slots
<1>4. CASE ~Lua(f)
  <2>1. StandsFrom(s, st, 1) <=> StandsFrom(s, st, 2)
    <3>1. 1 \in 1 .. Len(st) /\ ~Lua(st[1])  BY <1>0, <1>4
    <3>2. 2 .. Len(st) \subseteq 1 .. Len(st) /\ \A j \in 1 .. Len(st) : j = 1 \/ j \in 2 .. Len(st)
      BY <1>0
    <3>3. \A j \in 2 .. Len(st) : (\A m \in 1 .. j - 1 : ~Lua(st[m])) <=> (\A m \in 2 .. j - 1 : ~Lua(st[m]))
      <4> SUFFICES ASSUME NEW j \in 2 .. Len(st), \A m \in 2 .. j - 1 : ~Lua(st[m]),
                          NEW m \in 1 .. j - 1
                   PROVE  ~Lua(st[m])
        <5>1. \A j \in 2 .. Len(st) : 2 .. j - 1 \subseteq 1 .. j - 1  BY <1>0
        <5> QED  BY <5>1
      <4>1. m = 1 \/ m \in 2 .. j - 1  BY <1>0
      <4> QED  BY <4>1, <3>1
    <3> QED  BY <3>1, <3>2, <3>3 DEF StandsFrom
  <2> QED  BY <2>1, <1>1, <1>2, <1>4 DEF Slots
<1> QED  BY <1>3, <1>4
----------------------------------------------------------------------------
(* Every unit of a slot was captured by the body the slot is of. *)
Owned(s) == s # NoSlot => \A i \in DOMAIN s.units : s.units[i].author = s.recipe

(* t is what a call makes of the slot s. *)
SameOwner(s, t) == t \in SlotRecord /\ Owned(t) /\ t.recipe = s.recipe /\ t.requires = s.requires

(* A slot is not the absence of one. *)
LEMMA SlotIs == \A s \in SlotRecord : s # NoSlot
  BY NoSlotAssumption

(* The last of some positions of a sequence. *)
LEMMA LastIndex ==
  ASSUME NEW n \in Nat, NEW S, S \subseteq 1 .. n, S # {}
  PROVE  (CHOOSE i \in S : \A j \in S : j <= i) \in S
<1> DEFINE T == {n - i : i \in S}
<1>1. PICK x \in T : \A y \in T : x <= y
  <2>1. ASSUME NEW i \in S PROVE n - i \in Nat
    <3>1. i \in 1 .. n  OBVIOUS
    <3> QED  BY <3>1
  <2>2. T \subseteq Nat /\ T # {}  BY <2>1
  <2> HIDE DEF T
  <2> QED  BY <2>2, LeastNat
<1>2. PICK i \in S : x = n - i  BY <1>1
<1>3. ASSUME NEW j \in S PROVE j <= i
  <2>1. n - j \in T  OBVIOUS
  <2>2. x <= n - j
    <3> HIDE DEF T
    <3> QED  BY <1>1, <2>1
  <2>3. i \in 1 .. n /\ j \in 1 .. n  OBVIOUS
  <2> HIDE DEF T
  <2> QED  BY <2>2, <2>3, <1>2
<1>4. \E k \in S : \A j \in S : j <= k  BY <1>3
<1> HIDE DEF T
<1> QED  BY <1>4

(* The outputs an earlier step left are paths. *)
LEMMA PriorIs ==
  ASSUME NEW s \in SlotRecord, NEW m PROVE PriorOutputs(s, m) \subseteq Path
<1> DEFINE own == {i \in DOMAIN s.units :
                     s.units[i].member = m /\ s.units[i].outs # {} /\ m # NoMember}
           last == CHOOSE i \in own : \A j \in own : j <= i
<1>1. /\ s.units \in Seq(UnitRecord) /\ s.lastOuts \subseteq Path
      /\ Len(s.units) \in Nat /\ DOMAIN s.units = 1 .. Len(s.units)
      /\ \A i \in DOMAIN s.units : s.units[i] \in UnitRecord
  BY DEF SlotRecord
<1>2. CASE own = {}
  <2>1. PriorOutputs(s, m) = s.lastOuts  BY <1>2 DEF PriorOutputs
  <2> QED  BY <2>1, <1>1
<1>3. CASE own # {}
  <2>1. own \subseteq 1 .. Len(s.units)  BY <1>1
  <2>2. last \in own
    <3> HIDE DEF own
    <3> QED  BY <2>1, <1>1, <1>3, LastIndex
  <2>3. PriorOutputs(s, m) = s.units[last].outs  BY <1>3 DEF PriorOutputs
  <2>4. last \in DOMAIN s.units  BY <2>2
  <2> HIDE DEF last
  <2>5. s.units[last] \in UnitRecord  BY <1>1, <2>4
  <2> QED  BY <2>3, <2>5 DEF UnitRecord
<1> QED  BY <1>2, <1>3

(* So are those of the units of a member. *)
LEMMA MemberIs ==
  ASSUME NEW us \in Seq(UnitRecord), NEW m
  PROVE  MemberOutputs([units |-> us], m) \subseteq Path
<1> DEFINE own == {i \in DOMAIN us : us[i].member = m /\ us[i].outs # {}}
           last == CHOOSE i \in own : \A j \in own : j <= i
<1>1. /\ Len(us) \in Nat /\ DOMAIN us = 1 .. Len(us)
      /\ \A i \in DOMAIN us : us[i] \in UnitRecord
  OBVIOUS
<1>2. CASE own = {}
  <2>1. MemberOutputs([units |-> us], m) = {}  BY <1>2 DEF MemberOutputs
  <2> QED  BY <2>1
<1>3. CASE own # {}
  <2>1. own \subseteq 1 .. Len(us)  BY <1>1
  <2>2. last \in own
    <3> HIDE DEF own
    <3> QED  BY <2>1, <1>1, <1>3, LastIndex
  <2>3. MemberOutputs([units |-> us], m) = us[last].outs  BY <1>3 DEF MemberOutputs
  <2>4. last \in DOMAIN us  BY <2>2
  <2> HIDE DEF last
  <2>5. us[last] \in UnitRecord  BY <1>1, <2>4
  <2> QED  BY <2>3, <2>5 DEF UnitRecord
<1> QED  BY <1>2, <1>3

(* A unit its own body captured goes to the end of the slot. *)
LEMMA CaptureOne ==
  ASSUME NEW s \in SlotRecord, Owned(s), NEW u \in UnitRecord, u.author = s.recipe
  PROVE  SameOwner(s, [s EXCEPT !.units = Append(@, u)])
<1> DEFINE us == Append(s.units, u)
           t == [s EXCEPT !.units = us]
<1>1. s.units \in Seq(UnitRecord) /\ s # NoSlot  BY SlotIs DEF SlotRecord
<1>2. us \in Seq(UnitRecord)  BY <1>1
<1>3. \A i \in DOMAIN us : us[i].author = s.recipe  BY <1>1 DEF Owned
<1>4. t = [s EXCEPT !.units = Append(@, u)]  OBVIOUS
<1> HIDE DEF us
<1>5. t.units = us /\ t.recipe = s.recipe /\ t.requires = s.requires  BY DEF SlotRecord
<1>6. t \in SlotRecord  BY <1>2 DEF SlotRecord
<1>7. SameOwner(s, t)  BY <1>3, <1>5, <1>6 DEF SameOwner, Owned
<1> QED  BY <1>4, <1>7

(* A cook.exec keeps the owner and the requires of the slot. *)
LEMMA ExecIs ==
  ASSUME NEW s \in SlotRecord, Owned(s), NEW p \in {"shell", "interactive"}
  PROVE  SameOwner(s, Exec(s, s.recipe, p))
<1> DEFINE u == [Unit(s.recipe, 0) EXCEPT !.payload = p]
<1>1. s.recipe \in Name  BY DEF SlotRecord
<1>2. u \in UnitRecord /\ u.author = s.recipe  BY <1>1 DEF Unit, UnitRecord
<1> HIDE DEF u
<1> QED  BY <1>2, CaptureOne DEF Exec, u

(* So does a probe declared inside a body. *)
LEMMA CaptureProbeIs ==
  ASSUME NEW s \in SlotRecord, Owned(s), NEW ks \in SUBSET Key
  PROVE  SameOwner(s, CaptureProbe(s, s.recipe, ks))
<1> DEFINE v == [Unit(s.recipe, 0) EXCEPT !.payload = "probe"]
           u == [v EXCEPT !.needs = ks]
<1>1. s.recipe \in Name  BY DEF SlotRecord
<1>2. v \in UnitRecord /\ v.author = s.recipe  BY <1>1 DEF Unit, UnitRecord
<1>3. [Unit(s.recipe, 0) EXCEPT !.payload = "probe", !.needs = ks] = u  BY DEF Unit
<1> HIDE DEF v
<1>4. u \in UnitRecord /\ u.author = s.recipe  BY <1>2 DEF UnitRecord
<1> HIDE DEF u
<1> QED  BY <1>3, <1>4, CaptureOne DEF CaptureProbe
----------------------------------------------------------------------------
(* t differs from the slot s in what a call leaves for the units to come. *)
Keeps(s, t) ==
  /\ t \in SlotRecord
  /\ t.units = s.units /\ t.recipe = s.recipe /\ t.requires = s.requires

(* A slot that keeps units, recipe and requires keeps its owner. *)
LEMMA KeepsOwner ==
  ASSUME NEW s \in SlotRecord, NEW r \in SlotRecord, NEW t, SameOwner(s, r), Keeps(r, t)
  PROVE  SameOwner(s, t)
<1>1. r # NoSlot /\ t # NoSlot  BY SlotIs DEF Keeps
<1> QED  BY <1>1 DEF SameOwner, Keeps, Owned

(* A slot left alone has the owner it had. *)
LEMMA OwnerSelf ==
  ASSUME NEW s \in SlotRecord, Owned(s) PROVE SameOwner(s, s)
  BY DEF SameOwner

(* The pending, step, last and consulted outputs are not the units. *)
LEMMA KeepsPaths ==
  ASSUME NEW s \in SlotRecord, NEW x \in SUBSET Path
  PROVE  /\ Keeps(s, [s EXCEPT !.pending = x]) /\ Keeps(s, [s EXCEPT !.stepOuts = x])
         /\ Keeps(s, [s EXCEPT !.lastOuts = x]) /\ Keeps(s, [s EXCEPT !.depIns = x])
  BY DEF Keeps, SlotRecord

(* Nor are the step groups, *)
LEMMA KeepsGroup ==
  ASSUME NEW s \in SlotRecord, NEW g \in Nat, NEW gs \in Seq(SUBSET Nat)
  PROVE  /\ Keeps(s, [s EXCEPT !.group = g]) /\ Keeps(s, [s EXCEPT !.groups = gs])
<1>1. Keeps(s, [s EXCEPT !.group = g])  BY DEF Keeps, SlotRecord
<1>2. Keeps(s, [s EXCEPT !.groups = gs])  BY DEF Keeps, SlotRecord
<1> QED  BY <1>1, <1>2

(* nor the recipes referred to. *)
LEMMA KeepsNames ==
  ASSUME NEW s \in SlotRecord, NEW ns \in SUBSET Name, NEW es \in SUBSET (Nat \X Name)
  PROVE  /\ Keeps(s, [s EXCEPT !.refs = ns]) /\ Keeps(s, [s EXCEPT !.edges = es])
  BY DEF Keeps, SlotRecord

(* The inputs of a captured unit are paths, *)
LEMMA InputsAre ==
  ASSUME NEW s \in SlotRecord, NEW c \in CallRecord
  PROVE  Inputs(s, c) \subseteq Path
<1>1. PriorOutputs(s, c.member) \subseteq Path  BY PriorIs
<1>2. c.ins \subseteq Path /\ s.depIns \subseteq Path /\ s.pending \subseteq Path
  BY DEF CallRecord, SlotRecord
<1> QED  BY <1>1, <1>2 DEF Inputs

(* and it is a unit of the recipe that captured it. *)
LEMMA CapturedIs ==
  ASSUME NEW s \in SlotRecord, NEW c \in CallRecord
  PROVE  Captured(s, s.recipe, c) \in UnitRecord /\ Captured(s, s.recipe, c).author = s.recipe
<1> DEFINE ins == Inputs(s, c)
           keyed == Keyed(s, c)
           needs == Needs(c)
           p == Payload(c)
           u0 == Unit(s.recipe, s.group)
           u1 == [u0 EXCEPT !.payload = p]
           u2 == [u1 EXCEPT !.outs = c.outs]
           u3 == [u2 EXCEPT !.ins = ins]
           u4 == [u3 EXCEPT !.keyed = keyed]
           u5 == [u4 EXCEPT !.needs = needs]
           u6 == [u5 EXCEPT !.after = c.after]
           u7 == [u6 EXCEPT !.member = c.member]
           Is(u) == u \in UnitRecord /\ u.author = s.recipe
<1>1. /\ ins \subseteq Path /\ keyed \in BOOLEAN /\ needs \subseteq Key
      /\ p \in {"shell", "interactive", "lua", "probe"}
  <2>1. ins \subseteq Path  BY InputsAre
  <2>2. keyed \in BOOLEAN  BY DEF Keyed, CallRecord
  <2>3. needs \subseteq Key
    <3>1. c.probes \subseteq Key /\ c.seal \subseteq Key /\ c.found \subseteq Key
      BY DEF CallRecord
    <3> QED  BY <3>1 DEF Needs
  <2>4. p \in {"shell", "interactive", "lua", "probe"}  BY DEF Payload
  <2> QED  BY <2>1, <2>2, <2>3, <2>4
<1>2. /\ c.outs \subseteq Path /\ c.after \subseteq Path /\ c.member \in Member \cup {NoMember}
  BY DEF CallRecord
<1>3. Is(u0)
  <2>1. s.recipe \in Name /\ s.group \in Nat  BY DEF SlotRecord
  <2> QED  BY <2>1 DEF Unit, UnitRecord
<1>4. Captured(s, s.recipe, c) = u7  BY DEF Captured
<1> HIDE DEF ins, keyed, needs, p, u0
<1>5. Is(u1)  BY <1>1, <1>3 DEF UnitRecord
<1> HIDE DEF u1
<1>6. Is(u2)  BY <1>2, <1>5 DEF UnitRecord
<1> HIDE DEF u2
<1>7. Is(u3)  BY <1>1, <1>6 DEF UnitRecord
<1> HIDE DEF u3
<1>8. Is(u4)  BY <1>1, <1>7 DEF UnitRecord
<1> HIDE DEF u4
<1>9. Is(u5)  BY <1>1, <1>8 DEF UnitRecord
<1> HIDE DEF u5
<1>10. Is(u6)  BY <1>2, <1>9 DEF UnitRecord
<1> HIDE DEF u6
<1>11. Is(u7)  BY <1>2, <1>10 DEF UnitRecord
<1> QED  BY <1>4, <1>11

(* cook.add_unit keeps the owner and the requires. *)
LEMMA AddUnitIs ==
  ASSUME NEW s \in SlotRecord, Owned(s), NEW c \in CallRecord
  PROVE  SameOwner(s, AddUnit(s, s.recipe, c))
<1> DEFINE u == Captured(s, s.recipe, c)
           at == Len(s.units) + 1
           s1 == [s EXCEPT !.pending = {}]
           s2 == [s1 EXCEPT !.units = Append(@, u)]
           gs == IF s.group = 0 THEN s.groups
                 ELSE [s.groups EXCEPT ![s.group] = @ \cup {at}]
           s3 == [s2 EXCEPT !.groups = gs]
           so == s.stepOuts \cup c.outs
           s4 == [s3 EXCEPT !.stepOuts = so]
           lo == IF s.group = 0 /\ c.outs # {} THEN c.outs ELSE s.lastOuts
           s5 == [s4 EXCEPT !.lastOuts = lo]
           es == s.edges \cup {<<at, name>> : name \in s.refs}
           s6 == [s5 EXCEPT !.edges = es]
<1>1. /\ s.units \in Seq(UnitRecord) /\ s.groups \in Seq(SUBSET Nat) /\ s.group \in Nat
      /\ s.stepOuts \subseteq Path /\ s.lastOuts \subseteq Path /\ s.refs \subseteq Name
      /\ s.edges \subseteq Nat \X Name
  BY DEF SlotRecord
<1>2. c.outs \subseteq Path  BY DEF CallRecord
<1>3. at \in Nat  BY <1>1
<1>4. gs \in Seq(SUBSET Nat)
  <2>1. CASE s.group = 0  BY <1>1, <2>1
  <2>2. CASE s.group # 0
    <3> HIDE DEF at
    <3>1. \A i \in DOMAIN s.groups : s.groups[i] \cup {at} \in SUBSET Nat
      BY <1>1, <1>3
    <3> DEFINE hs == [s.groups EXCEPT ![s.group] = @ \cup {at}]
               n == Len(s.groups)
    <3>2. n \in Nat /\ DOMAIN s.groups = 1 .. n /\ s.groups \in [1 .. n -> SUBSET Nat]
      BY <1>1, LenProperties
    <3>3. hs \in [1 .. n -> SUBSET Nat]  BY <3>1, <3>2
    <3> HIDE DEF hs, n
    <3>4. hs \in Seq(SUBSET Nat)  BY <3>2, <3>3
    <3> QED  BY <3>4, <2>2 DEF hs
  <2> QED  BY <2>1, <2>2
<1>5. so \subseteq Path /\ lo \subseteq Path /\ es \subseteq Nat \X Name
  <2> HIDE DEF at
  <2> QED  BY <1>1, <1>2, <1>3
<1>6. u \in UnitRecord /\ u.author = s.recipe  BY CapturedIs
<1>7. AddUnit(s, s.recipe, c) = s6
  <2> HIDE DEF u
  <2>1. s6 = [s EXCEPT !.pending = {}, !.units = Append(s.units, u), !.groups = gs, !.stepOuts = so,
                       !.lastOuts = lo, !.edges = es]
    <3> HIDE DEF gs, so, lo, es
    <3> QED  BY DEF SlotRecord
  <2> QED  BY <2>1 DEF AddUnit, u, SlotRecord
<1> HIDE DEF u, gs, so, lo, es
<1>8. Keeps(s, s1)  BY KeepsPaths
<1>9. SameOwner(s, s1)  BY <1>8, OwnerSelf, KeepsOwner
<1> HIDE DEF s1
<1>10. s1 \in SlotRecord /\ Owned(s1) /\ u.author = s1.recipe  BY <1>6, <1>9 DEF SameOwner
<1>11. SameOwner(s1, s2)  BY <1>6, <1>10, CaptureOne
<1> HIDE DEF s2
<1>12. SameOwner(s, s2) /\ s2 \in SlotRecord  BY <1>9, <1>11 DEF SameOwner
<1>13. Keeps(s2, s3)  BY <1>4, <1>12, KeepsGroup, <1>1
<1> HIDE DEF s3
<1>14. s3 \in SlotRecord /\ Keeps(s3, s4)  BY <1>5, <1>13, KeepsPaths DEF Keeps
<1> HIDE DEF s4
<1>15. s4 \in SlotRecord /\ Keeps(s4, s5)  BY <1>5, <1>14, KeepsPaths DEF Keeps
<1> HIDE DEF s5
<1>16. s5 \in SlotRecord /\ Keeps(s5, s6)
  <2>1. s5 \in SlotRecord  BY <1>15 DEF Keeps
  <2>2. {} \in SUBSET Name  OBVIOUS
  <2> QED  BY <1>5, <2>1, <2>2, KeepsNames
<1> HIDE DEF s6
<1>17. Keeps(s2, s6)  BY <1>13, <1>14, <1>15, <1>16 DEF Keeps
<1>18. SameOwner(s, s6)  BY <1>12, <1>17, KeepsOwner
<1> QED  BY <1>7, <1>18

(* A fresh slot requires nothing and has no unit. *)
LEMMA NewSlotIs ==
  ASSUME NEW n \in Name, NEW chore \in BOOLEAN
  PROVE  /\ NewSlot(n, chore) \in SlotRecord /\ Owned(NewSlot(n, chore))
         /\ NewSlot(n, chore).recipe = n /\ NewSlot(n, chore).requires = {}
         /\ NewSlot(n, chore) # NoSlot
<1>1. /\ NewSlot(n, chore) \in SlotRecord /\ NewSlot(n, chore).units = <<>>
      /\ NewSlot(n, chore).recipe = n /\ NewSlot(n, chore).requires = {}
  <2>1. <<>> \in Seq(UnitRecord) /\ <<>> \in Seq(SUBSET Nat)  OBVIOUS
  <2> QED  BY <2>1 DEF NewSlot, SlotRecord
<1>2. DOMAIN <<>> = {}  OBVIOUS
<1> HIDE DEF NewSlot
<1> QED  BY <1>1, <1>2, SlotIs DEF Owned

(* Taking what is pending keeps the owner, *)
LEMMA TakePendingIs ==
  ASSUME NEW s \in SlotRecord, Owned(s) PROVE SameOwner(s, TakePending(s))
  BY KeepsPaths, OwnerSelf, KeepsOwner DEF TakePending

(* as cook.passthrough does, *)
LEMMA PassthroughIs ==
  ASSUME NEW s \in SlotRecord, Owned(s), NEW ps \in SUBSET Path
  PROVE  SameOwner(s, Passthrough(s, ps))
<1> DEFINE so == s.stepOuts \cup ps
<1>1. so \in SUBSET Path  BY DEF SlotRecord
<1>2. Passthrough(s, ps) = [s EXCEPT !.stepOuts = so]  BY DEF Passthrough
<1> HIDE DEF so
<1>3. Keeps(s, [s EXCEPT !.stepOuts = so])  BY <1>1, KeepsPaths
<1> QED  BY <1>2, <1>3, OwnerSelf, KeepsOwner

(* cook.dep_order, *)
LEMMA DepOrderIs ==
  ASSUME NEW s \in SlotRecord, Owned(s), NEW n \in Name
  PROVE  SameOwner(s, DepOrder(s, n))
<1> DEFINE rs == s.refs \cup {n}
<1>1. rs \in SUBSET Name /\ {} \in SUBSET (Nat \X Name)  BY DEF SlotRecord
<1>2. DepOrder(s, n) = [s EXCEPT !.refs = rs]  BY DEF DepOrder
<1> HIDE DEF rs
<1>3. Keeps(s, [s EXCEPT !.refs = rs])  BY <1>1, KeepsNames
<1> QED  BY <1>2, <1>3, OwnerSelf, KeepsOwner

(* cook.dep_output, of a recipe or of one of its members, *)
LEMMA DepOutputIs ==
  ASSUME NEW s \in SlotRecord, Owned(s), NEW n \in Name, NEW ps \in SUBSET Path
  PROVE  SameOwner(s, DepOutput(s, n, ps)) /\ SameOwner(s, DepOutputMember(s, n, ps))
<1> DEFINE t == DepOrder(s, n)
           ins == s.depIns \cup ps
           pend == s.pending \cup ps
<1>1. SameOwner(s, t)  BY DepOrderIs
<1>2. /\ DepOutput(s, n, ps) = [t EXCEPT !.depIns = ins]
      /\ DepOutputMember(s, n, ps) = [t EXCEPT !.pending = pend]
  BY DEF DepOutput, DepOutputMember, DepOrder
<1>3. ins \in SUBSET Path /\ pend \in SUBSET Path  BY DEF SlotRecord
<1> HIDE DEF t, ins, pend
<1>4. t \in SlotRecord  BY <1>1 DEF SameOwner
<1>5. Keeps(t, [t EXCEPT !.depIns = ins]) /\ Keeps(t, [t EXCEPT !.pending = pend])
  BY <1>3, <1>4, KeepsPaths
<1> QED  BY <1>1, <1>2, <1>4, <1>5, KeepsOwner

(* a step group opened, *)
LEMMA OpenGroupIs ==
  ASSUME NEW s \in SlotRecord, Owned(s) PROVE SameOwner(s, OpenGroup(s))
<1> DEFINE gs == Append(s.groups, {})
           g == Len(s.groups) + 1
           t == [s EXCEPT !.groups = gs]
<1>1. gs \in Seq(SUBSET Nat) /\ g \in Nat
  <2>1. s.groups \in Seq(SUBSET Nat)  BY DEF SlotRecord
  <2> QED  BY <2>1
<1>2. OpenGroup(s) = [t EXCEPT !.group = g]  BY DEF OpenGroup
<1> HIDE DEF gs, g
<1>3. Keeps(s, t)  BY <1>1, KeepsGroup
<1> HIDE DEF t
<1>4. t \in SlotRecord  BY <1>3 DEF Keeps
<1>5. Keeps(t, [t EXCEPT !.group = g])  BY <1>1, <1>4, KeepsGroup
<1>6. SameOwner(s, t)  BY <1>3, OwnerSelf, KeepsOwner
<1> QED  BY <1>2, <1>4, <1>5, <1>6, KeepsOwner

(* and one closed. *)
LEMMA CloseGroupIs ==
  ASSUME NEW s \in SlotRecord, Owned(s) PROVE SameOwner(s, CloseGroup(s))
<1> DEFINE lo == IF s.stepOuts # {} THEN s.stepOuts ELSE s.lastOuts
           s1 == [s EXCEPT !.group = 0]
           s2 == [s1 EXCEPT !.stepOuts = {}]
           s3 == [s2 EXCEPT !.refs = {}]
           s4 == [s3 EXCEPT !.depIns = {}]
           s5 == [s4 EXCEPT !.lastOuts = lo]
<1>1. lo \in SUBSET Path  BY DEF SlotRecord
<1>2. CloseGroup(s) = s5  BY DEF CloseGroup
<1> HIDE DEF lo
<1>3. Keeps(s, s1)  BY KeepsGroup, 0 \in Nat, <<>> \in Seq(SUBSET Nat)
<1> HIDE DEF s1
<1>4. Keeps(s1, s2)  BY <1>3, KeepsPaths DEF Keeps
<1> HIDE DEF s2
<1>5. Keeps(s2, s3)
  <2>1. s2 \in SlotRecord /\ {} \in SUBSET Name /\ {} \in SUBSET (Nat \X Name)
    BY <1>4 DEF Keeps
  <2> QED  BY <2>1, KeepsNames
<1> HIDE DEF s3
<1>6. s3 \in SlotRecord /\ {} \in SUBSET Path  BY <1>5 DEF Keeps
<1>7. Keeps(s3, s4)  BY <1>6, KeepsPaths
<1> HIDE DEF s4
<1>8. s4 \in SlotRecord  BY <1>7 DEF Keeps
<1>9. Keeps(s4, s5)  BY <1>1, <1>8, KeepsPaths
<1> HIDE DEF s5
<1>10. Keeps(s, s5)  BY <1>3, <1>4, <1>5, <1>7, <1>9 DEF Keeps
<1> QED  BY <1>2, <1>10, OwnerSelf, KeepsOwner

(* cook.require_recipe adds the name to the requires, and nothing else. *)
LEMMA RequireIs ==
  ASSUME NEW s \in SlotRecord, Owned(s), NEW n \in Name
  PROVE  /\ Require(s, n) \in SlotRecord /\ Owned(Require(s, n)) /\ Require(s, n).recipe = s.recipe
         /\ Require(s, n).requires = s.requires \cup {n}
<1> DEFINE rs == s.requires \cup {n}
           t == [s EXCEPT !.requires = rs]
<1>1. rs \in SUBSET Name  BY DEF SlotRecord
<1>2. Require(s, n) = t  BY DEF Require
<1> HIDE DEF rs
<1>3. t \in SlotRecord /\ t.units = s.units /\ t.recipe = s.recipe /\ t.requires = rs
  BY <1>1 DEF SlotRecord
<1> HIDE DEF t
<1>4. Owned(t)  BY <1>3, SlotIs DEF Owned
<1> QED  BY <1>2, <1>3, <1>4 DEF rs
----------------------------------------------------------------------------
(* A frame, when D are the names declared and K the probes.  Of the calls a  *)
(* frame may wait in only a read is not one of a body.                       *)
FrameFields == {"at", "who", "forced", "again", "todo", "saved", "open", "owed", "wait"}

Waiting == ({"none"} \X {NoName}) \cup ({"require", "import", "order", "group"} \X Name)
             \cup ({"read"} \X Key)

FrameOK(f, D, K) ==
  /\ DOMAIN f = FrameFields
  /\ f.at \in {"walk", "body", "need", "produce", "callback"}
  /\ f.forced \in BOOLEAN /\ f.again \in BOOLEAN
  /\ f.saved \in SlotRecord \cup {NoSlot} /\ Owned(f.saved)
  /\ f.open \in Nat /\ f.owed \subseteq Name
  /\ f.wait \in Waiting
  /\ f.wait # NoCall /\ f.wait[1] # "read" => f.at = "body"
  /\ OnPath(f) => f.who \in D /\ f.todo \subseteq Name
  /\ f.at \in {"need", "produce"} => f.who \in K /\ f.todo \subseteq Key
  /\ f.at = "callback" => f.saved = NoSlot

(* The frames on the stack and the slot that is open over them.              *)
Stacked(st, s, D, K) ==
  /\ IsSeq(st)
  /\ \A i \in DOMAIN st : FrameOK(st[i], D, K)
  /\ s \in SlotRecord \cup {NoSlot} /\ Owned(s)
  /\ Slots(s, st)

(* g is the frame f further on in its work. *)
Like(g, f) ==
  /\ g.at = f.at /\ g.who = f.who /\ g.forced = f.forced /\ g.again = f.again
  /\ g.saved = f.saved

(* What Stacked says of a stack, frame by frame. *)
LEMMA StackedCons ==
  ASSUME NEW st, NEW f, NEW t, Cons(st, f, t), NEW s, NEW D, NEW K
  PROVE  Stacked(st, s, D, K)
           <=> /\ IsSeq(t) /\ FrameOK(f, D, K) /\ \A i \in DOMAIN t : FrameOK(t[i], D, K)
               /\ s \in SlotRecord \cup {NoSlot} /\ Owned(s)
               /\ IF Lua(f) THEN Holds(s, f) /\ Slots(f.saved, t) ELSE Slots(s, t)
<1>1. /\ IsSeq(st) /\ IsSeq(t) /\ Len(t) \in Nat /\ st[1] = f
      /\ DOMAIN t = 1 .. Len(t) /\ DOMAIN st = 1 .. Len(t) + 1
      /\ \A i \in 1 .. Len(t) : st[i + 1] = t[i]
  BY DEF Cons
<1>2. (\A i \in DOMAIN st : FrameOK(st[i], D, K))
        <=> FrameOK(f, D, K) /\ \A i \in DOMAIN t : FrameOK(t[i], D, K)
  <2>1. 1 \in DOMAIN st /\ \A i \in DOMAIN t : i + 1 \in DOMAIN st  BY <1>1
  <2>2. \A i \in DOMAIN st : i = 1 \/ (i - 1 \in DOMAIN t /\ st[i] = t[i - 1])
    <3> SUFFICES ASSUME NEW i \in DOMAIN st, i # 1 PROVE i - 1 \in DOMAIN t /\ st[i] = t[i - 1]
      OBVIOUS
    <3>1. i - 1 \in 1 .. Len(t) /\ (i - 1) + 1 = i  BY <1>1
    <3>2. st[(i - 1) + 1] = t[i - 1]  BY <3>1, <1>1
    <3> QED  BY <3>1, <3>2, <1>1
  <2> QED  BY <2>1, <2>2, <1>1
<1>3. Slots(s, st) <=> IF Lua(f) THEN Holds(s, f) /\ Slots(f.saved, t) ELSE Slots(s, t)
  BY SlotsCons
<1> QED  BY <1>1, <1>2, <1>3 DEF Stacked

(* The empty stack, with no slot open, is in order, *)
LEMMA StackedNil == \A D, K : Stacked(<<>>, NoSlot, D, K)
<1>1. IsSeq(<<>>)  BY EmptySeq DEF IsSeq
<1>2. DOMAIN <<>> = {}  OBVIOUS
<1> QED  BY <1>1, <1>2, SlotsNil DEF Stacked, Owned

(* and over it no slot is open. *)
LEMMA StackedNone ==
  ASSUME NEW s, NEW D, NEW K, Stacked(<<>>, s, D, K) PROVE s = NoSlot
  BY SlotsNil DEF Stacked

(* A frame that runs no Lua is pushed and popped over the open slot. *)
LEMMA StackedPush ==
  ASSUME NEW st, NEW s, NEW D, NEW K, Stacked(st, s, D, K), NEW f, FrameOK(f, D, K), ~Lua(f)
  PROVE  Stacked(<<f>> \o st, s, D, K)
<1>1. Cons(<<f>> \o st, f, st)  BY ConsSeq DEF Stacked
<1> QED  BY <1>1, StackedCons DEF Stacked

(* A frame returns: the slot is the one it put aside, if it ran Lua. *)
LEMMA StackedPop ==
  ASSUME NEW st, NEW s, NEW D, NEW K, Stacked(st, s, D, K), st # <<>>
  PROVE  Stacked(Tail(st), IF Lua(Head(st)) THEN Head(st).saved ELSE s, D, K)
<1>1. Cons(st, Head(st), Tail(st))  BY SplitSeq DEF Stacked
<1>2. Owned(Head(st).saved) /\ Head(st).saved \in SlotRecord \cup {NoSlot}
  BY <1>1, StackedCons DEF FrameOK
<1> QED  BY <1>1, <1>2, StackedCons DEF Stacked

(* What the innermost frame is. *)
LEMMA StackedTop ==
  ASSUME NEW st, NEW s, NEW D, NEW K, Stacked(st, s, D, K), st # <<>>
  PROVE  /\ Cons(st, Head(st), Tail(st)) /\ IsSeq(Tail(st))
         /\ FrameOK(Head(st), D, K)
         /\ Lua(Head(st)) => Holds(s, Head(st))
<1>1. Cons(st, Head(st), Tail(st))  BY SplitSeq DEF Stacked
<1> QED  BY <1>1, StackedCons

(* The innermost frame goes on, and what it calls may change its slot. *)
LEMMA StackedSwap ==
  ASSUME NEW st, NEW s, NEW D, NEW K, Stacked(st, s, D, K), st # <<>>,
         NEW g, FrameOK(g, D, K), Like(g, Head(st))
  PROVE  Stacked(<<g>> \o Tail(st), s, D, K)
<1>1. Cons(st, Head(st), Tail(st))  BY SplitSeq DEF Stacked
<1>2. IsSeq(Tail(st))  BY <1>1 DEF Cons
<1>3. Cons(<<g>> \o Tail(st), g, Tail(st))  BY <1>2, ConsSeq
<1>4. /\ Lua(g) <=> Lua(Head(st))
      /\ g.saved = Head(st).saved
      /\ Holds(s, g) <=> Holds(s, Head(st))
  BY DEF Like, Lua, Holds
<1> QED  BY <1>1, <1>3, <1>4, StackedCons

(* The open slot changes and keeps its owner. *)
LEMMA StackedSlot ==
  ASSUME NEW st, NEW s \in SlotRecord, NEW D, NEW K, Stacked(st, s, D, K),
         NEW t \in SlotRecord, Owned(t), t.recipe = s.recipe
  PROVE  Stacked(st, t, D, K)
<1>1. s # NoSlot /\ t # NoSlot  BY SlotIs
<1>2. st # <<>>  BY <1>1, StackedNone
<1>3. Cons(st, Head(st), Tail(st))  BY <1>2, SplitSeq DEF Stacked
<1>4. CASE Lua(Head(st))
  <2>1. Holds(s, Head(st)) => Holds(t, Head(st))  BY <1>1 DEF Holds
  <2> QED  BY <1>3, <1>4, <2>1, StackedCons
<1>5. CASE ~Lua(Head(st))
  <2>1. Slots(s, st)  BY DEF Stacked
  <2>2. Slots(t, st)
    <3>1. \A f : Holds(s, f) => Holds(t, f)  BY <1>1 DEF Holds
    <3> QED  BY <2>1, <3>1, <1>1 DEF Slots, StandsFrom
  <2> QED  BY <2>2 DEF Stacked
<1> QED  BY <1>4, <1>5

(* A frame whose Lua starts puts the open slot aside. *)
LEMMA StackedCall ==
  ASSUME NEW st, NEW s, NEW D, NEW K, Stacked(st, s, D, K), st # <<>>, ~Lua(Head(st)),
         NEW g, FrameOK(g, D, K), Lua(g), g.saved = s,
         NEW t \in SlotRecord \cup {NoSlot}, Owned(t), Holds(t, g)
  PROVE  Stacked(<<g>> \o Tail(st), t, D, K)
<1>1. Cons(st, Head(st), Tail(st))  BY SplitSeq DEF Stacked
<1>2. IsSeq(Tail(st))  BY <1>1 DEF Cons
<1>3. Cons(<<g>> \o Tail(st), g, Tail(st))  BY <1>2, ConsSeq
<1> QED  BY <1>1, <1>3, StackedCons

(* More names and probes are declared. *)
LEMMA StackedMore ==
  ASSUME NEW st, NEW s, NEW D, NEW K, Stacked(st, s, D, K), NEW E, NEW L, D \subseteq E, K \subseteq L
  PROVE  Stacked(st, s, E, L)
<1>1. \A f : FrameOK(f, D, K) => FrameOK(f, E, L)  BY DEF FrameOK
<1> QED  BY <1>1 DEF Stacked

(* What the frame constructor makes. *)
LEMMA WalkFrame ==
  ASSUME NEW D, NEW K, NEW n \in D, NEW forced \in BOOLEAN, NEW again \in BOOLEAN,
         NEW todo, todo \subseteq Name
  PROVE  LET f == Frame("walk", n, forced, again, todo)
         IN /\ FrameOK(f, D, K) /\ ~Lua(f) /\ f.at = "walk" /\ f.who = n /\ f.forced = forced
            /\ f.again = again /\ f.todo = todo /\ f.wait = NoCall
  BY DEF Frame, FrameOK, FrameFields, Waiting, NoCall, Owned, OnPath, Lua, LuaFrames

(* The frame of a probe whose requires come first. *)
LEMMA NeedFrame ==
  ASSUME NEW D, NEW K, NEW k \in K, NEW todo, todo \subseteq Key
  PROVE  LET f == Frame("need", k, FALSE, FALSE, todo)
         IN /\ FrameOK(f, D, K) /\ ~Lua(f) /\ ~OnPath(f) /\ f.at = "need" /\ f.who = k /\ f.todo = todo
            /\ f.wait = NoCall
  BY DEF Frame, FrameOK, FrameFields, Waiting, NoCall, Owned, OnPath, Lua, LuaFrames

BodyOf(n, forced, s) == [Frame("body", n, forced, FALSE, {}) EXCEPT !.saved = s]

MayCall(n, forced, s, D) ==
  n \in D /\ forced \in BOOLEAN /\ s \in SlotRecord \cup {NoSlot} /\ Owned(s)

(* The frame of a body called. *)
LEMMA BodyFrame ==
  ASSUME NEW D, NEW K, NEW n, NEW forced, NEW s, MayCall(n, forced, s, D)
  PROVE  LET f == BodyOf(n, forced, s)
         IN /\ FrameOK(f, D, K) /\ Lua(f) /\ OnPath(f) /\ f.at = "body" /\ f.who = n /\ f.forced = forced
            /\ f.saved = s /\ f.wait = NoCall /\ f.todo = {}
  BY DEF MayCall, BodyOf, Frame, FrameOK, FrameFields, Waiting, NoCall, OnPath, Lua, LuaFrames

(* The frame of a probe produced. *)
LEMMA ProduceFrame ==
  ASSUME NEW D, NEW K, NEW k \in K, NEW s \in SlotRecord \cup {NoSlot}, Owned(s)
  PROVE  LET f == [Frame("produce", k, FALSE, FALSE, {}) EXCEPT !.saved = s]
         IN /\ FrameOK(f, D, K) /\ Lua(f) /\ ~OnPath(f) /\ f.at = "produce" /\ f.who = k /\ f.saved = s
            /\ f.wait = NoCall
  BY DEF Frame, FrameOK, FrameFields, Waiting, NoCall, OnPath, Lua, LuaFrames

(* The frame of a finalizer. *)
LEMMA CallbackFrame ==
  ASSUME NEW D, NEW K, NEW w
  PROVE  LET f == Frame("callback", w, FALSE, FALSE, {})
         IN /\ FrameOK(f, D, K) /\ Lua(f) /\ ~OnPath(f) /\ f.at = "callback" /\ f.saved = NoSlot
            /\ f.wait = NoCall
  BY DEF Frame, FrameOK, FrameFields, Waiting, NoCall, Owned, OnPath, Lua, LuaFrames
----------------------------------------------------------------------------
(* The innermost frame at work. *)
LEMMA TodoFrame ==
  ASSUME NEW D, NEW K, NEW f, FrameOK(f, D, K), NEW x
  PROVE  LET g == [f EXCEPT !.todo = @ \ {x}]
         IN FrameOK(g, D, K) /\ Like(g, f) /\ g.todo = f.todo \ {x} /\ g.wait = f.wait /\ g.owed = f.owed
            /\ g.open = f.open
  BY DEF FrameOK, FrameFields, Like, OnPath

(* The frame waits in a call. *)
LEMMA WaitFrame ==
  ASSUME NEW D, NEW K, NEW f, FrameOK(f, D, K), NEW w \in Waiting,
         w # NoCall /\ w[1] # "read" => f.at = "body"
  PROVE  LET g == [f EXCEPT !.wait = w]
         IN FrameOK(g, D, K) /\ Like(g, f) /\ g.todo = f.todo /\ g.wait = w
  BY DEF FrameOK, FrameFields, Like, OnPath

(* A step group opens or closes. *)
LEMMA OpenFrame ==
  ASSUME NEW D, NEW K, NEW f, FrameOK(f, D, K), NEW m \in Nat
  PROVE  LET g == [f EXCEPT !.open = m]
         IN FrameOK(g, D, K) /\ Like(g, f) /\ g.todo = f.todo /\ g.wait = f.wait
  BY DEF FrameOK, FrameFields, Like, OnPath

(* A step group owes the forces of its dep_order. *)
LEMMA OwedFrame ==
  ASSUME NEW D, NEW K, NEW f, FrameOK(f, D, K), NEW ns, ns \subseteq Name
  PROVE  LET g == [f EXCEPT !.owed = ns]
         IN FrameOK(g, D, K) /\ Like(g, f) /\ g.todo = f.todo /\ g.wait = f.wait
<1> DEFINE g == [f EXCEPT !.owed = ns]
<1>1. /\ DOMAIN g = FrameFields /\ g.owed = ns
      /\ g.at = f.at /\ g.who = f.who /\ g.forced = f.forced /\ g.again = f.again
      /\ g.todo = f.todo /\ g.saved = f.saved /\ g.open = f.open /\ g.wait = f.wait
  BY DEF FrameOK, FrameFields
<1> HIDE DEF g
<1>2. FrameOK(g, D, K)  BY <1>1 DEF FrameOK, OnPath
<1> QED  BY <1>1, <1>2 DEF Like, g

(* What is further on than a frame further on is further on. *)
LEMMA LikeTrans ==
  ASSUME NEW f, NEW g, NEW h, Like(h, g), Like(g, f) PROVE Like(h, f)
  BY DEF Like

(* Waiting in no call is a way to wait. *)
LEMMA NoCallWaits == NoCall \in Waiting
  BY DEF NoCall, Waiting

(* The call came back, or raised. *)
LEMMA BackFrame ==
  ASSUME NEW D, NEW K, NEW f, FrameOK(f, D, K), NEW ns, ns \subseteq Name, NEW m \in Nat
  PROVE  LET g == [f EXCEPT !.wait = NoCall, !.owed = ns, !.open = m]
             h == [f EXCEPT !.wait = NoCall, !.owed = ns]
         IN /\ FrameOK(g, D, K) /\ Like(g, f) /\ g.todo = f.todo /\ g.wait = NoCall
            /\ FrameOK(h, D, K) /\ Like(h, f) /\ h.todo = f.todo /\ h.wait = NoCall
<1> DEFINE e == [f EXCEPT !.wait = NoCall]
           h == [e EXCEPT !.owed = ns]
           g == [h EXCEPT !.open = m]
<1>1. FrameOK(e, D, K) /\ Like(e, f) /\ e.todo = f.todo /\ e.wait = NoCall
  BY WaitFrame, NoCallWaits
<1>2. /\ g = [f EXCEPT !.wait = NoCall, !.owed = ns, !.open = m]
      /\ h = [f EXCEPT !.wait = NoCall, !.owed = ns]
  OBVIOUS
<1> HIDE DEF e
<1>3. FrameOK(h, D, K) /\ Like(h, e) /\ h.todo = e.todo /\ h.wait = e.wait
  BY <1>1, OwedFrame
<1> HIDE DEF h
<1>4. FrameOK(g, D, K) /\ Like(g, h) /\ g.todo = h.todo /\ g.wait = h.wait
  BY <1>3, OpenFrame
<1> HIDE DEF g
<1>5. Like(h, f) /\ Like(g, f)  BY <1>1, <1>3, <1>4, LikeTrans
<1> QED  BY <1>1, <1>2, <1>3, <1>4, <1>5

----------------------------------------------------------------------------
(* The first position of a name among some declarations. *)
First(rs, n, i) ==
  /\ i \in DOMAIN rs /\ rs[i].name = n
  /\ \A j \in DOMAIN rs : rs[j].name = n => i <= j

(* A name declared is declared first somewhere, *)
LEMMA FirstIs ==
  ASSUME NEW rs, IsSeq(rs), NEW n, \E i \in DOMAIN rs : rs[i].name = n
  PROVE  First(rs, n, CHOOSE i \in DOMAIN rs :
                        rs[i].name = n /\ \A j \in DOMAIN rs : rs[j].name = n => i <= j)
<1> DEFINE T == {i \in DOMAIN rs : rs[i].name = n}
<1>1. PICK i \in T : \A j \in T : i <= j
  <2>1. T \subseteq Nat /\ T # {}
    <3>1. Len(rs) \in Nat /\ DOMAIN rs = 1 .. Len(rs)  BY SeqHas
    <3> QED  BY <3>1
  <2> HIDE DEF T
  <2> QED  BY <2>1, LeastNat
<1>2. First(rs, n, i)  BY <1>1 DEF First
<1>3. \E x \in DOMAIN rs : rs[x].name = n /\ \A j \in DOMAIN rs : rs[j].name = n => x <= j
  BY <1>2 DEF First
<1> HIDE DEF T
<1> QED  BY <1>3 DEF First

(* and nowhere else. *)
LEMMA FirstOnly ==
  ASSUME NEW rs, IsSeq(rs), NEW n, NEW i, NEW j, First(rs, n, i), First(rs, n, j)
  PROVE  i = j
<1>1. Len(rs) \in Nat /\ DOMAIN rs = 1 .. Len(rs)  BY SeqHas
<1>2. i \in Nat /\ j \in Nat /\ i <= j /\ j <= i  BY <1>1 DEF First
<1> QED  BY <1>2

(* More declarations at the end change nothing of what came first. *)
LEMMA FirstStays ==
  ASSUME NEW rs, IsSeq(rs), NEW d, NEW n, NEW i, First(rs, n, i)
  PROVE  First(Append(rs, d), n, i) /\ Append(rs, d)[i] = rs[i]
<1>1. /\ Len(rs) \in Nat /\ DOMAIN rs = 1 .. Len(rs)
      /\ DOMAIN Append(rs, d) = 1 .. Len(rs) + 1
      /\ \A j \in 1 .. Len(rs) : Append(rs, d)[j] = rs[j]
  BY AppendSeq
<1>2. i \in 1 .. Len(rs) /\ rs[i].name = n  BY <1>1 DEF First
<1>3. ASSUME NEW j \in 1 .. Len(rs) + 1, Append(rs, d)[j].name = n PROVE i <= j
  <2>1. CASE j \in 1 .. Len(rs)  BY <2>1, <1>1, <1>3 DEF First
  <2>2. CASE j \notin 1 .. Len(rs)  BY <2>2, <1>1, <1>2
  <2> QED  BY <2>1, <2>2
<1>4. i \in 1 .. Len(rs) + 1 /\ Append(rs, d)[i] = rs[i]  BY <1>1, <1>2
<1> QED  BY <1>1, <1>2, <1>3, <1>4 DEF First

----------------------------------------------------------------------------
Named == DOMAIN StaticEdges

(* What the pass is given and the two lists it extends. *)
InData ==
  /\ file \in CookfileRecord
  /\ recipes \in Seq(Declaration)
  /\ Len(file.recipes) <= Len(recipes)
  /\ \A i \in 1 .. Len(file.recipes) : recipes[i] = file.recipes[i]
  /\ DOMAIN probes \subseteq Key
  /\ \A k \in DOMAIN probes : probes[k] \in ProbeDeclaration

(* The names with static edges are those declared. *)
LEMMA NamedIs ==
  /\ Named = {recipes[i].name : i \in DOMAIN recipes}
  /\ \A n : Declared(n) <=> n \in Named
<1>1. Named = {recipes[i].name : i \in DOMAIN recipes}  BY DEF Named, StaticEdges
<1>2. \A n : n \in {recipes[i].name : i \in DOMAIN recipes} <=> \E i \in DOMAIN recipes : recipes[i].name = n
  OBVIOUS
<1> QED  BY <1>1, <1>2 DEF Declared

(* What DeclOf finds: a declaration of that name. *)
LEMMA DeclIs ==
  ASSUME InData, NEW n \in Named
  PROVE  /\ First(recipes, n, CHOOSE i \in DOMAIN recipes :
                  recipes[i].name = n /\ \A j \in DOMAIN recipes : recipes[j].name = n => i <= j)
         /\ DeclOf(n) \in Declaration /\ DeclOf(n).name = n
         /\ n \in Name /\ DeclOf(n).requires \subseteq Name
         /\ StaticEdges[n] = DeclOf(n).requires
<1> DEFINE i == CHOOSE x \in DOMAIN recipes :
                  recipes[x].name = n /\ \A j \in DOMAIN recipes : recipes[j].name = n => x <= j
<1>1. IsSeq(recipes) /\ \A j \in DOMAIN recipes : recipes[j] \in Declaration
  BY SeqIs DEF InData
<1>2. First(recipes, n, i)
  <2>1. \E j \in DOMAIN recipes : recipes[j].name = n  BY NamedIs
  <2> QED  BY <1>1, <2>1, FirstIs
<1>3. DeclOf(n) = recipes[i]  BY DEF DeclOf
<1>4. StaticEdges[n] = DeclOf(n).requires  BY DEF StaticEdges, Named
<1> HIDE DEF i
<1>5. DeclOf(n) \in Declaration /\ DeclOf(n).name = n  BY <1>1, <1>2, <1>3 DEF First
<1>6. n \in Name /\ DeclOf(n).requires \subseteq Name  BY <1>5 DEF Declaration
<1> QED  BY <1>2, <1>4, <1>5, <1>6 DEF i

(* Names declared are names. *)
LEMMA NamedNames == ASSUME InData PROVE Named \subseteq Name
  BY DeclIs

(* The names sorted before the first body stay declared. *)
LEMMA SortedNamed ==
  ASSUME InData PROVE Sorted \subseteq Named /\ Sorted \subseteq Name
<1>1. /\ Len(file.recipes) \in Nat /\ DOMAIN file.recipes = 1 .. Len(file.recipes)
      /\ Len(recipes) \in Nat /\ DOMAIN recipes = 1 .. Len(recipes)
  <2>1. file.recipes \in Seq(Declaration)  BY DEF InData, CookfileRecord
  <2>2. recipes \in Seq(Declaration)  BY DEF InData
  <2> QED  BY <2>1, <2>2, SeqIs, SeqHas
<1>2. ASSUME NEW n \in Sorted PROVE n \in Named
  <2>1. PICK i \in DOMAIN file.recipes : n = file.recipes[i].name  BY DEF Sorted
  <2>2. i \in DOMAIN recipes /\ recipes[i] = file.recipes[i]  BY <1>1, <2>1 DEF InData
  <2> QED  BY <2>1, <2>2, NamedIs
<1> QED  BY <1>2, NamedNames

(* There are finitely many of them. *)
LEMMA NamedFinite == ASSUME InData PROVE IsFiniteSet(Named)
<1> DEFINE n == Len(recipes)
           f == [i \in 1 .. n |-> recipes[i].name]
<1>1. n \in Nat /\ DOMAIN recipes = 1 .. n
  <2>1. recipes \in Seq(Declaration)  BY DEF InData
  <2> QED  BY <2>1, SeqIs, SeqHas
<1>2. IsFiniteSet(1 .. n)
  <2>1. 1 \in Int /\ n \in Int  BY <1>1
  <2> QED  BY <2>1, FS_Interval
<1>3. f \in Surjection(1 .. n, Named)
  BY <1>1, NamedIs DEF Surjection
<1> QED  BY <1>2, <1>3, FS_Surjection

(* What a name was declared as stays what it was. *)
LEMMA DeclStays ==
  ASSUME InData, NEW d \in Declaration, recipes' = Append(recipes, d), NEW n \in Named
  PROVE  n \in Named' /\ DeclOf(n)' = DeclOf(n)
<1>1. IsSeq(recipes) /\ IsSeq(recipes')
  <2>1. recipes \in Seq(Declaration) /\ recipes' \in Seq(Declaration)  BY DEF InData
  <2> QED  BY <2>1, SeqIs
<1> DEFINE i == CHOOSE x \in DOMAIN recipes :
                  recipes[x].name = n /\ \A j \in DOMAIN recipes : recipes[j].name = n => x <= j
           k == CHOOSE x \in DOMAIN recipes' :
                  recipes'[x].name = n /\ \A j \in DOMAIN recipes' : recipes'[j].name = n => x <= j
<1>2. First(recipes, n, i)  BY DeclIs
<1>3. DeclOf(n) = recipes[i] /\ DeclOf(n)' = recipes'[k]  BY DEF DeclOf
<1>4. First(recipes', n, i) /\ recipes'[i] = recipes[i]
  <2> HIDE DEF i
  <2> QED  BY <1>1, <1>2, FirstStays
<1>5. \E x \in DOMAIN recipes' : recipes'[x].name = n
  <2> HIDE DEF i
  <2> QED  BY <1>4 DEF First
<1>6. First(recipes', n, k)
  <2> DEFINE rs == recipes'
  <2>1. IsSeq(rs) /\ \E x \in DOMAIN rs : rs[x].name = n  BY <1>1, <1>5
  <2>2. k = CHOOSE x \in DOMAIN rs :
              rs[x].name = n /\ \A j \in DOMAIN rs : rs[j].name = n => x <= j
    OBVIOUS
  <2> HIDE DEF rs, k
  <2>3. First(rs, n, k)  BY <2>1, <2>2, FirstIs
  <2> QED  BY <2>3 DEF rs
<1> HIDE DEF i, k
<1>7. i = k  BY <1>1, <1>4, <1>6, FirstOnly
<1>8. n \in Named'  BY <1>5 DEF Named, StaticEdges
<1> QED  BY <1>3, <1>4, <1>7, <1>8
----------------------------------------------------------------------------
(* Type correctness, with what the stack says of the slot and whose units    *)
(* are kept.                                                                 *)
InMarks ==
  /\ phase \in {"load", "prepass", "bodies", "close", "drain", "done", "failed"}
  /\ visit \in [Name -> {"new", "visiting", "ran", "forced", "skipped", "failed"}]
  /\ path \in Seq(Name) /\ names \in Seq(Name)
  /\ ret \in {"none", "ok", "err"}
  /\ reach \subseteq Name /\ seeded \subseteq Name /\ exports \subseteq Name
  /\ store \subseteq DOMAIN probes
  /\ cursor \in Nat /\ queued \in Nat /\ cursor <= queued
  /\ calls \in 0..MaxCalls
  /\ runs \in [Name -> Nat] /\ produced \in [Key -> Nat]

EntryOK(e, n) ==
  /\ e.requires \subseteq Name /\ e.units \in Seq(UnitRecord) /\ e.ran \in BOOLEAN
  /\ \A i \in DOMAIN e.units : e.units[i].author = n

InEntries ==
  /\ DOMAIN entry \subseteq Name
  /\ \A n \in DOMAIN entry : EntryOK(entry[n], n)
  /\ DOMAIN terminal \subseteq DOMAIN entry
  /\ \A n \in DOMAIN terminal : terminal[n] \subseteq Path

InStack ==
  /\ Stacked(stack, slot, Named, DOMAIN probes)
  /\ phase \in {"load", "close", "done", "failed"} => stack = <<>>

TypeInv == InData /\ InMarks /\ InEntries /\ InStack

(* The innermost frame, and the slot over it. *)
LEMMA TopIs ==
  ASSUME TypeInv, stack # <<>>
  PROVE  /\ Cons(stack, Top, Below) /\ IsSeq(Below)
         /\ FrameOK(Top, Named, DOMAIN probes)
         /\ Lua(Top) => Holds(slot, Top)
         /\ slot # NoSlot => slot \in SlotRecord
         /\ Owned(slot)
  BY StackedTop DEF TypeInv, InStack, Top, Below, Stacked

(* While Lua runs the slot is that of the body it belongs to. *)
LEMMA AtLua ==
  ASSUME TypeInv, InLua
  PROVE  /\ stack # <<>> /\ Lua(Top) /\ Holds(slot, Top)
         /\ slot # NoSlot => Top.at = "body" /\ Author = slot.recipe /\ slot.recipe \in Name
                             /\ slot \in SlotRecord
<1>1. stack # <<>> /\ Lua(Top)  BY DEF InLua, Ready, Lua
<1>2. Holds(slot, Top)  BY <1>1, TopIs
<1>3. Cons(stack, Top, Below)  BY <1>1, TopIs
<1>4. Innermost = {1}
  <2>1. /\ stack[1] = Top /\ 1 \in DOMAIN stack
        /\ \A i \in DOMAIN stack : i = 1 \/ 1 \in 1 .. i - 1
    BY <1>3 DEF Cons
  <2>2. 1 \in Innermost
    <3>1. 1 .. 1 - 1 = {}  OBVIOUS
    <3> QED  BY <2>1, <3>1, <1>1 DEF Innermost, Lua
  <2>3. \A i \in Innermost : i = 1  BY <2>1, <1>1 DEF Innermost, Lua
  <2> QED  BY <2>2, <2>3
<1>5. Author = Top.who
  <2>1. (CHOOSE i \in Innermost : TRUE) = 1  BY <1>4
  <2> QED  BY <2>1, <1>3 DEF Author, Cons
<1>6. slot # NoSlot => slot \in SlotRecord  BY <1>1, TopIs
<1>7. slot \in SlotRecord => slot.recipe \in Name  BY DEF SlotRecord
<1> QED  BY <1>1, <1>2, <1>5, <1>6, <1>7 DEF Holds

(* Names and declarations are as the list of recipes is. *)
LEMMA NamedSame == ASSUME recipes' = recipes PROVE Named' = Named /\ \A n : DeclOf(n)' = DeclOf(n)
<1>1. \A n : DeclOf(n)' = DeclOf(n)  BY DEF DeclOf
<1> QED  BY <1>1 DEF Named, StaticEdges

----------------------------------------------------------------------------
(* The calls the driver is re-entered by. *)
LEMMA EnterStacked ==
  ASSUME TypeInv, NEW n \in Named, NEW forced \in BOOLEAN, NEW below,
         Stacked(below, slot, Named, DOMAIN probes), Enter(n, forced, below)
  PROVE  Stacked(stack', slot, Named, DOMAIN probes)
<1>1. DeclOf(n).requires \subseteq Name  BY DeclIs DEF TypeInv
<1>2. CASE stack' = below  BY <1>2
<1>3. ASSUME NEW again \in BOOLEAN, NEW force \in BOOLEAN,
             stack' = <<Frame("walk", n, force, again, DeclOf(n).requires)>> \o below
      PROVE  Stacked(stack', slot, Named, DOMAIN probes)
  <2> DEFINE f == Frame("walk", n, force, again, DeclOf(n).requires)
  <2>1. FrameOK(f, Named, DOMAIN probes) /\ ~Lua(f)  BY <1>1, WalkFrame
  <2> HIDE DEF f
  <2>2. Stacked(<<f>> \o below, slot, Named, DOMAIN probes)  BY <2>1, StackedPush
  <2> QED  BY <2>2, <1>3 DEF f
<1>4. \/ stack' = below
      \/ \E again, force \in BOOLEAN :
           stack' = <<Frame("walk", n, force, again, DeclOf(n).requires)>> \o below
  BY DEF Enter, PushDown
<1> QED  BY <1>2, <1>3, <1>4

(* path without its last name. *)
LEMMA PoppedPath ==
  ASSUME NEW p \in Seq(Name) PROVE SubSeq(p, 1, Len(p) - 1) \in Seq(Name)
<1>1. CASE p = <<>>
  <2>1. SubSeq(p, 1, Len(p) - 1) = <<>>  BY <1>1
  <2> QED  BY <2>1
<1>2. CASE p # <<>>
  <2>1. Len(p) \in Nat /\ Len(p) > 0  BY <1>2, EmptySeq, LenProperties
  <2>2. 1 \in 1 .. Len(p) + 1 /\ Len(p) - 1 \in 1 - 1 .. Len(p)  BY <2>1
  <2> QED  BY <2>2, SubSeqProperties
<1> QED  BY <1>1, <1>2

(* ensure_invoked leaves the marks in order. *)
LEMMA EnterMarks ==
  ASSUME TypeInv, NEW n \in Named, NEW forced, NEW below, Enter(n, forced, below)
  PROVE  /\ visit' \in [Name -> {"new", "visiting", "ran", "forced", "skipped", "failed"}]
         /\ path' \in Seq(Name) /\ ret' \in {"none", "ok", "err"}
<1>1. n \in Name  BY DeclIs DEF TypeInv
<1>2. path \in Seq(Name) /\ visit \in [Name -> {"new", "visiting", "ran", "forced", "skipped", "failed"}]
  BY DEF TypeInv, InMarks
<1>3. Append(path, n) \in Seq(Name)  BY <1>1, <1>2
<1> QED  BY <1>1, <1>2, <1>3 DEF Enter, PushDown

(* So does a probe resolved, with the stack. *)
LEMMA ResolveStacked ==
  ASSUME TypeInv, NEW k \in Key, NEW below,
         Stacked(below, slot, Named, DOMAIN probes), Resolve(k, below)
  PROVE  Stacked(stack', slot, Named, DOMAIN probes) /\ ret' \in {"none", "ok", "err"}
<1>1. CASE k \in store \cup InProgress \/ k \notin DOMAIN probes
  BY <1>1 DEF Resolve
<1>2. CASE ~(k \in store \cup InProgress \/ k \notin DOMAIN probes)
  <2> DEFINE f == Frame("need", k, FALSE, FALSE, probes[k].requires)
  <2>1. probes[k].requires \subseteq Key  BY <1>2 DEF TypeInv, InData, ProbeDeclaration
  <2>2. FrameOK(f, Named, DOMAIN probes) /\ ~Lua(f)  BY <1>2, <2>1, NeedFrame
  <2>3. stack' = <<f>> \o below /\ ret' = "none"  BY <1>2 DEF Resolve
  <2> HIDE DEF f
  <2>4. Stacked(<<f>> \o below, slot, Named, DOMAIN probes)  BY <2>2, StackedPush
  <2> QED  BY <2>3, <2>4
<1> QED  BY <1>1, <1>2
----------------------------------------------------------------------------
(* The innermost frame goes on, here to wait in a call. *)
LEMMA SwapTop ==
  ASSUME TypeInv, stack # <<>>, NEW g, FrameOK(g, Named, DOMAIN probes), Like(g, Top)
  PROVE  Stacked(<<g>> \o Below, slot, Named, DOMAIN probes)
  BY StackedSwap DEF TypeInv, InStack, Top, Below

(* The innermost frame waits in a call, *)
LEMMA SwapWait ==
  ASSUME TypeInv, stack # <<>>, NEW api, NEW n, <<api, n>> \in Waiting,
         api # "read" => Top.at = "body"
  PROVE  Stacked(Waits(api, n), slot, Named, DOMAIN probes)
<1> DEFINE w == <<api, n>>
           g == [Top EXCEPT !.wait = w]
<1>1. FrameOK(Top, Named, DOMAIN probes)  BY TopIs
<1>2. w \in Waiting /\ (w # NoCall /\ w[1] # "read" => Top.at = "body")  OBVIOUS
<1> HIDE DEF w
<1>3. FrameOK(g, Named, DOMAIN probes) /\ Like(g, Top)  BY <1>1, <1>2, WaitFrame
<1> HIDE DEF g
<1>4. Stacked(<<g>> \o Below, slot, Named, DOMAIN probes)  BY <1>3, SwapTop
<1> QED  BY <1>4 DEF Waits, g, w

(* or has one require less to do. *)
LEMMA SwapTodo ==
  ASSUME TypeInv, stack # <<>>, NEW x
  PROVE  Stacked(<<[Top EXCEPT !.todo = @ \ {x}]>> \o Below, slot, Named, DOMAIN probes)
<1> DEFINE g == [Top EXCEPT !.todo = @ \ {x}]
<1>1. FrameOK(g, Named, DOMAIN probes) /\ Like(g, Top)  BY TopIs, TodoFrame
<1> HIDE DEF g
<1>2. Stacked(<<g>> \o Below, slot, Named, DOMAIN probes)  BY <1>1, SwapTop
<1> QED  BY <1>2 DEF g

(* A call that forces a body leaves the stack in order. *)
LEMMA ForcesStacked ==
  ASSUME TypeInv, InLua, slot # NoSlot, NEW api \in {"require", "import", "order"}, NEW n \in Name,
         Forces(api, n)
  PROVE  Stacked(stack', slot, Named, DOMAIN probes)
<1>1. n \in Named  BY NamedIs DEF Forces
<1>2. stack # <<>> /\ Top.at = "body"  BY AtLua
<1>3. <<api, n>> \in Waiting  BY DEF Waiting
<1>4. Stacked(Waits(api, n), slot, Named, DOMAIN probes)  BY <1>2, <1>3, SwapWait
<1> HIDE DEF Waits
<1> QED  BY <1>1, <1>4, EnterStacked DEF Forces

(* A call changes the slot of the body that makes it. *)
LEMMA SlotStacked ==
  ASSUME TypeInv, slot # NoSlot, NEW t \in SlotRecord, Owned(t), t.recipe = slot.recipe
  PROVE  Stacked(stack, t, Named, DOMAIN probes)
<1>1. Stacked(stack, slot, Named, DOMAIN probes)  BY DEF TypeInv, InStack
<1>2. slot \in SlotRecord  BY <1>1 DEF Stacked
<1> QED  BY <1>1, <1>2, StackedSlot

(* A frame is done with. *)
LEMMA PopStacked ==
  ASSUME TypeInv, stack # <<>>
  PROVE  Stacked(Below, IF Lua(Top) THEN Top.saved ELSE slot, Named, DOMAIN probes)
  BY StackedPop DEF TypeInv, InStack, Top, Below

----------------------------------------------------------------------------

(* No step takes a declaration back. *)
LEMMA DataNext ==
  ASSUME TypeInv, [Next]_vars
  PROVE  /\ InData' /\ Named \subseteq Named' /\ DOMAIN probes \subseteq DOMAIN probes'
         /\ \A n \in Named : DeclOf(n)' = DeclOf(n)
         /\ file' = file
<1>1. /\ InData /\ file.hidden \in UNION {[K -> ProbeDeclaration] : K \in SUBSET Key}
      /\ file.late \subseteq Declaration
  BY DEF TypeInv, InData, CookfileRecord
<1>2. CASE UNCHANGED <<file, registry>>
  BY <1>1, <1>2, NamedSame DEF InData, registry
<1>3. CASE CallProbe
  <2>1. PICK k \in DOMAIN file.hidden \ DOMAIN probes : probes' = With(probes, k, file.hidden[k])
    BY <1>3 DEF CallProbe
  <2>2. file' = file /\ recipes' = recipes  BY <1>3 DEF CallProbe
  <2>3. k \in Key /\ file.hidden[k] \in ProbeDeclaration  BY <1>1, <2>1
  <2>4. /\ DOMAIN probes' = DOMAIN probes \cup {k} /\ probes'[k] = file.hidden[k]
        /\ \A x \in DOMAIN probes : probes'[x] = probes[x]
    BY <2>1 DEF With
  <2>5. InData'  BY <1>1, <2>2, <2>3, <2>4 DEF InData
  <2> QED  BY <2>2, <2>4, <2>5, NamedSame
<1>4. CASE CallRecipe
  <2>1. PICK d \in file.late : recipes' = Append(recipes, d)  BY <1>4 DEF CallRecipe
  <2>2. file' = file /\ probes' = probes  BY <1>4 DEF CallRecipe
  <2>3. d \in Declaration  BY <1>1, <2>1
  <2>4. \A n \in Named : n \in Named' /\ DeclOf(n)' = DeclOf(n)  BY <1>1, <2>1, <2>3, DeclStays
  <2>5. recipes \in Seq(Declaration) /\ IsSeq(recipes) /\ file.recipes \in Seq(Declaration)
    BY <1>1, SeqIs DEF InData, CookfileRecord
  <2>6. recipes' \in Seq(Declaration)  BY <2>1, <2>3, <2>5
  <2>7. /\ Len(recipes') = Len(recipes) + 1 /\ Len(recipes) \in Nat
        /\ \A i \in 1 .. Len(recipes) : recipes'[i] = recipes[i]
    BY <2>1, <2>5, AppendSeq
  <2>8. Len(file.recipes) \in Nat /\ Len(file.recipes) <= Len(recipes)
        /\ \A i \in 1 .. Len(file.recipes) : recipes[i] = file.recipes[i]
    BY <1>1, <2>5, LenProperties DEF InData
  <2>9. Len(file.recipes) <= Len(recipes')
        /\ \A i \in 1 .. Len(file.recipes) : recipes'[i] = file.recipes[i]
    BY <2>7, <2>8
  <2>10. InData'  BY <1>1, <2>2, <2>6, <2>9 DEF InData
  <2> QED  BY <2>2, <2>4, <2>10
<1>5. CASE LuaCall
  <2>1. CASE CallProbe  BY <1>3, <2>1
  <2>2. CASE CallRecipe  BY <1>4, <2>2
  <2>3. CASE ~CallProbe /\ ~CallRecipe
    <3>1. UNCHANGED <<file, registry>>
      BY <1>5, <2>3
      DEF LuaCall, CallExec, CallAddUnit, CallExport, CallDepOutput, CallOnComplete, CallStepGroup,
          CallRead, LuaRaises, CallRequire, CallImport, CallDepOrder, Forces, Writes, registry
    <3> QED  BY <3>1, <1>2
  <2> QED  BY <2>1, <2>2, <2>3
<1>6. CASE LuaStep
  BY <1>2, <1>6 DEF LuaStep, GroupForces, CallReturns, CallRaises, GroupEnds
<1>7. CASE DriverStep
  BY <1>2, <1>7
  DEF DriverStep, WalkDep, WalkFails, ForceReached, RefuseBody, SkipBody, CallBody, BodyReturns,
      BodyFails, NeedNext, NeedFails, NeedDone, ProduceEnds
<1>8. CASE PassStep
  BY <1>2, <1>8
  DEF PassStep, Load, LoadFails, Stops, Prepass, PrepassDone, PassFails, Seed, SeedsDone, Close,
      CloseFails, CallFinalizer, FinalizerEnds, Finish, FinishFails
<1>9. CASE UNCHANGED vars  BY <1>2, <1>9 DEF vars
<1> QED  BY <1>5, <1>6, <1>7, <1>8, <1>9 DEF Next
----------------------------------------------------------------------------
(* The slot is as it was, or the body whose slot it is changed it. *)
Kept == slot' = slot \/ (slot # NoSlot /\ SameOwner(slot, slot'))

(* Every step leaves the frames and the slot in order; first the calls Lua   *)
(* makes.                                                                    *)
LEMMA StackLua ==
  ASSUME TypeInv, LuaCall
  PROVE  Stacked(stack', slot', Named', DOMAIN probes') /\ phase' = phase /\ stack # <<>>
         /\ Kept
<1>0. TypeInv /\ Stacked(stack, slot, Named, DOMAIN probes) /\ Owned(slot)
  BY DEF TypeInv, InStack, Stacked
<1>1. InLua /\ phase' = phase /\ stack # <<>>
  BY DEF LuaCall, CallExec, CallAddUnit, CallExport, CallDepOutput, CallProbe, CallRecipe,
         CallOnComplete, CallStepGroup, CallRead, LuaRaises, CallRequire, CallImport, CallDepOrder,
         Forces, Writes, Calls, InLua, Ready
<1>2. slot # NoSlot => /\ Top.at = "body" /\ Author = slot.recipe /\ slot.recipe \in Name
                       /\ slot \in SlotRecord
  BY <1>1, AtLua
<1>3. ASSUME recipes' = recipes, probes' = probes PROVE Named' = Named /\ DOMAIN probes' = DOMAIN probes
  BY <1>3, NamedSame
<1>4. ASSUME slot # NoSlot, NEW t, SameOwner(slot, t)
      PROVE  Stacked(stack, t, Named, DOMAIN probes)
  BY <1>4, SlotStacked DEF SameOwner
<1>5. CASE CallExec
  <2>1. PICK payload \in {"shell", "interactive"} : slot' = Exec(slot, Author, payload)
    BY <1>5 DEF CallExec
  <2>2. slot # NoSlot /\ UNCHANGED <<stack, recipes, probes>>  BY <1>5 DEF CallExec, Writes
  <2>3. SameOwner(slot, Exec(slot, slot.recipe, payload))  BY <1>0, <1>2, <2>2, ExecIs
  <2> QED  BY <1>1, <1>2, <1>3, <1>4, <2>1, <2>2, <2>3 DEF Kept
<1>6. CASE CallAddUnit
  <2>1. PICK c \in file.calls :
          slot' = IF LateRefusal(c) THEN TakePending(slot) ELSE AddUnit(slot, Author, c)
    BY <1>6 DEF CallAddUnit
  <2>2. slot # NoSlot /\ UNCHANGED <<stack, recipes, probes>>  BY <1>6 DEF CallAddUnit, registry
  <2>3. c \in CallRecord  BY <1>0, <2>1 DEF TypeInv, InData, CookfileRecord
  <2>4. SameOwner(slot, TakePending(slot)) /\ SameOwner(slot, AddUnit(slot, slot.recipe, c))
    BY <1>0, <1>2, <2>2, <2>3, TakePendingIs, AddUnitIs
  <2>5. SameOwner(slot, slot')  BY <1>2, <2>1, <2>2, <2>4
  <2>6. Stacked(stack, slot', Named, DOMAIN probes)  BY <1>4, <2>2, <2>5
  <2> QED  BY <1>1, <1>3, <2>2, <2>5, <2>6 DEF Kept
<1>7. CASE CallExport
  BY <1>0, <1>1, <1>3, <1>7 DEF CallExport, Writes, Kept
<1>8. CASE CallDepOutput
  <2>1. PICK n \in DOMAIN terminal :
          \/ slot' = DepOutput(slot, n, terminal[n])
          \/ slot' = Passthrough(slot, terminal[n])
          \/ \E m \in Member :
               slot' = DepOutputMember(slot, n, MemberOutputs([units |-> entry[n].units], m))
    BY <1>8 DEF CallDepOutput
  <2>2. slot # NoSlot /\ UNCHANGED <<stack, recipes, probes>>  BY <1>8 DEF CallDepOutput, Writes
  <2>3. n \in Name /\ terminal[n] \in SUBSET Path /\ entry[n].units \in Seq(UnitRecord)
    BY <1>0, <2>1 DEF TypeInv, InEntries, EntryOK
  <2>4. \A m : MemberOutputs([units |-> entry[n].units], m) \in SUBSET Path  BY <2>3, MemberIs
  <2>5. /\ \A ps \in SUBSET Path : SameOwner(slot, DepOutput(slot, n, ps))
        /\ \A ps \in SUBSET Path : SameOwner(slot, DepOutputMember(slot, n, ps))
        /\ \A ps \in SUBSET Path : SameOwner(slot, Passthrough(slot, ps))
    BY <1>0, <1>2, <2>2, <2>3, DepOutputIs, PassthroughIs
  <2>6. SameOwner(slot, slot')  BY <2>1, <2>3, <2>4, <2>5
  <2>7. Stacked(stack, slot', Named, DOMAIN probes)  BY <1>4, <2>2, <2>6
  <2> QED  BY <1>1, <1>3, <2>2, <2>6, <2>7 DEF Kept
<1>9. CASE CallProbe
  <2>1. PICK k \in DOMAIN file.hidden \ DOMAIN probes :
          slot' = IF slot = NoSlot THEN slot ELSE CaptureProbe(slot, Author, file.hidden[k].requires)
    BY <1>9 DEF CallProbe
  <2>2. stack' = stack  BY <1>9 DEF CallProbe
  <2>3. file.hidden[k].requires \in SUBSET Key
    <3>1. file.hidden \in UNION {[K -> ProbeDeclaration] : K \in SUBSET Key}
      BY <1>0 DEF TypeInv, InData, CookfileRecord
    <3>2. file.hidden[k] \in ProbeDeclaration  BY <2>1, <3>1
    <3> QED  BY <3>2 DEF ProbeDeclaration
  <2>4. Stacked(stack, slot', Named, DOMAIN probes) /\ Kept
    <3>1. CASE slot = NoSlot  BY <1>0, <2>1, <3>1 DEF Kept
    <3>2. CASE slot # NoSlot
      <4>1. SameOwner(slot, CaptureProbe(slot, slot.recipe, file.hidden[k].requires))
        BY <1>0, <1>2, <2>3, <3>2, CaptureProbeIs
      <4>2. SameOwner(slot, slot')  BY <1>2, <2>1, <3>2, <4>1
      <4> QED  BY <1>4, <3>2, <4>2 DEF Kept
    <3> QED  BY <3>1, <3>2
  <2>5. Named \subseteq Named' /\ DOMAIN probes \subseteq DOMAIN probes'
    <3>1. [Next]_vars  BY DEF Next
    <3> QED  BY <3>1, DataNext
  <2> QED  BY <1>1, <2>2, <2>4, <2>5, StackedMore
<1>10. CASE CallRecipe
  <2>1. Named \subseteq Named' /\ DOMAIN probes \subseteq DOMAIN probes'
    <3>1. [Next]_vars  BY DEF Next
    <3> QED  BY <3>1, DataNext
  <2>2. stack' = stack /\ slot' = slot  BY <1>10 DEF CallRecipe
  <2> QED  BY <1>0, <1>1, <2>1, <2>2, StackedMore DEF Kept
<1>11. CASE CallOnComplete
  BY <1>0, <1>1, <1>3, <1>11 DEF CallOnComplete, registry, Kept
<1>12. CASE CallStepGroup
  <2>1. PICK ns \in {{}} \cup {{n} : n \in Name} :
          stack' = IF ns = {} THEN <<[Top EXCEPT !.open = @ + 1]>> \o Below
                   ELSE <<[Top EXCEPT !.owed = ns]>> \o Below
    BY <1>12 DEF CallStepGroup
  <2>2. slot # NoSlot /\ slot' = OpenGroup(slot) /\ UNCHANGED <<recipes, probes>>
    BY <1>12 DEF CallStepGroup, registry
  <2>3. FrameOK(Top, Named, DOMAIN probes)  BY <1>0, <1>1, TopIs
  <2> DEFINE g == [Top EXCEPT !.open = Top.open + 1]
             h == [Top EXCEPT !.owed = ns]
             m == Top.open + 1
  <2>4. m \in Nat /\ ns \subseteq Name  BY <2>3 DEF FrameOK
  <2>5. FrameOK(g, Named, DOMAIN probes) /\ Like(g, Top)
    <3> HIDE DEF m
    <3>1. FrameOK([Top EXCEPT !.open = m], Named, DOMAIN probes) /\ Like([Top EXCEPT !.open = m], Top)
      BY <2>3, <2>4, OpenFrame
    <3> QED  BY <3>1 DEF m
  <2>6. FrameOK(h, Named, DOMAIN probes) /\ Like(h, Top)  BY <2>3, <2>4, OwedFrame
  <2>7. stack' = IF ns = {} THEN <<g>> \o Below ELSE <<h>> \o Below  BY <2>1
  <2> HIDE DEF g, h, m
  <2>8. SameOwner(slot, OpenGroup(slot))  BY <1>0, <1>2, <2>2, OpenGroupIs
  <2>9. Stacked(stack, slot', Named, DOMAIN probes)  BY <1>4, <2>2, <2>8
  <2>10. \A f : FrameOK(f, Named, DOMAIN probes) /\ Like(f, Top)
                  => Stacked(<<f>> \o Below, slot', Named, DOMAIN probes)
    BY <1>1, <2>9, StackedSwap DEF Top, Below
  <2>11. Stacked(stack', slot', Named, DOMAIN probes)  BY <2>5, <2>6, <2>7, <2>10
  <2> QED  BY <1>1, <1>3, <2>2, <2>8, <2>11 DEF Kept
<1>13. CASE CallRead
  <2>1. PICK k \in DOMAIN probes : Resolve(k, Waits("read", k))  BY <1>13 DEF CallRead
  <2>2. k \in Key  BY <1>0, <2>1 DEF TypeInv, InData
  <2>3. <<"read", k>> \in Waiting  BY <2>2 DEF Waiting
  <2>4. Stacked(Waits("read", k), slot, Named, DOMAIN probes)  BY <1>0, <1>1, <2>3, SwapWait
  <2>5. slot' = slot /\ UNCHANGED <<recipes, probes>>  BY <1>13 DEF CallRead, registry
  <2> HIDE DEF Waits
  <2>6. Stacked(stack', slot, Named, DOMAIN probes)  BY <1>0, <2>1, <2>2, <2>4, ResolveStacked
  <2> QED  BY <1>1, <1>3, <2>5, <2>6 DEF Kept
<1>14. CASE LuaRaises
  BY <1>0, <1>1, <1>3, <1>14 DEF LuaRaises, registry, Kept
<1>15. ASSUME NEW api \in {"require", "import", "order"}, NEW n \in Name, slot # NoSlot, Forces(api, n)
       PROVE  Stacked(stack', slot', Named', DOMAIN probes') /\ phase' = phase /\ stack # <<>> /\ Kept
  <2>1. Stacked(stack', slot, Named, DOMAIN probes)  BY <1>0, <1>1, <1>15, ForcesStacked
  <2>2. slot' = slot /\ UNCHANGED <<recipes, probes>>  BY <1>15 DEF Forces, registry
  <2> QED  BY <1>1, <1>3, <2>1, <2>2 DEF Kept
<1>16. CASE CallRequire  BY <1>15, <1>16 DEF CallRequire
<1>17. CASE CallImport  BY <1>15, <1>17 DEF CallImport
<1>18. CASE CallDepOrder  BY <1>15, <1>18 DEF CallDepOrder
<1> QED
  BY <1>5, <1>6, <1>7, <1>8, <1>9, <1>10, <1>11, <1>12, <1>13, <1>14, <1>16, <1>17, <1>18 DEF LuaCall
----------------------------------------------------------------------------
(* Then a call that came back or raised, and the forces of a step group; *)
LEMMA StackBack ==
  ASSUME TypeInv, LuaStep
  PROVE  Stacked(stack', slot', Named', DOMAIN probes') /\ phase' = phase /\ stack # <<>>
<1>0. TypeInv /\ Stacked(stack, slot, Named, DOMAIN probes) /\ Owned(slot)
  BY DEF TypeInv, InStack, Stacked
<1>1. phase' = phase /\ stack # <<>> /\ UNCHANGED <<recipes, probes>>
  BY DEF LuaStep, GroupForces, CallReturns, CallRaises, GroupEnds, Ready, Raised, At, registry
<1>2. Named' = Named /\ DOMAIN probes' = DOMAIN probes  BY <1>1, NamedSame
<1>3. /\ FrameOK(Top, Named, DOMAIN probes)
      /\ Lua(Top) => Holds(slot, Top)
      /\ slot # NoSlot => slot \in SlotRecord
  BY <1>0, <1>1, TopIs
<1>4. ASSUME slot # NoSlot, NEW t \in SlotRecord, Owned(t), t.recipe = slot.recipe,
             NEW g, FrameOK(g, Named, DOMAIN probes), Like(g, Top)
      PROVE  Stacked(<<g>> \o Below, t, Named, DOMAIN probes)
  <2>1. Stacked(stack, t, Named, DOMAIN probes)  BY <1>0, <1>4, SlotStacked
  <2> QED  BY <1>1, <1>4, <2>1, StackedSwap DEF Top, Below
<1>5. CASE GroupForces
  <2>1. PICK n \in Top.owed :
          IF Declared(n) THEN Enter(n, TRUE, Waits("group", n)) ELSE stack' = Waits("group", n)
    BY <1>5 DEF GroupForces
  <2>2. Top.at = "body" /\ slot' = slot  BY <1>5 DEF GroupForces, At
  <2>3. n \in Name  BY <1>3, <2>1 DEF FrameOK
  <2>4. <<"group", n>> \in Waiting  BY <2>3 DEF Waiting
  <2>5. Stacked(Waits("group", n), slot, Named, DOMAIN probes)  BY <1>0, <1>1, <2>2, <2>4, SwapWait
  <2> HIDE DEF Waits
  <2>6. Declared(n) => n \in Named  BY NamedIs
  <2>7. Stacked(stack', slot, Named, DOMAIN probes)  BY <1>0, <2>1, <2>5, <2>6, EnterStacked
  <2> QED  BY <1>1, <1>2, <2>2, <2>7
<1>6. CASE CallReturns
  <2> DEFINE api == Top.wait[1]
             n == Top.wait[2]
             owed == Top.owed \ {n}
             open == IF api = "group" /\ owed = {} THEN Top.open + 1 ELSE Top.open
             g == [Top EXCEPT !.wait = NoCall, !.owed = owed, !.open = open]
  <2>1. slot' = Effect(api, n) /\ stack' = <<g>> \o Below /\ Lua(Top) /\ Top.wait # NoCall
    BY <1>6 DEF CallReturns, Lua
  <2>2. owed \subseteq Name /\ open \in Nat  BY <1>3 DEF FrameOK
  <2>3. FrameOK(g, Named, DOMAIN probes) /\ Like(g, Top)
    <3> HIDE DEF owed, open
    <3> QED  BY <1>3, <2>2, BackFrame
  <2>4. CASE api \in {"require", "order", "group"}
    <3>1. Top.at = "body"  BY <1>3, <2>1, <2>4 DEF FrameOK
    <3>2. slot # NoSlot /\ slot \in SlotRecord  BY <1>3, <2>1, <3>1 DEF Holds
    <3>3. n \in Name  BY <1>3, <2>4 DEF FrameOK, Waiting
    <3>4. slot' \in SlotRecord /\ Owned(slot') /\ slot'.recipe = slot.recipe
      <4>1. slot' = Require(slot, n) \/ slot' = DepOrder(slot, n)  BY <2>1, <2>4 DEF Effect
      <4> QED  BY <1>0, <3>2, <3>3, <4>1, RequireIs, DepOrderIs DEF SameOwner
    <3> HIDE DEF g
    <3>5. Stacked(<<g>> \o Below, slot', Named, DOMAIN probes)  BY <1>4, <2>3, <3>2, <3>4
    <3> QED  BY <1>1, <1>2, <2>1, <3>5
  <2>5. CASE api \notin {"require", "order", "group"}
    <3>1. slot' = slot  BY <2>1, <2>5 DEF Effect
    <3> HIDE DEF g
    <3>2. Stacked(<<g>> \o Below, slot, Named, DOMAIN probes)  BY <1>0, <1>1, <2>3, SwapTop
    <3> QED  BY <1>1, <1>2, <2>1, <3>1, <3>2
  <2> QED  BY <2>4, <2>5
<1>7. CASE CallRaises
  <2> DEFINE h == [Top EXCEPT !.wait = NoCall, !.owed = {}]
  <2>1. slot' = slot /\ stack' = <<h>> \o Below  BY <1>7 DEF CallRaises
  <2>2. FrameOK(h, Named, DOMAIN probes) /\ Like(h, Top)
    <3>1. {} \subseteq Name /\ 0 \in Nat  OBVIOUS
    <3> QED  BY <1>3, <3>1, BackFrame
  <2> HIDE DEF h
  <2>3. Stacked(<<h>> \o Below, slot, Named, DOMAIN probes)  BY <1>0, <1>1, <2>2, SwapTop
  <2> QED  BY <1>1, <1>2, <2>1, <2>3
<1>8. CASE GroupEnds
  <2> DEFINE m == Top.open - 1
             g == [Top EXCEPT !.open = m]
  <2>1. slot' = CloseGroup(slot) /\ stack' = <<g>> \o Below /\ Top.at = "body" /\ Top.open > 0
    BY <1>8 DEF GroupEnds, At
  <2>2. m \in Nat  BY <1>3, <2>1 DEF FrameOK
  <2> HIDE DEF m
  <2>3. FrameOK(g, Named, DOMAIN probes) /\ Like(g, Top)  BY <1>3, <2>2, OpenFrame
  <2> HIDE DEF g
  <2>4. slot # NoSlot /\ slot \in SlotRecord
    <3>1. Lua(Top)  BY <2>1 DEF Lua, LuaFrames
    <3> QED  BY <1>3, <2>1, <3>1 DEF Holds
  <2>5. SameOwner(slot, slot')  BY <1>0, <2>1, <2>4, CloseGroupIs
  <2>6. Stacked(<<g>> \o Below, slot', Named, DOMAIN probes)  BY <1>4, <2>3, <2>4, <2>5 DEF SameOwner
  <2> QED  BY <1>1, <1>2, <2>1, <2>6
<1> QED  BY <1>5, <1>6, <1>7, <1>8 DEF LuaStep

(* then the driver and the probe resolver. *)
LEMMA StackDriver ==
  ASSUME TypeInv, DriverStep
  PROVE  Stacked(stack', slot', Named', DOMAIN probes') /\ phase' = phase /\ stack # <<>>
<1>0. TypeInv /\ Stacked(stack, slot, Named, DOMAIN probes) /\ Owned(slot)
  BY DEF TypeInv, InStack, Stacked
<1>1. phase' = phase /\ stack # <<>> /\ UNCHANGED <<recipes, probes>>
  BY DEF DriverStep, WalkDep, WalkFails, ForceReached, RefuseBody, SkipBody, CallBody, BodyReturns,
         BodyFails, NeedNext, NeedFails, NeedDone, ProduceEnds, WalkDone, InLua, Ready, Raised, At,
         registry
<1>2. Named' = Named /\ DOMAIN probes' = DOMAIN probes  BY <1>1, NamedSame
<1>3. /\ FrameOK(Top, Named, DOMAIN probes)
      /\ Lua(Top) => Holds(slot, Top)
  BY <1>0, <1>1, TopIs
<1>4. Stacked(Below, IF Lua(Top) THEN Top.saved ELSE slot, Named, DOMAIN probes)
  BY <1>0, <1>1, PopStacked
<1>5. ASSUME stack' = Below, slot' = IF Lua(Top) THEN Top.saved ELSE slot
      PROVE  Stacked(stack', slot', Named', DOMAIN probes')
  BY <1>2, <1>4, <1>5
<1>6. CASE WalkDep
  <2>1. PICK dep \in Top.todo :
          LET rest == <<[Top EXCEPT !.todo = @ \ {dep}]>> \o Below
          IN IF Declared(dep) THEN Enter(dep, Top.forced, rest) ELSE stack' = rest
    BY <1>6 DEF WalkDep
  <2> DEFINE rest == <<[Top EXCEPT !.todo = @ \ {dep}]>> \o Below
  <2>2. slot' = slot /\ Top.forced \in BOOLEAN  BY <1>3, <1>6 DEF WalkDep, FrameOK
  <2>3. Stacked(rest, slot, Named, DOMAIN probes)  BY <1>0, <1>1, SwapTodo
  <2>4. IF Declared(dep) THEN Enter(dep, Top.forced, rest) ELSE stack' = rest  BY <2>1
  <2> HIDE DEF rest
  <2>5. Declared(dep) => dep \in Named  BY NamedIs
  <2>6. Stacked(stack', slot, Named, DOMAIN probes)  BY <1>0, <2>2, <2>3, <2>4, <2>5, EnterStacked
  <2> QED  BY <1>1, <1>2, <2>2, <2>6
<1>7. CASE WalkFails \/ ForceReached \/ RefuseBody \/ SkipBody
  <2>1. stack' = Below /\ slot' = slot /\ Top.at = "walk"
    BY <1>7 DEF WalkFails, ForceReached, RefuseBody, SkipBody, WalkDone, Return, At
  <2>2. ~Lua(Top)  BY <2>1 DEF Lua, LuaFrames
  <2> QED  BY <1>1, <1>5, <2>1, <2>2
<1>8. CASE BodyReturns \/ BodyFails \/ ProduceEnds
  <2>1. stack' = Below /\ slot' = Top.saved /\ Top.at \in {"body", "produce"}
    BY <1>8 DEF BodyReturns, BodyFails, ProduceEnds, Return, At
  <2>2. Lua(Top)  BY <2>1 DEF Lua, LuaFrames
  <2> QED  BY <1>1, <1>5, <2>1, <2>2
<1>9. CASE NeedFails
  <2>1. stack' = Below /\ slot' = slot /\ Top.at = "need"  BY <1>9 DEF NeedFails, Return, At
  <2>2. ~Lua(Top)  BY <2>1 DEF Lua, LuaFrames
  <2> QED  BY <1>1, <1>5, <2>1, <2>2
<1>10. CASE NeedNext
  <2>1. PICK k \in Top.todo : Resolve(k, <<[Top EXCEPT !.todo = @ \ {k}]>> \o Below)
    BY <1>10 DEF NeedNext
  <2> DEFINE rest == <<[Top EXCEPT !.todo = @ \ {k}]>> \o Below
  <2>2. slot' = slot /\ k \in Key  BY <1>3, <1>10, <2>1 DEF NeedNext, FrameOK, At
  <2>3. Stacked(rest, slot, Named, DOMAIN probes)  BY <1>0, <1>1, SwapTodo
  <2>4. Resolve(k, rest)  BY <2>1
  <2> HIDE DEF rest
  <2>5. Stacked(stack', slot, Named, DOMAIN probes)  BY <1>0, <2>2, <2>3, <2>4, ResolveStacked
  <2> QED  BY <1>1, <1>2, <2>2, <2>5
<1>11. CASE CallBody
  <2> DEFINE g == BodyOf(Top.who, Top.forced, slot)
             t == NewSlot(Top.who, DeclOf(Top.who).chore)
  <2>1. stack' = <<g>> \o Below /\ slot' = t /\ Top.at = "walk"
    BY <1>11 DEF CallBody, SavedSlot, WalkDone, At, BodyOf
  <2>2. Top.who \in Named /\ Top.forced \in BOOLEAN  BY <1>3, <2>1 DEF FrameOK, OnPath
  <2>3. DeclOf(Top.who) \in Declaration /\ Top.who \in Name  BY <1>0, <2>2, DeclIs DEF TypeInv
  <2>4. slot \in SlotRecord \cup {NoSlot}  BY <1>0 DEF Stacked
  <2>5. FrameOK(g, Named, DOMAIN probes) /\ Lua(g) /\ g.saved = slot /\ g.at = "body" /\ g.who = Top.who
    <3>1. MayCall(Top.who, Top.forced, slot, Named)  BY <1>0, <2>2, <2>4 DEF MayCall
    <3> QED  BY <3>1, BodyFrame
  <2>6. t \in SlotRecord /\ Owned(t) /\ t.recipe = Top.who /\ t # NoSlot
    <3>1. DeclOf(Top.who).chore \in BOOLEAN  BY <2>3 DEF Declaration
    <3> QED  BY <2>3, <3>1, NewSlotIs
  <2>7. ~Lua(Top)  BY <2>1 DEF Lua, LuaFrames
  <2> HIDE DEF g, t
  <2>8. Holds(t, g)  BY <2>5, <2>6 DEF Holds
  <2>9. Stacked(<<g>> \o Below, t, Named, DOMAIN probes)
    BY <1>0, <1>1, <2>5, <2>6, <2>7, <2>8, StackedCall DEF Top, Below
  <2> QED  BY <1>1, <1>2, <2>1, <2>9
<1>12. CASE NeedDone
  <2> DEFINE g == [Frame("produce", Top.who, FALSE, FALSE, {}) EXCEPT !.saved = slot]
  <2>1. stack' = <<g>> \o Below /\ slot' = NoSlot /\ Top.at = "need"  BY <1>12 DEF NeedDone, At
  <2>2. Top.who \in DOMAIN probes  BY <1>3, <2>1 DEF FrameOK
  <2>3. slot \in SlotRecord \cup {NoSlot}  BY <1>0 DEF Stacked
  <2>4. FrameOK(g, Named, DOMAIN probes) /\ Lua(g) /\ g.saved = slot /\ g.at = "produce"
    BY <1>0, <2>2, <2>3, ProduceFrame
  <2>5. ~Lua(Top)  BY <2>1 DEF Lua, LuaFrames
  <2> HIDE DEF g
  <2>6. Holds(NoSlot, g) /\ Owned(NoSlot)  BY <2>4 DEF Holds, Owned
  <2>7. Stacked(<<g>> \o Below, NoSlot, Named, DOMAIN probes)
    BY <1>0, <1>1, <2>4, <2>5, <2>6, StackedCall DEF Top, Below
  <2> QED  BY <1>1, <1>2, <2>1, <2>7
<1> QED  BY <1>6, <1>7, <1>8, <1>9, <1>10, <1>11, <1>12 DEF DriverStep
----------------------------------------------------------------------------
(* The steps of the pass itself: most of them need an empty stack. *)
LEMMA StackPass ==
  ASSUME TypeInv, PassStep
  PROVE  /\ Stacked(stack', slot', Named', DOMAIN probes')
         /\ phase' \in {"load", "close", "done", "failed"} => stack' = <<>>
<1>0. TypeInv /\ Stacked(stack, slot, Named, DOMAIN probes) /\ Owned(slot)
  BY DEF TypeInv, InStack, Stacked
<1>1. UNCHANGED <<recipes, probes>>
  BY DEF PassStep, Load, LoadFails, Stops, Prepass, PrepassDone, PassFails, Seed, SeedsDone, Close,
         CloseFails, CallFinalizer, FinalizerEnds, Finish, FinishFails, registry
<1>2. Named' = Named /\ DOMAIN probes' = DOMAIN probes  BY <1>1, NamedSame
<1>3. phase \in {"load", "close"} => stack = <<>>  BY <1>0 DEF TypeInv, InStack
<1>4. stack = <<>> => slot = NoSlot  BY <1>0, StackedNone
<1>5. CASE Load \/ PrepassDone \/ SeedsDone \/ Close \/ Finish
  <2>1. stack = <<>> /\ stack' = stack /\ slot' = slot
    BY <1>3, <1>5 DEF Load, PrepassDone, SeedsDone, Close, Finish, Idle, driver
  <2> QED  BY <1>0, <1>2, <2>1
<1>6. CASE LoadFails \/ PassFails \/ CloseFails \/ FinishFails
  <2>1. stack = <<>> /\ stack' = stack /\ slot' = slot
    BY <1>3, <1>6 DEF LoadFails, PassFails, CloseFails, FinishFails, Idle, Stops, Fails
  <2> QED  BY <1>0, <1>2, <2>1
<1>7. CASE Prepass
  <2>1. PICK k \in Drivers \ store : Resolve(k, <<>>)  BY <1>7 DEF Prepass
  <2>2. k \in Key  BY <1>0, <1>7, <2>1 DEF Prepass, TypeInv, InData
  <2>3. Stacked(<<>>, slot, Named, DOMAIN probes)  BY <1>0, <1>7 DEF Prepass, Idle
  <2>4. Stacked(stack', slot, Named, DOMAIN probes)  BY <1>0, <2>1, <2>2, <2>3, ResolveStacked
  <2>5. slot' = slot /\ phase' = "prepass"  BY <1>7 DEF Prepass
  <2> QED  BY <1>2, <2>4, <2>5
<1>8. CASE Seed
  <2>1. PICK n \in Sorted : Enter(n, FALSE, <<>>)  BY <1>8 DEF Seed
  <2>2. n \in Named  BY <1>0, <2>1, SortedNamed DEF TypeInv
  <2>3. Stacked(<<>>, slot, Named, DOMAIN probes)  BY <1>0, <1>8 DEF Seed, Idle
  <2>4. Stacked(stack', slot, Named, DOMAIN probes)  BY <1>0, <2>1, <2>2, <2>3, EnterStacked
  <2>5. slot' = slot /\ phase' = "bodies"  BY <1>8 DEF Seed
  <2> QED  BY <1>2, <2>4, <2>5
<1>9. CASE CallFinalizer
  <2> DEFINE f == Frame("callback", Sizes, FALSE, FALSE, {})
  <2>1. stack = <<>> /\ stack' = <<f>> /\ slot' = slot /\ phase' = "drain"
    BY <1>9 DEF CallFinalizer, Idle
  <2>2. FrameOK(f, Named, DOMAIN probes) /\ Lua(f) /\ f.at = "callback" /\ f.saved = NoSlot
    BY CallbackFrame
  <2> HIDE DEF f
  <2>3. IsSeq(<<>>) /\ <<f>> \o <<>> = <<f>>
    <3>1. IsSeq(<<>>)  BY EmptySeq DEF IsSeq
    <3> QED  BY <3>1
  <2>4. Cons(<<f>>, f, <<>>)
    <3>1. Cons(<<f>> \o <<>>, f, <<>>)  BY <2>3, ConsSeq
    <3> QED  BY <2>3, <3>1
  <2>5. Holds(NoSlot, f) /\ Slots(NoSlot, <<>>)  BY <2>2, SlotsNil DEF Holds
  <2>6. Stacked(<<f>>, NoSlot, Named, DOMAIN probes)
    <3>1. DOMAIN <<>> = {} /\ Owned(NoSlot)  BY DEF Owned
    <3> QED  BY <2>2, <2>3, <2>4, <2>5, <3>1, StackedCons
  <2> QED  BY <1>2, <1>4, <2>1, <2>6
<1>10. CASE FinalizerEnds
  <2>1. /\ stack # <<>> /\ Top.at = "callback" /\ stack' = Below /\ slot' = slot /\ phase' = phase
    BY <1>10 DEF FinalizerEnds, At, Return
  <2>2. Lua(Top)  BY <2>1 DEF Lua, LuaFrames
  <2>3. Top.saved = NoSlot /\ slot = NoSlot
    BY <1>0, <2>1, <2>2, TopIs DEF FrameOK, Holds
  <2>4. Stacked(Below, NoSlot, Named, DOMAIN probes)  BY <1>0, <2>1, <2>2, <2>3, PopStacked
  <2>5. phase' \notin {"load", "close", "done", "failed"}
    BY <1>0, <2>1 DEF TypeInv, InStack
  <2> QED  BY <1>2, <2>1, <2>3, <2>4, <2>5
<1> QED
  BY <1>5, <1>6, <1>7, <1>8, <1>9, <1>10 DEF PassStep

(* So every step leaves the stack in order, *)
LEMMA StackNext == ASSUME TypeInv, [Next]_vars PROVE InStack'
<1>1. ASSUME Stacked(stack', slot', Named', DOMAIN probes'), phase' = phase, stack # <<>> PROVE InStack'
  BY <1>1 DEF TypeInv, InStack
<1>2. CASE LuaCall  BY <1>1, <1>2, StackLua
<1>3. CASE LuaStep  BY <1>1, <1>3, StackBack
<1>4. CASE DriverStep  BY <1>1, <1>4, StackDriver
<1>5. CASE PassStep  BY <1>5, StackPass DEF InStack
<1>6. CASE UNCHANGED vars
  <2>1. UNCHANGED <<stack, slot, recipes, probes, phase>>  BY <1>6 DEF vars, driver, registry
  <2>2. Named' = Named  BY <2>1, NamedSame
  <2> QED  BY <2>1, <2>2 DEF TypeInv, InStack
<1> QED  BY <1>2, <1>3, <1>4, <1>5, <1>6 DEF Next

----------------------------------------------------------------------------

(* reachable_from answers with names, *)
LEMMA ReachIs == ASSUME TypeInv PROVE Reachable \subseteq Name
<1>1. IsFiniteSet(DOMAIN StaticEdges)  BY NamedFinite DEF Named, TypeInv
<1> DEFINE from == file.seeds \cup (IF HasTarget THEN {file.target} ELSE {})
<1>2. Reachable = ReachFrom(StaticEdges, from)  BY DEF Reachable
<1> HIDE DEF from
<1>3. ReachFrom(StaticEdges, from) \subseteq DOMAIN StaticEdges  BY <1>1, ReachClosed
<1>4. DOMAIN StaticEdges \subseteq Name  BY NamedNames DEF Named, TypeInv
<1> QED  BY <1>2, <1>3, <1>4

(* a count goes up by one, *)
LEMMA Counted ==
  ASSUME NEW S, NEW g \in [S -> Nat], NEW x PROVE [g EXCEPT ![x] = @ + 1] \in [S -> Nat]
<1>1. \A y \in S : g[y] + 1 \in Nat /\ g[y] \in Nat  OBVIOUS
<1> DEFINE h == [g EXCEPT ![x] = @ + 1]
<1>2. DOMAIN h = S /\ h = [y \in DOMAIN h |-> h[y]]  OBVIOUS
<1>3. \A y \in S : h[y] \in Nat  BY <1>1
<1> HIDE DEF h
<1>4. h \in [S -> Nat]  BY <1>2, <1>3
<1> QED  BY <1>4 DEF h

(* and every step leaves the marks, the counts and the sets in order. *)
LEMMA MarksNext == ASSUME TypeInv, [Next]_vars PROVE InMarks'
<1>0. TypeInv /\ InMarks /\ DOMAIN probes \subseteq DOMAIN probes'
  BY DataNext DEF TypeInv
<1>1. store \subseteq DOMAIN probes => store \subseteq DOMAIN probes'  BY <1>0
<1>2. Below = Tail(stack)  BY DEF Below
<1>3. SubSeq(path, 1, Len(path) - 1) \in Seq(Name)  BY PoppedPath DEF TypeInv, InMarks
<1>4. CASE LuaCall
  <2>1. CASE CallExec \/ CallAddUnit \/ CallDepOutput \/ CallProbe \/ CallRecipe \/ CallStepGroup
             \/ LuaRaises
    <3>1. /\ UNCHANGED <<phase, visit, path, names, reach, seeded, exports, store, cursor, queued, runs, produced>>
          /\ calls < MaxCalls /\ calls' = calls + 1 /\ ret' \in {"none", "err"}
      BY <2>1 DEF CallExec, CallAddUnit, CallDepOutput, CallProbe, CallRecipe, CallStepGroup,
          LuaRaises, Writes, Calls, results, resolver, finalizers, history
    <3> QED  BY <1>0, <3>1, MaxCallsAssumption DEF InMarks
  <2>2. CASE CallExport
    <3>1. /\ UNCHANGED <<phase, visit, path, names, reach, seeded, store, cursor, queued, runs, produced>>
          /\ calls < MaxCalls /\ calls' = calls + 1 /\ ret' = "none"
          /\ InLua /\ slot # NoSlot /\ exports' = exports \cup {Author}
      BY <2>2 DEF CallExport, Writes, Calls, results, resolver, finalizers, history
    <3>2. Author \in Name  BY <1>0, <3>1, AtLua
    <3> QED  BY <1>0, <3>1, <3>2, MaxCallsAssumption DEF InMarks
  <2>3. CASE CallOnComplete
    <3>1. /\ UNCHANGED <<phase, visit, path, names, reach, seeded, exports, store, cursor, runs, produced>>
          /\ calls < MaxCalls /\ calls' = calls + 1 /\ ret' = "none" /\ queued' = queued + 1
      BY <2>3 DEF CallOnComplete, Calls, results, resolver, history
    <3> QED  BY <1>0, <3>1, MaxCallsAssumption DEF InMarks
  <2>4. CASE CallRead
    <3>1. /\ UNCHANGED <<phase, visit, path, names, reach, seeded, exports, store, cursor, queued, runs, produced>>
          /\ calls < MaxCalls /\ calls' = calls + 1
      BY <2>4 DEF CallRead, Calls, results, resolver, finalizers, history
    <3>2. ret' \in {"none", "ok", "err"}  BY <2>4 DEF CallRead, Resolve
    <3> QED  BY <1>0, <3>1, <3>2, MaxCallsAssumption DEF InMarks
  <2>5. ASSUME NEW api, NEW n, Forces(api, n), Calls(api) PROVE InMarks'
    <3>1. /\ UNCHANGED <<phase, names, reach, seeded, exports, store, cursor, queued, runs, produced>>
          /\ calls < MaxCalls /\ calls' = calls + 1
      BY <2>5 DEF Forces, Calls, results, resolver, finalizers
    <3>2. n \in Named /\ Enter(n, TRUE, Waits(api, n))  BY <2>5, NamedIs DEF Forces
    <3> HIDE DEF Waits
    <3>3. /\ visit' \in [Name -> {"new", "visiting", "ran", "forced", "skipped", "failed"}]
          /\ path' \in Seq(Name) /\ ret' \in {"none", "ok", "err"}
      BY <1>0, <3>2, EnterMarks
    <3> QED  BY <1>0, <3>1, <3>3, MaxCallsAssumption DEF InMarks
  <2>6. CASE CallRequire \/ CallImport \/ CallDepOrder
    BY <2>5, <2>6 DEF CallRequire, CallImport, CallDepOrder
  <2> QED  BY <1>4, <2>1, <2>2, <2>3, <2>4, <2>6 DEF LuaCall
<1>5. CASE GroupForces
  <2>1. /\ UNCHANGED <<phase, names, reach, seeded, exports, store, cursor, queued, runs, produced, calls>>
    BY <1>5 DEF GroupForces, results, resolver, finalizers
  <2>2. PICK n \in Top.owed :
          IF Declared(n) THEN Enter(n, TRUE, Waits("group", n))
          ELSE ret' = "err" /\ UNCHANGED <<visit, path, cycle>>
    BY <1>5 DEF GroupForces
  <2> HIDE DEF Waits
  <2>3. /\ visit' \in [Name -> {"new", "visiting", "ran", "forced", "skipped", "failed"}]
        /\ path' \in Seq(Name) /\ ret' \in {"none", "ok", "err"}
    <3>1. CASE Declared(n)  BY <1>0, <2>2, <3>1, NamedIs, EnterMarks
    <3>2. CASE ~Declared(n)  BY <1>0, <2>2, <3>2 DEF InMarks
    <3> QED  BY <3>1, <3>2
  <2> QED  BY <1>0, <2>1, <2>3 DEF InMarks
<1>6. CASE CallReturns \/ CallRaises \/ GroupEnds
  <2>1. /\ UNCHANGED <<phase, visit, path, names, reach, seeded, exports, store, cursor, queued, runs,
                       produced, calls>>
        /\ ret' \in {"none", "err"}
    BY <1>6 DEF CallReturns, CallRaises, GroupEnds, results, resolver, finalizers, history
  <2> QED  BY <1>0, <2>1 DEF InMarks
<1>7. CASE LuaStep  BY <1>5, <1>6, <1>7 DEF LuaStep
<1>8. CASE WalkDep
  <2>1. UNCHANGED <<phase, names, reach, seeded, exports, store, cursor, queued, runs, produced, calls>>
    BY <1>8 DEF WalkDep, results, resolver, finalizers
  <2>2. PICK dep \in Top.todo :
          IF Declared(dep) THEN Enter(dep, Top.forced, <<[Top EXCEPT !.todo = @ \ {dep}]>> \o Below)
          ELSE ret' = "none" /\ UNCHANGED <<visit, path, cycle>>
    BY <1>8 DEF WalkDep
  <2>3. /\ visit' \in [Name -> {"new", "visiting", "ran", "forced", "skipped", "failed"}]
        /\ path' \in Seq(Name) /\ ret' \in {"none", "ok", "err"}
    <3>1. CASE Declared(dep)  BY <1>0, <2>2, <3>1, NamedIs, EnterMarks
    <3>2. CASE ~Declared(dep)  BY <1>0, <2>2, <3>2 DEF InMarks
    <3> QED  BY <3>1, <3>2
  <2> QED  BY <1>0, <2>1, <2>3 DEF InMarks
<1>9. ASSUME stack # <<>>, Top.at \in {"walk", "body"} PROVE Top.who \in Name /\ Top.who \in Named
  BY <1>0, <1>9, TopIs, NamedNames DEF FrameOK, OnPath, TypeInv
<1>10. CASE WalkFails \/ ForceReached \/ RefuseBody \/ BodyFails
  <2>1. /\ UNCHANGED <<phase, names, reach, seeded, exports, store, cursor, queued, runs, produced, calls>>
        /\ visit' = visit \/ \E x \in {"failed", "forced"} : visit' = [visit EXCEPT ![Top.who] = x]
        /\ path' = SubSeq(path, 1, Len(path) - 1) /\ ret' \in {"ok", "err"}
    BY <1>10 DEF WalkFails, ForceReached, RefuseBody, BodyFails, PopPath, Return, results, resolver,
        finalizers, history
  <2>2. visit' \in [Name -> {"new", "visiting", "ran", "forced", "skipped", "failed"}]
    BY <1>0, <2>1 DEF InMarks
  <2> QED  BY <1>0, <1>3, <2>1, <2>2 DEF InMarks
<1>11. CASE SkipBody \/ BodyReturns
  <2>1. /\ UNCHANGED <<phase, reach, seeded, exports, store, cursor, queued, runs, produced, calls>>
        /\ \E x \in {"skipped", "forced", "ran"} : visit' = [visit EXCEPT ![Top.who] = x]
        /\ path' = SubSeq(path, 1, Len(path) - 1) /\ ret' = "ok"
        /\ names' = names \/ names' = Append(names, Top.who)
        /\ stack # <<>> /\ Top.at \in {"walk", "body"}
    BY <1>11 DEF SkipBody, BodyReturns, WalkDone, Register, PopPath, Return, resolver, finalizers,
        history, At
  <2>2. visit' \in [Name -> {"new", "visiting", "ran", "forced", "skipped", "failed"}]
    BY <1>0, <2>1 DEF InMarks
  <2>3. names' \in Seq(Name)
    <3>1. names \in Seq(Name) /\ Top.who \in Name  BY <1>0, <1>9, <2>1 DEF InMarks
    <3>2. Append(names, Top.who) \in Seq(Name)  BY <3>1, AppendProperties
    <3> QED  BY <2>1, <3>1, <3>2
  <2> QED  BY <1>0, <1>3, <2>1, <2>2, <2>3 DEF InMarks
<1>12. CASE CallBody
  <2>1. /\ UNCHANGED <<phase, visit, path, names, reach, seeded, exports, store, cursor, queued, produced, calls>>
        /\ runs' = [runs EXCEPT ![Top.who] = @ + 1] /\ ret' = "none"
    BY <1>12 DEF CallBody, results, resolver, finalizers
  <2>2. runs' \in [Name -> Nat]
    <3>1. runs \in [Name -> Nat]  BY <1>0 DEF InMarks
    <3> QED  BY <2>1, <3>1, Counted
  <2> QED  BY <1>0, <2>1, <2>2 DEF InMarks
<1>13. CASE NeedNext
  <2>1. UNCHANGED <<phase, visit, path, names, reach, seeded, exports, store, cursor, queued, runs, produced, calls>>
    BY <1>13 DEF NeedNext, results, resolver, finalizers, history
  <2>2. ret' \in {"none", "ok", "err"}  BY <1>13 DEF NeedNext, Resolve
  <2> QED  BY <1>0, <2>1, <2>2 DEF InMarks
<1>14. CASE NeedFails
  <2>1. UNCHANGED <<phase, visit, path, names, reach, seeded, exports, store, cursor, queued, runs, produced, calls>>
        /\ ret' = "err"
    BY <1>14 DEF NeedFails, Return, results, resolver, finalizers, history
  <2> QED  BY <1>0, <2>1 DEF InMarks
<1>15. CASE NeedDone
  <2>1. /\ UNCHANGED <<phase, visit, path, names, reach, seeded, exports, store, cursor, queued, runs, calls>>
        /\ ret' = "none" /\ produced' = [produced EXCEPT ![Top.who] = @ + 1]
    BY <1>15 DEF NeedDone, results, finalizers, history
  <2>2. produced' \in [Key -> Nat]
    <3>1. produced \in [Key -> Nat]  BY <1>0 DEF InMarks
    <3> QED  BY <2>1, <3>1, Counted
  <2> QED  BY <1>0, <2>1, <2>2 DEF InMarks
<1>16. CASE ProduceEnds
  <2>1. /\ UNCHANGED <<phase, visit, path, names, reach, seeded, exports, cursor, queued, runs, produced, calls>>
        /\ ret' \in {"ok", "err"} /\ store' \subseteq store \cup {Top.who}
        /\ stack # <<>> /\ Top.at = "produce"
    BY <1>16 DEF ProduceEnds, Return, results, finalizers, history, At
  <2>2. Top.who \in DOMAIN probes  BY <1>0, <2>1, TopIs DEF FrameOK
  <2> QED  BY <1>0, <2>1, <2>2 DEF InMarks
<1>17. CASE DriverStep
  BY <1>8, <1>10, <1>11, <1>12, <1>13, <1>14, <1>15, <1>16, <1>17 DEF DriverStep
<1>18. CASE PassStep
  <2>1. CASE Load
    <3>1. /\ UNCHANGED <<visit, path, names, seeded, exports, store, cursor, queued, runs, produced, calls, ret>>
          /\ phase' = "prepass" /\ reach' = Reachable
      BY <2>1 DEF Load, driver, results, resolver, finalizers, history
    <3> QED  BY <1>0, <3>1, ReachIs DEF InMarks
  <2>2. CASE LoadFails \/ PassFails \/ CloseFails \/ FinishFails
    <3>1. /\ UNCHANGED <<visit, path, names, reach, seeded, exports, store, cursor, queued, runs, produced, calls>>
          /\ phase' = "failed" /\ ret' = "none"
      BY <2>2 DEF LoadFails, PassFails, CloseFails, FinishFails, Stops, Fails, results, resolver,
          finalizers, history
    <3> QED  BY <1>0, <3>1 DEF InMarks
  <2>3. CASE Prepass
    <3>1. UNCHANGED <<phase, visit, path, names, reach, seeded, exports, store, cursor, queued, runs, produced, calls>>
      BY <2>3 DEF Prepass, results, resolver, finalizers, history
    <3>2. ret' \in {"none", "ok", "err"}  BY <2>3 DEF Prepass, Resolve
    <3> QED  BY <1>0, <3>1, <3>2 DEF InMarks
  <2>4. CASE PrepassDone \/ SeedsDone \/ Close \/ Finish
    <3>1. /\ UNCHANGED <<visit, path, names, reach, seeded, exports, store, cursor, queued, runs, produced, calls>>
          /\ phase' \in {"bodies", "close", "drain", "done"} /\ ret' \in {ret, "none"}
      BY <2>4 DEF PrepassDone, SeedsDone, Close, Finish, driver, results, resolver, finalizers, history
    <3> QED  BY <1>0, <3>1 DEF InMarks
  <2>5. CASE Seed
    <3>1. PICK n \in Sorted \ seeded : seeded' = seeded \cup {n} /\ Enter(n, FALSE, <<>>)
      BY <2>5 DEF Seed
    <3>2. UNCHANGED <<phase, names, reach, exports, store, cursor, queued, runs, produced, calls>>
      BY <2>5 DEF Seed, results, resolver, finalizers
    <3>3. n \in Named /\ n \in Name  BY <1>0, <3>1, SortedNamed DEF TypeInv
    <3>4. /\ visit' \in [Name -> {"new", "visiting", "ran", "forced", "skipped", "failed"}]
          /\ path' \in Seq(Name) /\ ret' \in {"none", "ok", "err"}
      BY <1>0, <3>1, <3>3, EnterMarks
    <3> QED  BY <1>0, <3>1, <3>2, <3>3, <3>4 DEF InMarks
  <2>6. CASE CallFinalizer
    <3>1. /\ UNCHANGED <<phase, visit, path, names, reach, seeded, exports, store, queued, runs, produced, calls>>
          /\ cursor < queued /\ cursor' = cursor + 1 /\ ret' = "none"
      BY <2>6 DEF CallFinalizer, Advanced, results, resolver, history
    <3> QED  BY <1>0, <3>1 DEF InMarks
  <2>7. CASE FinalizerEnds
    <3>1. /\ UNCHANGED <<phase, visit, path, names, reach, seeded, exports, store, cursor, queued, runs, produced,
                         calls>>
          /\ ret' \in {"ok", "err"}
      BY <2>7 DEF FinalizerEnds, Return, results, resolver, finalizers, history
    <3> QED  BY <1>0, <3>1 DEF InMarks
  <2> QED  BY <1>18, <2>1, <2>2, <2>3, <2>4, <2>5, <2>6, <2>7 DEF PassStep
<1>19. CASE UNCHANGED vars
  BY <1>0, <1>19 DEF vars, InMarks, driver, results, resolver, finalizers, history, registry
<1> QED  BY <1>4, <1>7, <1>17, <1>18, <1>19 DEF Next
----------------------------------------------------------------------------
(* g is f with one more value. *)
More(g, f, x, y) ==
  DOMAIN g = DOMAIN f \cup {x} /\ g[x] = y /\ \A z \in DOMAIN f : z # x => g[z] = f[z]

(* A map with one entry more, or another. *)
LEMMA WithIs == ASSUME NEW f, NEW x, NEW y PROVE More(With(f, x, y), f, x, y)
  BY DEF With, More

(* A name registered has the entry it is registered with. *)
LEMMA RegisterIs ==
  ASSUME NEW n, NEW requires, NEW units, NEW ran, Register(n, requires, units, ran)
  PROVE  More(entry', entry, n, [requires |-> requires, units |-> units, ran |-> ran])
<1> DEFINE e == [requires |-> requires, units |-> units, ran |-> ran]
<1>1. entry' = With(entry, n, e)  BY DEF Register
<1> HIDE DEF e
<1> QED  BY <1>1, WithIs DEF e

(* The body that returns is the one whose slot is open. *)
LEMMA ReturnIs ==
  ASSUME TypeInv, BodyReturns
  PROVE  /\ Top.who \in Named /\ Top.who \in Name /\ slot \in SlotRecord /\ slot.recipe = Top.who
         /\ slot.requires \subseteq Name /\ slot.lastOuts \subseteq Path /\ slot.units \in Seq(UnitRecord)
         /\ \A i \in DOMAIN slot.units : slot.units[i].author = Top.who
<1>1. InLua /\ stack # <<>> /\ Top.at = "body"  BY DEF BodyReturns, At
<1>2. slot # NoSlot /\ slot.recipe = Top.who  BY <1>1, AtLua DEF Holds
<1>3. slot \in SlotRecord /\ Owned(slot) /\ FrameOK(Top, Named, DOMAIN probes)
  BY <1>1, <1>2, TopIs
<1>4. Top.who \in Named /\ Top.who \in Name
  BY <1>1, <1>3, NamedNames DEF FrameOK, OnPath, TypeInv
<1>5. slot.requires \subseteq Name /\ slot.lastOuts \subseteq Path /\ slot.units \in Seq(UnitRecord)
  BY <1>3 DEF SlotRecord
<1> QED  BY <1>2, <1>3, <1>4, <1>5 DEF Owned

(* Every step leaves the entries in order. *)
LEMMA EntriesNext == ASSUME TypeInv, [Next]_vars PROVE InEntries'
<1>0. TypeInv /\ InEntries  BY DEF TypeInv
<1>1. CASE UNCHANGED results  BY <1>0, <1>1 DEF InEntries, results
<1>2. CASE SkipBody
  <2> DEFINE n == Top.who
             e == [requires |-> DeclOf(n).requires, units |-> <<>>, ran |-> FALSE]
  <2>1. Register(n, DeclOf(n).requires, <<>>, FALSE) /\ terminal' = terminal
    BY <1>2 DEF SkipBody
  <2>2. stack # <<>> /\ Top.at = "walk"  BY <1>2 DEF SkipBody, WalkDone, At
  <2>3. n \in Named  BY <1>0, <2>2, TopIs DEF FrameOK, OnPath
  <2>4. n \in Name /\ DeclOf(n).requires \subseteq Name  BY <1>0, <2>3, DeclIs DEF TypeInv
  <2>5. EntryOK(e, n)
    <3>1. e.requires = DeclOf(n).requires /\ e.units = <<>> /\ e.ran \in BOOLEAN  OBVIOUS
    <3>2. <<>> \in Seq(UnitRecord) /\ DOMAIN <<>> = {}  OBVIOUS
    <3> HIDE DEF e
    <3> QED  BY <2>4, <3>1, <3>2 DEF EntryOK
  <2> HIDE DEF n
  <2>6. More(entry', entry, n, e)  BY <2>1, RegisterIs
  <2> HIDE DEF e
  <2> QED  BY <1>0, <2>1, <2>4, <2>5, <2>6 DEF InEntries, More
<1>3. CASE BodyReturns
  <2> DEFINE n == Top.who
             reqs == DeclOf(n).requires \cup slot.requires
             units == slot.units
             e == [requires |-> reqs, units |-> units, ran |-> TRUE]
  <2>1. Register(n, reqs, units, TRUE) /\ terminal' = With(terminal, n, slot.lastOuts)
    BY <1>3 DEF BodyReturns
  <2>2. /\ n \in Named /\ n \in Name /\ slot.requires \subseteq Name /\ slot.lastOuts \subseteq Path
        /\ units \in Seq(UnitRecord) /\ \A i \in DOMAIN units : units[i].author = n
    BY <1>0, <1>3, ReturnIs
  <2>3. reqs \subseteq Name  BY <1>0, <2>2, DeclIs DEF TypeInv
  <2> HIDE DEF n, reqs, units
  <2>4. EntryOK(e, n)  BY <2>2, <2>3 DEF EntryOK
  <2>5. More(entry', entry, n, e)  BY <2>1, RegisterIs
  <2>6. More(terminal', terminal, n, slot.lastOuts)  BY <2>1, WithIs
  <2> HIDE DEF e
  <2> QED  BY <1>0, <2>2, <2>4, <2>5, <2>6 DEF InEntries, More
<1>4. CASE LuaCall
  <2>1. UNCHANGED results
    BY <1>4
    DEF LuaCall, CallExec, CallAddUnit, CallExport, CallDepOutput, CallProbe, CallRecipe, CallOnComplete,
        CallStepGroup, CallRead, LuaRaises, CallRequire, CallImport, CallDepOrder, Forces, Writes
  <2> QED  BY <1>1, <2>1
<1>5. CASE LuaStep
  BY <1>1, <1>5 DEF LuaStep, GroupForces, CallReturns, CallRaises, GroupEnds
<1>6. CASE DriverStep
  BY <1>1, <1>2, <1>3, <1>6
  DEF DriverStep, WalkDep, WalkFails, ForceReached, RefuseBody, CallBody, BodyFails, NeedNext,
      NeedFails, NeedDone, ProduceEnds
<1>7. CASE PassStep
  BY <1>1, <1>7
  DEF PassStep, Load, LoadFails, Stops, Prepass, PrepassDone, PassFails, Seed, SeedsDone, Close,
      CloseFails, CallFinalizer, FinalizerEnds, Finish, FinishFails
<1>8. CASE UNCHANGED vars  BY <1>1, <1>8 DEF vars
<1> QED  BY <1>4, <1>5, <1>6, <1>7, <1>8 DEF Next

(* The invariant of types and owners holds at first, *)
LEMMA TypeInit == ASSUME Init PROVE TypeInv
<1>1. file \in CookfileRecord  BY CookfilesAssumption DEF Init
<1>2. file.recipes \in Seq(Declaration) /\ file.probes \in UNION {[K -> ProbeDeclaration] : K \in SUBSET Key}
  BY <1>1 DEF CookfileRecord
<1>3. InData
  <2>1. Len(file.recipes) \in Nat  BY <1>2, LenProperties
  <2> QED  BY <1>1, <1>2, <2>1 DEF Init, InData
<1>4. DOMAIN Empty = {}  BY DEF Empty
<1>5. <<>> \in Seq(Name)  OBVIOUS
<1>6. InMarks  BY <1>5, MaxCallsAssumption DEF Init, InMarks
<1>7. InEntries  BY <1>4 DEF Init, InEntries
<1>8. InStack  BY StackedNil DEF Init, InStack
<1> QED  BY <1>3, <1>6, <1>7, <1>8 DEF TypeInv

(* and every step keeps it. *)
LEMMA TypeNext == ASSUME TypeInv, [Next]_vars PROVE TypeInv'
  BY DataNext, MarksNext, EntriesNext, StackNext DEF TypeInv

(* So it holds always. *)
LEMMA TypeInvariance == Spec => []TypeInv
  BY TypeInit, TypeNext, PTL DEF Spec

(* It is stronger than TypeOK, *)
LEMMA TypeGives == ASSUME TypeInv PROVE TypeOK
<1>1. slot \in SlotRecord \cup {NoSlot} /\ \A i \in DOMAIN stack : stack[i].saved \in SlotRecord \cup {NoSlot}
  BY DEF TypeInv, InStack, Stacked, FrameOK
<1>2. reach \cup seeded \cup exports \subseteq Name  BY DEF TypeInv, InMarks
<1> QED  BY <1>1, <1>2 DEF TypeInv, InMarks, InEntries, TypeOK

(* and than CapturedByOwner. *)
LEMMA OwnerGives == ASSUME TypeInv PROVE CapturedByOwner
<1>1. StandsFrom(slot, stack, 1) /\ IsSeq(stack)  BY DEF TypeInv, InStack, Stacked, Slots
<1>2. ASSUME NEW i \in Innermost
      PROVE  IF stack[i].at = "body" THEN slot # NoSlot /\ slot.recipe = stack[i].who ELSE slot = NoSlot
  <2>1. /\ i \in DOMAIN stack /\ Lua(stack[i]) /\ \A j \in 1 .. i - 1 : ~Lua(stack[j])
    BY DEF Innermost, Lua
  <2>2. DOMAIN stack = 1 .. Len(stack)  BY <1>1, SeqHas
  <2>3. Holds(slot, stack[i])  BY <1>1, <2>1, <2>2 DEF StandsFrom
  <2> QED  BY <2>3 DEF Holds
<1>3. stack = <<>> => slot = NoSlot  BY StackedNone DEF TypeInv, InStack
<1>4. \A n \in DOMAIN entry : \A u \in UnitsOf(n) : u.author = n
  BY DEF TypeInv, InEntries, EntryOK, UnitsOf
<1> QED  BY <1>2, <1>3, <1>4 DEF CapturedByOwner

(* Whatever the Cookfile, and whatever its bodies call, force and catch,     *)
(* the pass keeps its state in order: marks, path, slots, entries and        *)
(* cursors.                                                                  *)
THEOREM RegisterTypeCorrect == Spec => []TypeOK
  BY TypeInvariance, TypeGives, PTL

(* However bodies nest, the open slot (body_slot) is that of the body whose  *)
(* Lua runs, none is open while a produce or a finalizer runs, and a recipe  *)
(* is handed only units its own body captured.                               *)
THEOREM CapturedByOwnerCorrect == Spec => []CapturedByOwner
  BY TypeInvariance, OwnerGives, PTL
----------------------------------------------------------------------------
(* What a step does to the stack and to the record of the visits, whatever   *)
(* action it is.  g is the innermost frame gone on, b the stack a call will  *)
(* come back to.                                                             *)
record == <<visit, path, cycle, runs, names, entry>>

GoesOn(g) == stack # <<>> /\ FrameOK(g, Named, DOMAIN probes) /\ Like(g, Top)

Rests ==
  /\ stack' = stack /\ UNCHANGED record
  /\ stack = <<>> \/ (Top.wait = NoCall /\ ret # "err" /\ Lua(Top)) \/ UNCHANGED ret

Goes ==
  /\ UNCHANGED record
  /\ \E g : /\ GoesOn(g) /\ stack' = <<g>> \o Below
            /\ g.todo = Top.todo \/ ~OnPath(Top) \/ \E d : d \notin Named /\ g.todo = Top.todo \ {d}
            /\ ~Lua(g) \/ g.wait = NoCall \/ g.wait[1] = "read" \/ ret' = "err"
            /\ Top.at = "walk" => ret # "err" /\ ret' # "err"

Reads ==
  /\ UNCHANGED record
  /\ \E f, b : /\ stack' = <<f>> \o b /\ f.at = "need" /\ f.wait = NoCall /\ f.saved = NoSlot
               /\ \/ stack = <<>> /\ b = <<>>
                  \/ \E g : /\ GoesOn(g) /\ b = <<g>> \o Below
                            /\ g.at = "need" \/ (Lua(g) /\ g.wait[1] = "read")
                            /\ g.todo = Top.todo \/ ~OnPath(Top)

Enters ==
  /\ UNCHANGED <<runs, names, entry>> /\ ret # "err"
  /\ \E n \in Named, forced \in BOOLEAN : \E b :
       /\ Enter(n, forced, b)
       /\ \/ stack = <<>> /\ b = <<>> /\ ~forced
          \/ \E g : /\ GoesOn(g) /\ b = <<g>> \o Below
                    /\ \/ /\ g.at = "walk" /\ n \in Top.todo /\ g.todo = Top.todo \ {n}
                          /\ forced = g.forced
                       \/ /\ g.at = "body" /\ g.wait # NoCall /\ g.wait[1] # "read"
                          /\ g.wait[2] = n /\ forced /\ g.todo = Top.todo

(* A probe's frame ends, or a finalizer. *)
Leaves == UNCHANGED record /\ stack # <<>> /\ stack' = Below /\ ~OnPath(Top)

(* The requires of a probe are there, and its produce runs. *)
Produces ==
  /\ UNCHANGED record /\ stack # <<>> /\ Top.at = "need"
  /\ \E f : stack' = <<f>> \o Below /\ f.at = "produce" /\ f.wait = NoCall /\ f.saved = slot

Finalizes ==
  /\ UNCHANGED record /\ stack = <<>>
  /\ \E f : stack' = <<f>> /\ f.at = "callback" /\ f.wait = NoCall /\ f.saved = NoSlot

Visiting ==
  \/ WalkFails \/ ForceReached \/ RefuseBody \/ SkipBody \/ CallBody \/ BodyReturns \/ BodyFails

Moves ==
  Rests \/ Goes \/ Reads \/ Enters \/ Leaves \/ Produces \/ Finalizes \/ Visiting

(* Where Lua runs there is a frame that waits in nothing. *)
LEMMA LuaRests ==
  ASSUME InLua PROVE stack # <<>> /\ Lua(Top) /\ Top.wait = NoCall /\ ret # "err"
  BY DEF InLua, Ready, Lua

(* A frame that comes to wait in a call goes on. *)
LEMMA WaitMoves ==
  ASSUME TypeInv, stack # <<>>, NEW w \in Waiting, w # NoCall /\ w[1] # "read" => Top.at = "body"
  PROVE  LET g == [Top EXCEPT !.wait = w] IN GoesOn(g) /\ g.wait = w /\ g.todo = Top.todo
<1>1. FrameOK(Top, Named, DOMAIN probes)  BY TopIs
<1> DEFINE g == [Top EXCEPT !.wait = w]
<1>2. FrameOK(g, Named, DOMAIN probes) /\ Like(g, Top) /\ g.wait = w /\ g.todo = Top.todo
  BY <1>1, WaitFrame
<1> QED  BY <1>2 DEF GoesOn

(* A call that forces a body enters it. *)
LEMMA ForcesMoves ==
  ASSUME TypeInv, InLua, slot # NoSlot, NEW api \in {"require", "import", "order"}, NEW n \in Name,
         Forces(api, n)
  PROVE  Enters
<1>1. n \in Named /\ Enter(n, TRUE, Waits(api, n)) /\ UNCHANGED <<runs, names, entry>>
  BY NamedIs DEF Forces, results
<1>2. stack # <<>> /\ Top.at = "body" /\ ret # "err"  BY AtLua, LuaRests
<1> DEFINE w == <<api, n>>
           g == [Top EXCEPT !.wait = w]
           b == <<g>> \o Below
<1>3. w \in Waiting /\ w[1] # "read" /\ w[2] = n /\ w # NoCall  BY DEF Waiting, NoCall
<1>4. Waits(api, n) = b  BY DEF Waits
<1> HIDE DEF w
<1>5. GoesOn(g) /\ g.wait = w /\ g.todo = Top.todo  BY <1>2, <1>3, WaitMoves
<1> HIDE DEF g
<1>6. g.at = "body"  BY <1>2, <1>5 DEF GoesOn, Like
<1>7. Enter(n, TRUE, b)  BY <1>1, <1>4
<1>8. \E x : /\ GoesOn(x) /\ b = <<x>> \o Below
             /\ x.at = "body" /\ x.wait # NoCall /\ x.wait[1] # "read" /\ x.wait[2] = n /\ x.todo = Top.todo
  BY <1>3, <1>5, <1>6
<1> HIDE DEF b
<1> QED  BY <1>1, <1>2, <1>7, <1>8 DEF Enters

(* A probe resolved is read, or was there already. *)
LEMMA ResolveMoves ==
  ASSUME TypeInv, NEW k, NEW b, Resolve(k, b), UNCHANGED record,
         \/ stack = <<>> /\ b = <<>>
         \/ \E g : /\ GoesOn(g) /\ b = <<g>> \o Below
                   /\ g.at = "need" \/ (Lua(g) /\ g.wait[1] = "read")
                   /\ g.todo = Top.todo \/ ~OnPath(Top)
  PROVE  Moves
<1>1. CASE stack' = b
  <2>1. CASE stack = <<>> /\ b = <<>>  BY <1>1, <2>1 DEF Moves, Rests
  <2>2. CASE \E g : /\ GoesOn(g) /\ b = <<g>> \o Below
                    /\ g.at = "need" \/ (Lua(g) /\ g.wait[1] = "read")
                    /\ g.todo = Top.todo \/ ~OnPath(Top)
    <3>1. PICK g : /\ GoesOn(g) /\ b = <<g>> \o Below
                   /\ g.at = "need" \/ (Lua(g) /\ g.wait[1] = "read")
                   /\ g.todo = Top.todo \/ ~OnPath(Top)
      BY <2>2
    <3>2. Top.at = g.at  BY <3>1 DEF GoesOn, Like
    <3>3. Top.at # "walk" /\ (~Lua(g) \/ g.wait[1] = "read")
      BY <3>1, <3>2 DEF Lua, LuaFrames
    <3> QED  BY <1>1, <3>1, <3>3 DEF Moves, Goes
  <2> QED  BY <2>1, <2>2
<1>2. CASE stack' # b
  <2> DEFINE f == Frame("need", k, FALSE, FALSE, probes[k].requires)
  <2>1. stack' = <<f>> \o b  BY <1>2 DEF Resolve
  <2>2. f.at = "need" /\ f.wait = NoCall /\ f.saved = NoSlot  BY DEF Frame, NoCall
  <2> HIDE DEF f
  <2> QED  BY <2>1, <2>2 DEF Moves, Reads
<1> QED  BY <1>1, <1>2

(* A call Lua makes is one of the moves, *)
LEMMA LuaMoves == ASSUME TypeInv, LuaCall PROVE Moves
<1>1. CASE CallExec \/ CallAddUnit \/ CallExport \/ CallDepOutput \/ CallProbe \/ CallRecipe
           \/ CallOnComplete \/ LuaRaises
  <2>1. InLua /\ stack' = stack /\ UNCHANGED record
    BY <1>1 DEF CallExec, CallAddUnit, CallExport, CallDepOutput, CallProbe, CallRecipe, CallOnComplete,
        LuaRaises, Writes, Calls, record, results, history
  <2> QED  BY <2>1, LuaRests DEF Moves, Rests
<1>2. CASE CallStepGroup
  <2>1. PICK ns \in SUBSET Name :
          stack' = IF ns = {} THEN <<[Top EXCEPT !.open = @ + 1]>> \o Below
                   ELSE <<[Top EXCEPT !.owed = ns]>> \o Below
    BY <1>2 DEF CallStepGroup
  <2>2. InLua /\ UNCHANGED record  BY <1>2 DEF CallStepGroup, Calls, record, results, history
  <2>3. FrameOK(Top, Named, DOMAIN probes) /\ stack # <<>> /\ Lua(Top) /\ Top.wait = NoCall
    BY <2>2, LuaRests, TopIs
  <2> DEFINE m == Top.open + 1
             g == [Top EXCEPT !.open = m]
             h == [Top EXCEPT !.owed = ns]
  <2>4. m \in Nat /\ ns \subseteq Name  BY <2>3 DEF FrameOK
  <2>5. stack' = <<g>> \o Below \/ stack' = <<h>> \o Below  BY <2>1
  <2> HIDE DEF m
  <2>6. FrameOK(g, Named, DOMAIN probes) /\ Like(g, Top) /\ g.todo = Top.todo /\ g.wait = Top.wait
    BY <2>3, <2>4, OpenFrame
  <2>7. FrameOK(h, Named, DOMAIN probes) /\ Like(h, Top) /\ h.todo = Top.todo /\ h.wait = Top.wait
    <3> HIDE DEF g
    <3>1. FrameOK(h, Named, DOMAIN probes) /\ Like(h, Top)  BY <2>3, <2>4, OwedFrame
    <3>2. h.todo = Top.todo /\ h.wait = Top.wait  BY <2>3 DEF FrameOK, FrameFields
    <3> QED  BY <3>1, <3>2
  <2> HIDE DEF g, h
  <2>8. Top.at # "walk"  BY <2>3 DEF Lua, LuaFrames
  <2> QED  BY <2>2, <2>3, <2>5, <2>6, <2>7, <2>8 DEF Moves, Goes, GoesOn
<1>3. CASE CallRead
  <2>1. PICK k \in DOMAIN probes : Resolve(k, Waits("read", k))  BY <1>3 DEF CallRead
  <2>2. InLua /\ UNCHANGED record  BY <1>3 DEF CallRead, Calls, record, results, history
  <2>3. k \in Key  BY <2>1 DEF TypeInv, InData
  <2> DEFINE w == <<"read", k>>
             g == [Top EXCEPT !.wait = w]
             b == <<g>> \o Below
  <2>4. w \in Waiting /\ w[1] = "read"  BY <2>3 DEF Waiting
  <2>5. stack # <<>> /\ Lua(Top)  BY <2>2, LuaRests
  <2>6. Waits("read", k) = b  BY DEF Waits
  <2> HIDE DEF w
  <2>7. GoesOn(g) /\ g.wait = w /\ g.todo = Top.todo  BY <2>4, <2>5, WaitMoves
  <2> HIDE DEF g
  <2>8. Lua(g)  BY <2>5, <2>7 DEF GoesOn, Like, Lua
  <2>9. Resolve(k, b)  BY <2>1, <2>6
  <2>10. \E x : /\ GoesOn(x) /\ b = <<x>> \o Below
                /\ x.at = "need" \/ (Lua(x) /\ x.wait[1] = "read")
                /\ x.todo = Top.todo \/ ~OnPath(Top)
    BY <2>4, <2>7, <2>8
  <2> HIDE DEF b
  <2> QED  BY <2>2, <2>9, <2>10, ResolveMoves
<1>4. ASSUME NEW api \in {"require", "import", "order"}, NEW n \in Name, slot # NoSlot, InLua, Forces(api, n)
      PROVE  Moves
  BY <1>4, ForcesMoves DEF Moves
<1>5. CASE CallRequire \/ CallImport \/ CallDepOrder
  BY <1>4, <1>5 DEF CallRequire, CallImport, CallDepOrder, Calls
<1> QED  BY <1>1, <1>2, <1>3, <1>5 DEF LuaCall
----------------------------------------------------------------------------
(* so is one that comes back, *)
LEMMA BackMoves == ASSUME TypeInv, LuaStep PROVE Moves
<1>1. stack # <<>>
  BY DEF LuaStep, GroupForces, CallReturns, CallRaises, GroupEnds, Ready, Raised, At
<1>2. FrameOK(Top, Named, DOMAIN probes)  BY <1>1, TopIs
<1>3. CASE GroupForces
  <2>1. PICK n \in Top.owed :
          IF Declared(n) THEN Enter(n, TRUE, Waits("group", n))
          ELSE /\ ret' = "err" /\ stack' = Waits("group", n) /\ UNCHANGED <<visit, path, cycle>>
    BY <1>3 DEF GroupForces
  <2>2. Top.at = "body" /\ ret # "err" /\ UNCHANGED <<runs, names, entry>>
    BY <1>3 DEF GroupForces, At, Ready, results
  <2>3. n \in Name  BY <1>2, <2>1 DEF FrameOK
  <2> DEFINE w == <<"group", n>>
             g == [Top EXCEPT !.wait = w]
             b == <<g>> \o Below
  <2>4. w \in Waiting /\ w[1] # "read" /\ w[2] = n /\ w # NoCall  BY <2>3 DEF Waiting, NoCall
  <2>5. Waits("group", n) = b  BY DEF Waits
  <2> HIDE DEF w
  <2>6. GoesOn(g) /\ g.wait = w /\ g.todo = Top.todo  BY <1>1, <2>2, <2>4, WaitMoves
  <2> HIDE DEF g
  <2>7. g.at = "body"  BY <2>2, <2>6 DEF GoesOn, Like
  <2>8. CASE Declared(n)
    <3>1. Enter(n, TRUE, b) /\ n \in Named  BY <2>1, <2>5, <2>8, NamedIs
    <3>2. \E x : /\ GoesOn(x) /\ b = <<x>> \o Below
                 /\ x.at = "body" /\ x.wait # NoCall /\ x.wait[1] # "read" /\ x.wait[2] = n /\ x.todo = Top.todo
      BY <2>4, <2>6, <2>7
    <3> HIDE DEF b
    <3> QED  BY <2>2, <3>1, <3>2 DEF Enters, Moves
  <2>9. CASE ~Declared(n)
    <3>1. stack' = <<g>> \o Below /\ ret' = "err" /\ UNCHANGED record
      BY <2>1, <2>2, <2>5, <2>9 DEF record
    <3>2. Goes  BY <2>2, <2>6, <3>1 DEF Goes
    <3> QED  BY <3>2 DEF Moves
  <2> QED  BY <2>8, <2>9
<1>4. CASE CallReturns
  <2> DEFINE owed == Top.owed \ {Top.wait[2]}
             open == IF Top.wait[1] = "group" /\ owed = {} THEN Top.open + 1 ELSE Top.open
             g == [Top EXCEPT !.wait = NoCall, !.owed = owed, !.open = open]
  <2>1. stack' = <<g>> \o Below /\ UNCHANGED record /\ Lua(Top)
    BY <1>4 DEF CallReturns, Lua, record, results, history
  <2>2. owed \subseteq Name /\ open \in Nat  BY <1>2 DEF FrameOK
  <2> HIDE DEF owed, open
  <2>3. FrameOK(g, Named, DOMAIN probes) /\ Like(g, Top) /\ g.todo = Top.todo /\ g.wait = NoCall
    <3>1. FrameOK(g, Named, DOMAIN probes) /\ Like(g, Top)  BY <1>2, <2>2, BackFrame
    <3>2. g.todo = Top.todo /\ g.wait = NoCall  BY <1>2 DEF FrameOK, FrameFields
    <3> QED  BY <3>1, <3>2
  <2> HIDE DEF g
  <2>4. Top.at # "walk"  BY <2>1 DEF Lua, LuaFrames
  <2>5. Goes  BY <1>1, <2>1, <2>3, <2>4 DEF Goes, GoesOn
  <2> QED  BY <2>5 DEF Moves
<1>5. CASE CallRaises
  <2> DEFINE h == [Top EXCEPT !.wait = NoCall, !.owed = {}]
  <2>1. stack' = <<h>> \o Below /\ UNCHANGED record /\ Lua(Top)
    BY <1>5 DEF CallRaises, Lua, record, results, history
  <2>2. FrameOK(h, Named, DOMAIN probes) /\ Like(h, Top) /\ h.todo = Top.todo /\ h.wait = NoCall
    <3>1. {} \subseteq Name /\ 0 \in Nat  OBVIOUS
    <3>2. FrameOK(h, Named, DOMAIN probes) /\ Like(h, Top)  BY <1>2, <3>1, BackFrame
    <3>3. h.todo = Top.todo /\ h.wait = NoCall  BY <1>2 DEF FrameOK, FrameFields
    <3> QED  BY <3>2, <3>3
  <2> HIDE DEF h
  <2>3. Top.at # "walk"  BY <2>1 DEF Lua, LuaFrames
  <2>4. Goes  BY <1>1, <2>1, <2>2, <2>3 DEF Goes, GoesOn
  <2> QED  BY <2>4 DEF Moves
<1>6. CASE GroupEnds
  <2> DEFINE m == Top.open - 1
             g == [Top EXCEPT !.open = m]
  <2>1. /\ stack' = <<g>> \o Below /\ UNCHANGED record /\ Top.at = "body" /\ Top.open > 0
        /\ Top.wait = NoCall
    BY <1>6 DEF GroupEnds, At, record, results, history
  <2>2. m \in Nat  BY <1>2, <2>1 DEF FrameOK
  <2> HIDE DEF m
  <2>3. FrameOK(g, Named, DOMAIN probes) /\ Like(g, Top) /\ g.todo = Top.todo /\ g.wait = Top.wait
    BY <1>2, <2>2, OpenFrame
  <2> HIDE DEF g
  <2>4. Goes  BY <1>1, <2>1, <2>3 DEF Goes, GoesOn
  <2> QED  BY <2>4 DEF Moves
<1> QED  BY <1>3, <1>4, <1>5, <1>6 DEF LuaStep

(* a require of the walk passed over, *)
LEMMA TodoMoves ==
  ASSUME TypeInv, stack # <<>>, NEW x
  PROVE  LET g == [Top EXCEPT !.todo = @ \ {x}] IN GoesOn(g) /\ g.todo = Top.todo \ {x}
<1>1. FrameOK(Top, Named, DOMAIN probes)  BY TopIs
<1> DEFINE g == [Top EXCEPT !.todo = @ \ {x}]
<1>2. FrameOK(g, Named, DOMAIN probes) /\ Like(g, Top) /\ g.todo = Top.todo \ {x}
  <2>1. FrameOK(g, Named, DOMAIN probes) /\ Like(g, Top)  BY <1>1, TodoFrame
  <2>2. g.todo = Top.todo \ {x}  BY <1>1 DEF FrameOK, FrameFields
  <2> QED  BY <2>1, <2>2
<1> QED  BY <1>2 DEF GoesOn

(* a step of the driver, *)
LEMMA DriverMoves == ASSUME TypeInv, DriverStep PROVE Moves
<1>1. CASE WalkDep
  <2>1. PICK dep \in Top.todo :
          LET rest == <<[Top EXCEPT !.todo = @ \ {dep}]>> \o Below
          IN IF Declared(dep) THEN Enter(dep, Top.forced, rest)
             ELSE stack' = rest /\ ret' = "none" /\ UNCHANGED <<visit, path, cycle>>
    BY <1>1 DEF WalkDep
  <2>2. stack # <<>> /\ Top.at = "walk" /\ ret # "err" /\ UNCHANGED <<runs, names, entry>>
    BY <1>1 DEF WalkDep, At, Ready, results
  <2> DEFINE g == [Top EXCEPT !.todo = @ \ {dep}]
             b == <<g>> \o Below
  <2>3. GoesOn(g) /\ g.todo = Top.todo \ {dep}  BY <2>2, TodoMoves
  <2>4. IF Declared(dep) THEN Enter(dep, Top.forced, b)
        ELSE stack' = b /\ ret' = "none" /\ UNCHANGED <<visit, path, cycle>>
    BY <2>1
  <2> HIDE DEF g
  <2>5. g.at = "walk" /\ Top.forced = g.forced /\ Top.forced \in BOOLEAN
    BY <2>2, <2>3, TopIs DEF GoesOn, Like, FrameOK
  <2>6. CASE Declared(dep)
    <3>1. Enter(dep, Top.forced, b) /\ dep \in Named  BY <2>4, <2>6, NamedIs
    <3>2. \E x : /\ GoesOn(x) /\ b = <<x>> \o Below /\ x.at = "walk" /\ x.todo = Top.todo \ {dep}
                 /\ Top.forced = x.forced
      BY <2>3, <2>5
    <3> HIDE DEF b
    <3>3. Enters  BY <2>1, <2>2, <2>5, <3>1, <3>2 DEF Enters
    <3> QED  BY <3>3 DEF Moves
  <2>7. CASE ~Declared(dep)
    <3>1. stack' = <<g>> \o Below /\ ret' = "none" /\ UNCHANGED record /\ dep \notin Named
      BY <2>2, <2>4, <2>7, NamedIs DEF record
    <3>2. ~Lua(g)  BY <2>5 DEF Lua, LuaFrames
    <3>3. Goes  BY <2>2, <2>3, <3>1, <3>2 DEF Goes
    <3> QED  BY <3>3 DEF Moves
  <2> QED  BY <2>6, <2>7
<1>2. CASE NeedNext
  <2>1. PICK k \in Top.todo : Resolve(k, <<[Top EXCEPT !.todo = @ \ {k}]>> \o Below)
    BY <1>2 DEF NeedNext
  <2>2. stack # <<>> /\ Top.at = "need" /\ UNCHANGED record
    BY <1>2 DEF NeedNext, At, record, results, history
  <2> DEFINE g == [Top EXCEPT !.todo = @ \ {k}]
             b == <<g>> \o Below
  <2>3. GoesOn(g)  BY <2>2, TodoMoves
  <2>4. Resolve(k, b)  BY <2>1
  <2> HIDE DEF g
  <2>5. g.at = "need"  BY <2>2, <2>3 DEF GoesOn, Like
  <2>6. ~OnPath(Top)  BY <2>2 DEF OnPath
  <2>7. \E x : GoesOn(x) /\ b = <<x>> \o Below /\ x.at = "need"  BY <2>3, <2>5
  <2> HIDE DEF b
  <2> QED  BY <2>2, <2>4, <2>6, <2>7, ResolveMoves
<1>3. CASE NeedFails \/ ProduceEnds
  <2>1. /\ UNCHANGED record /\ stack # <<>> /\ stack' = Below /\ Top.at \in {"need", "produce"}
    BY <1>3 DEF NeedFails, ProduceEnds, At, Return, record, results, history
  <2>2. ~OnPath(Top)  BY <2>1 DEF OnPath
  <2>3. Leaves  BY <2>1, <2>2 DEF Leaves
  <2> QED  BY <2>3 DEF Moves
<1>4. CASE NeedDone
  <2> DEFINE f == [Frame("produce", Top.who, FALSE, FALSE, {}) EXCEPT !.saved = slot]
  <2>1. UNCHANGED record /\ stack # <<>> /\ Top.at = "need" /\ stack' = <<f>> \o Below
    BY <1>4 DEF NeedDone, At, record, results, history
  <2>2. f.at = "produce" /\ f.wait = NoCall /\ f.saved = slot  BY DEF Frame, NoCall
  <2> HIDE DEF f
  <2>3. Produces  BY <2>1, <2>2 DEF Produces
  <2> QED  BY <2>3 DEF Moves
<1> QED  BY <1>1, <1>2, <1>3, <1>4 DEF DriverStep, Moves, Visiting

(* and a step of the pass. *)
LEMMA PassMoves == ASSUME TypeInv, PassStep PROVE Moves
<1>0. phase \in {"load", "close"} => stack = <<>>  BY DEF TypeInv, InStack
<1>1. CASE Load \/ LoadFails \/ PrepassDone \/ PassFails \/ SeedsDone \/ Close \/ CloseFails
           \/ Finish \/ FinishFails
  <2>1. stack = <<>> /\ stack' = stack /\ UNCHANGED record
    BY <1>0, <1>1
    DEF Load, LoadFails, PrepassDone, PassFails, SeedsDone, Close, CloseFails, Finish, FinishFails,
        Stops, Fails, Idle, record, driver, results, history
  <2>2. Rests  BY <2>1 DEF Rests
  <2> QED  BY <2>2 DEF Moves
<1>2. CASE Prepass
  <2>1. PICK k \in Drivers \ store : Resolve(k, <<>>)  BY <1>2 DEF Prepass
  <2>2. stack = <<>> /\ UNCHANGED record  BY <1>2 DEF Prepass, Idle, record, results, history
  <2> DEFINE b == <<>>
  <2>3. Resolve(k, b) /\ b = <<>>  BY <2>1
  <2> HIDE DEF b
  <2> QED  BY <2>2, <2>3, ResolveMoves
<1>3. CASE Seed
  <2>1. PICK n \in Sorted : Enter(n, FALSE, <<>>)  BY <1>3 DEF Seed
  <2>2. stack = <<>> /\ ret # "err" /\ UNCHANGED <<runs, names, entry>>
    BY <1>3 DEF Seed, Idle, results
  <2>3. n \in Named  BY <2>1, SortedNamed DEF TypeInv
  <2> DEFINE b == <<>>
             forced == FALSE
  <2>4. Enter(n, forced, b) /\ b = <<>> /\ forced \in BOOLEAN /\ ~forced  BY <2>1
  <2> HIDE DEF b, forced
  <2>5. Enters  BY <2>2, <2>3, <2>4 DEF Enters
  <2> QED  BY <2>5 DEF Moves
<1>4. CASE CallFinalizer
  <2> DEFINE f == Frame("callback", Sizes, FALSE, FALSE, {})
  <2>1. UNCHANGED record /\ stack = <<>> /\ stack' = <<f>>
    BY <1>4 DEF CallFinalizer, Idle, record, results, history
  <2>2. f.at = "callback" /\ f.wait = NoCall /\ f.saved = NoSlot  BY DEF Frame, NoCall
  <2> HIDE DEF f
  <2>3. Finalizes  BY <2>1, <2>2 DEF Finalizes
  <2> QED  BY <2>3 DEF Moves
<1>5. CASE FinalizerEnds
  <2>1. UNCHANGED record /\ stack # <<>> /\ stack' = Below /\ Top.at = "callback"
    BY <1>5 DEF FinalizerEnds, At, Return, record, results, history
  <2>2. ~OnPath(Top)  BY <2>1 DEF OnPath
  <2>3. Leaves  BY <2>1, <2>2 DEF Leaves
  <2> QED  BY <2>3 DEF Moves
<1> QED  BY <1>1, <1>2, <1>3, <1>4, <1>5 DEF PassStep

(* So every step is one of them. *)
LEMMA StepMoves == ASSUME TypeInv, [Next]_vars PROVE Moves
<1>1. CASE UNCHANGED vars
  BY <1>1 DEF vars, Moves, Rests, record, driver, results, history
<1> QED  BY <1>1, LuaMoves, BackMoves, DriverMoves, PassMoves DEF Next
----------------------------------------------------------------------------
(* A name is visited by one frame at most, and being visited is what that    *)
(* frame says: its body has not run, runs, or is run no more.                *)
FrameVisit(f, v, r) ==
  /\ OnPath(f) => f.who \in Name
  /\ Visits(f) => v[f.who] = "visiting" /\ r[f.who] = IF f.at = "walk" THEN 0 ELSE 1
  /\ f.at = "walk" /\ f.again => v[f.who] \in {"ran", "forced"} /\ f.forced

Now(st) == {st[i].who : i \in {j \in DOMAIN st : Visits(st[j])}}

Single(st) ==
  \A i, j \in DOMAIN st : Visits(st[i]) /\ Visits(st[j]) /\ i # j => st[i].who # st[j].who

Visited(st, v, r) ==
  /\ \A i \in DOMAIN st : FrameVisit(st[i], v, r)
  /\ Single(st)
  /\ \A n \in Name : v[n] = "visiting" => n \in Now(st)

(* What Cons says, index by index. *)
LEMMA ConsIndex ==
  ASSUME NEW st, NEW f, NEW t, Cons(st, f, t)
  PROVE  /\ 1 \in DOMAIN st /\ st[1] = f
         /\ \A i \in DOMAIN t : i + 1 \in DOMAIN st /\ st[i + 1] = t[i] /\ i \in Nat /\ i + 1 # 1
         /\ \A i \in DOMAIN st : i = 1 \/ \E j \in DOMAIN t : i = j + 1
<1>1. /\ Len(t) \in Nat /\ st[1] = f
      /\ DOMAIN t = 1 .. Len(t) /\ DOMAIN st = 1 .. Len(t) + 1
      /\ \A i \in 1 .. Len(t) : st[i + 1] = t[i]
  BY DEF Cons
<1>2. \A i \in 1 .. Len(t) + 1 : i = 1 \/ (i - 1 \in 1 .. Len(t) /\ i = (i - 1) + 1)  BY <1>1
<1>3. \A i \in DOMAIN st : i = 1 \/ \E j \in DOMAIN t : i = j + 1
  <2> SUFFICES ASSUME NEW i \in DOMAIN st, i # 1 PROVE \E j \in DOMAIN t : i = j + 1
    OBVIOUS
  <2>1. i - 1 \in DOMAIN t /\ i = (i - 1) + 1  BY <1>1, <1>2
  <2> QED  BY <2>1
<1>4. \A i \in DOMAIN t : i + 1 \in DOMAIN st /\ st[i + 1] = t[i] /\ i \in Nat /\ i + 1 # 1  BY <1>1
<1>5. 1 \in DOMAIN st  BY <1>1
<1> QED  BY <1>1, <1>3, <1>4, <1>5

(* The names visited, frame by frame, *)
LEMMA NowCons ==
  ASSUME NEW st, NEW f, NEW t, Cons(st, f, t)
  PROVE  Now(st) = Now(t) \cup (IF Visits(f) THEN {f.who} ELSE {})
<1>1. ASSUME NEW n \in Now(st) PROVE n \in Now(t) \cup (IF Visits(f) THEN {f.who} ELSE {})
  <2>1. PICK i \in DOMAIN st : Visits(st[i]) /\ n = st[i].who  BY DEF Now
  <2>2. CASE i = 1  BY <2>1, <2>2, ConsIndex
  <2>3. CASE i # 1
    <3>1. PICK j \in DOMAIN t : i = j + 1  BY <2>3, ConsIndex
    <3>2. st[i] = t[j]  BY <3>1, ConsIndex
    <3> QED  BY <2>1, <3>1, <3>2 DEF Now
  <2> QED  BY <2>2, <2>3
<1>2. ASSUME NEW n \in Now(t) PROVE n \in Now(st)
  <2>1. PICK j \in DOMAIN t : Visits(t[j]) /\ n = t[j].who  BY DEF Now
  <2>2. j + 1 \in DOMAIN st /\ st[j + 1] = t[j]  BY ConsIndex
  <2> QED  BY <2>1, <2>2 DEF Now
<1>3. Visits(f) => f.who \in Now(st)
  <2>1. 1 \in DOMAIN st /\ st[1] = f  BY ConsIndex
  <2> QED  BY <2>1 DEF Now
<1> QED  BY <1>1, <1>2, <1>3

(* and that they differ. *)
LEMMA SingleCons ==
  ASSUME NEW st, NEW f, NEW t, Cons(st, f, t)
  PROVE  Single(st) <=> Single(t) /\ (Visits(f) => f.who \notin Now(t))
<1>1. ASSUME Single(st) PROVE Single(t)
  <2> SUFFICES ASSUME NEW i \in DOMAIN t, NEW j \in DOMAIN t, Visits(t[i]), Visits(t[j]), i # j
               PROVE  t[i].who # t[j].who
    BY DEF Single
  <2>1. /\ i + 1 \in DOMAIN st /\ st[i + 1] = t[i] /\ j + 1 \in DOMAIN st /\ st[j + 1] = t[j]
        /\ i \in Nat /\ j \in Nat
    BY ConsIndex
  <2>2. i + 1 # j + 1  BY <2>1
  <2> QED  BY <1>1, <2>1, <2>2 DEF Single
<1>2. ASSUME Single(st), Visits(f), f.who \in Now(t) PROVE FALSE
  <2>1. PICK j \in DOMAIN t : Visits(t[j]) /\ f.who = t[j].who  BY <1>2 DEF Now
  <2>2. j + 1 \in DOMAIN st /\ st[j + 1] = t[j] /\ j + 1 # 1 /\ 1 \in DOMAIN st /\ st[1] = f
    BY ConsIndex
  <2> QED  BY <1>2, <2>1, <2>2 DEF Single
<1>3. ASSUME Single(t), Visits(f) => f.who \notin Now(t) PROVE Single(st)
  <2> SUFFICES ASSUME NEW i \in DOMAIN st, NEW j \in DOMAIN st, Visits(st[i]), Visits(st[j]), i # j
               PROVE  st[i].who # st[j].who
    BY DEF Single
  <2>0. st[1] = f  BY ConsIndex
  <2>1. CASE i = 1
    <3>1. PICK k \in DOMAIN t : j = k + 1  BY <2>1, ConsIndex
    <3>2. st[j] = t[k]  BY <3>1, ConsIndex
    <3>3. st[j].who \in Now(t)  BY <3>2 DEF Now
    <3> QED  BY <1>3, <2>0, <2>1, <3>3
  <2>2. CASE j = 1
    <3>1. PICK k \in DOMAIN t : i = k + 1  BY <2>2, ConsIndex
    <3>2. st[i] = t[k]  BY <3>1, ConsIndex
    <3>3. st[i].who \in Now(t)  BY <3>2 DEF Now
    <3> QED  BY <1>3, <2>0, <2>2, <3>3
  <2>3. CASE i # 1 /\ j # 1
    <3>1. PICK k \in DOMAIN t : i = k + 1  BY <2>3, ConsIndex
    <3>2. PICK l \in DOMAIN t : j = l + 1  BY <2>3, ConsIndex
    <3>3. st[i] = t[k] /\ st[j] = t[l] /\ k # l  BY <3>1, <3>2, ConsIndex
    <3> QED  BY <1>3, <3>3 DEF Single
  <2> QED  BY <2>1, <2>2, <2>3
<1> QED  BY <1>1, <1>2, <1>3

(* What Visited says of a stack, frame by frame. *)
LEMMA VisitedCons ==
  ASSUME NEW st, NEW f, NEW t, Cons(st, f, t), NEW v, NEW r
  PROVE  Visited(st, v, r)
           <=> /\ FrameVisit(f, v, r) /\ \A i \in DOMAIN t : FrameVisit(t[i], v, r)
               /\ Single(t) /\ (Visits(f) => f.who \notin Now(t))
               /\ \A n \in Name : v[n] = "visiting" => n \in Now(t) \/ (Visits(f) /\ n = f.who)
<1>1. (\A i \in DOMAIN st : FrameVisit(st[i], v, r))
        <=> FrameVisit(f, v, r) /\ \A i \in DOMAIN t : FrameVisit(t[i], v, r)
  <2>1. /\ 1 \in DOMAIN st /\ st[1] = f
        /\ \A i \in DOMAIN t : i + 1 \in DOMAIN st /\ st[i + 1] = t[i]
    BY ConsIndex
  <2>2. ASSUME FrameVisit(f, v, r), \A i \in DOMAIN t : FrameVisit(t[i], v, r), NEW i \in DOMAIN st
        PROVE  FrameVisit(st[i], v, r)
    <3>1. CASE i = 1  BY <2>1, <2>2, <3>1
    <3>2. CASE i # 1
      <4>1. PICK j \in DOMAIN t : i = j + 1  BY <3>2, ConsIndex
      <4> QED  BY <2>1, <2>2, <4>1
    <3> QED  BY <3>1, <3>2
  <2>3. ASSUME \A i \in DOMAIN st : FrameVisit(st[i], v, r), NEW i \in DOMAIN t PROVE FrameVisit(t[i], v, r)
    <3>1. i + 1 \in DOMAIN st /\ st[i + 1] = t[i]  BY <2>1
    <3>2. FrameVisit(st[i + 1], v, r)  BY <2>3, <3>1
    <3> QED  BY <3>1, <3>2
  <2> QED  BY <2>1, <2>2, <2>3
<1>2. Now(st) = Now(t) \cup (IF Visits(f) THEN {f.who} ELSE {})  BY NowCons
<1>3. Single(st) <=> Single(t) /\ (Visits(f) => f.who \notin Now(t))  BY SingleCons
<1>4. ASSUME NEW n PROVE n \in Now(st) <=> n \in Now(t) \/ (Visits(f) /\ n = f.who)
  BY <1>2
<1> QED  BY <1>1, <1>3, <1>4 DEF Visited

(* With no frame no name is being visited. *)
LEMMA VisitedNil ==
  ASSUME NEW v, NEW r PROVE Visited(<<>>, v, r) <=> \A n \in Name : v[n] # "visiting"
<1>1. DOMAIN <<>> = {} /\ Now(<<>>) = {} /\ Single(<<>>)  BY DEF Now, Single
<1> QED  BY <1>1 DEF Visited

(* The frame goes on. *)
LEMMA VisitedSwap ==
  ASSUME NEW st, NEW f, NEW t, Cons(st, f, t), NEW su, NEW g, Cons(su, g, t), Like(g, f),
         NEW v, NEW r, Visited(st, v, r)
  PROVE  Visited(su, v, r)
<1>1. /\ Visits(g) <=> Visits(f)
      /\ g.who = f.who
      /\ FrameVisit(g, v, r) <=> FrameVisit(f, v, r)
  BY DEF Like, Visits, FrameVisit, OnPath
<1> QED  BY <1>1, VisitedCons

(* Frames that do not visit a name come and go. *)
LEMMA VisitedAside ==
  ASSUME NEW st, NEW f, NEW t, Cons(st, f, t), ~OnPath(f), NEW v, NEW r
  PROVE  Visited(st, v, r) <=> Visited(t, v, r)
<1>1. ~Visits(f) /\ FrameVisit(f, v, r)  BY DEF OnPath, Visits, FrameVisit
<1> QED  BY <1>1, VisitedCons DEF Visited

(* A name is visited for the first time, or once more after a skip. *)
LEMMA VisitedFirst ==
  ASSUME NEW st, NEW f, NEW t, Cons(st, f, t), f.at = "walk", ~f.again, f.who \in Name,
         NEW v, DOMAIN v = Name, NEW r, Visited(t, v, r),
         v[f.who] \in {"new", "skipped"}, r[f.who] = 0
  PROVE  Visited(st, [v EXCEPT ![f.who] = "visiting"], r)
<1> DEFINE w == [v EXCEPT ![f.who] = "visiting"]
<1>1. w[f.who] = "visiting" /\ \A n \in Name : n # f.who => w[n] = v[n]  OBVIOUS
<1> HIDE DEF w
<1>2. Visits(f) /\ FrameVisit(f, w, r)  BY <1>1 DEF Visits, FrameVisit
<1>3. ASSUME NEW i \in DOMAIN t PROVE FrameVisit(t[i], w, r) /\ (Visits(t[i]) => t[i].who # f.who)
  <2>1. FrameVisit(t[i], v, r)  BY DEF Visited
  <2> QED  BY <1>1, <2>1 DEF FrameVisit, Visits, OnPath
<1>4. f.who \notin Now(t)  BY <1>3 DEF Now
<1>5. \A n \in Name : w[n] = "visiting" => n \in Now(t) \/ n = f.who  BY <1>1 DEF Visited
<1>6. Visited(st, w, r)  BY <1>2, <1>3, <1>4, <1>5, VisitedCons DEF Visited
<1> QED  BY <1>6 DEF w

(* The force is pushed down through a body that ran. *)
LEMMA VisitedAgain ==
  ASSUME NEW st, NEW f, NEW t, Cons(st, f, t), f.at = "walk", f.again, f.forced, f.who \in Name,
         NEW v, NEW r, Visited(t, v, r), v[f.who] \in {"ran", "forced"}
  PROVE  Visited(st, v, r)
<1>1. ~Visits(f) /\ FrameVisit(f, v, r)  BY DEF Visits, FrameVisit
<1> QED  BY <1>1, VisitedCons DEF Visited

(* The body is called. *)
LEMMA VisitedCall ==
  ASSUME NEW st, NEW f, NEW t, Cons(st, f, t), f.at = "walk", ~f.again,
         NEW su, NEW g, Cons(su, g, t), g.at = "body", g.who = f.who,
         NEW v, NEW r \in [Name -> Nat], Visited(st, v, r)
  PROVE  Visited(su, v, [r EXCEPT ![f.who] = @ + 1])
<1> DEFINE q == [r EXCEPT ![f.who] = @ + 1]
<1>1. Visits(f) /\ Visits(g) /\ f.who \in Name /\ v[f.who] = "visiting" /\ r[f.who] = 0
  BY VisitedCons DEF Visits, FrameVisit, OnPath
<1>2. q[f.who] = 1 /\ \A n \in Name : n # f.who => q[n] = r[n]  BY <1>1
<1> HIDE DEF q
<1>3. FrameVisit(g, v, q)  BY <1>1, <1>2 DEF FrameVisit
<1>4. f.who \notin Now(t) /\ \A i \in DOMAIN t : FrameVisit(t[i], v, r)  BY <1>1, VisitedCons
<1>5. ASSUME NEW i \in DOMAIN t PROVE FrameVisit(t[i], v, q)
  <2>1. Visits(t[i]) => t[i].who # f.who  BY <1>4 DEF Now
  <2>2. FrameVisit(t[i], v, r)  BY <1>4
  <2> QED  BY <1>2, <2>1, <2>2 DEF FrameVisit, Visits, OnPath
<1>6. Visited(su, v, q)
  <2>1. Single(t) /\ \A n \in Name : v[n] = "visiting" => n \in Now(t) \/ n = f.who
    BY VisitedCons
  <2> QED  BY <1>1, <1>3, <1>4, <1>5, <2>1, VisitedCons
<1> QED  BY <1>6 DEF q

(* The visit is over. *)
LEMMA VisitedEnd ==
  ASSUME NEW st, NEW f, NEW t, Cons(st, f, t), Visits(f),
         NEW v, DOMAIN v = Name, NEW r, Visited(st, v, r), NEW x, x # "visiting"
  PROVE  Visited(t, [v EXCEPT ![f.who] = x], r)
<1> DEFINE w == [v EXCEPT ![f.who] = x]
<1>1. f.who \in Name /\ v[f.who] = "visiting"
  BY VisitedCons DEF FrameVisit, Visits, OnPath
<1>2. w[f.who] = x /\ \A n \in Name : n # f.who => w[n] = v[n]  BY <1>1
<1> HIDE DEF w
<1>3. f.who \notin Now(t) /\ \A i \in DOMAIN t : FrameVisit(t[i], v, r)  BY VisitedCons
<1>4. ASSUME NEW i \in DOMAIN t PROVE FrameVisit(t[i], w, r)
  <2>1. Visits(t[i]) => t[i].who # f.who  BY <1>3 DEF Now
  <2>2. FrameVisit(t[i], v, r)  BY <1>3
  <2> QED  BY <1>1, <1>2, <2>1, <2>2 DEF FrameVisit, Visits, OnPath
<1>5. \A n \in Name : w[n] = "visiting" => n \in Now(t)
  <2>1. \A n \in Name : v[n] = "visiting" => n \in Now(t) \/ n = f.who  BY VisitedCons
  <2> QED  BY <1>2, <2>1
<1>6. Single(t)  BY VisitedCons
<1>7. Visited(t, w, r)  BY <1>4, <1>5, <1>6 DEF Visited
<1> QED  BY <1>7 DEF w

(* The force has been pushed down, or could not be. *)
LEMMA VisitedForced ==
  ASSUME NEW st, NEW f, NEW t, Cons(st, f, t), f.at = "walk", f.again,
         NEW v, DOMAIN v = Name, NEW r, Visited(st, v, r)
  PROVE  Visited(t, v, r) /\ Visited(t, [v EXCEPT ![f.who] = "forced"], r)
<1> DEFINE w == [v EXCEPT ![f.who] = "forced"]
<1>1. ~Visits(f) /\ f.who \in Name /\ v[f.who] \in {"ran", "forced"}
  BY VisitedCons DEF FrameVisit, Visits, OnPath
<1>2. w[f.who] = "forced" /\ \A n \in Name : n # f.who => w[n] = v[n]  BY <1>1
<1> HIDE DEF w
<1>3. Visited(t, v, r)  BY <1>1, VisitedCons DEF Visited
<1>4. ASSUME NEW i \in DOMAIN t PROVE FrameVisit(t[i], w, r)
  <2>1. FrameVisit(t[i], v, r)  BY <1>3 DEF Visited
  <2> QED  BY <1>1, <1>2, <2>1 DEF FrameVisit, Visits, OnPath
<1>5. \A n \in Name : w[n] = "visiting" => n \in Now(t)  BY <1>2, <1>3 DEF Visited
<1>6. Visited(t, w, r)  BY <1>3, <1>4, <1>5 DEF Visited
<1> QED  BY <1>3, <1>6 DEF w
----------------------------------------------------------------------------
(* A body has run once or not at all, and one that was not yet called or was *)
(* passed over has not; a name is registered once.                           *)
Counts(v, r) == \A n \in Name : r[n] <= 1 /\ (v[n] \in {"new", "skipped"} => r[n] = 0)

Once ==
  /\ \A i, j \in DOMAIN names : names[i] = names[j] => i = j
  /\ DOMAIN entry = {names[i] : i \in DOMAIN names}

VisitInv == Visited(stack, visit, runs) /\ Counts(visit, runs) /\ Once

(* A stack of one frame. *)
LEMMA ConsOne == \A f : Cons(<<f>>, f, <<>>) /\ <<f>> \o <<>> = <<f>>
<1> SUFFICES ASSUME NEW f PROVE Cons(<<f>>, f, <<>>) /\ <<f>> \o <<>> = <<f>>
  OBVIOUS
<1>1. IsSeq(<<>>)  BY EmptySeq DEF IsSeq
<1>2. <<f>> \o <<>> = <<f>>  OBVIOUS
<1>3. Cons(<<f>> \o <<>>, f, <<>>)  BY <1>1, ConsSeq
<1> QED  BY <1>2, <1>3

(* The stack a call comes back to. *)
LEMMA GoneOn ==
  ASSUME TypeInv, NEW g, GoesOn(g)
  PROVE  /\ Cons(stack, Top, Below) /\ Cons(<<g>> \o Below, g, Below)
         /\ IsSeq(<<g>> \o Below) /\ IsSeq(Below) /\ Like(g, Top)
<1>1. Cons(stack, Top, Below) /\ IsSeq(Below) /\ Like(g, Top)  BY TopIs DEF GoesOn
<1>2. Cons(<<g>> \o Below, g, Below)  BY <1>1, ConsSeq
<1> HIDE DEF Top, Below
<1> QED  BY <1>1, <1>2 DEF Cons

(* The innermost frame goes on: the visits are what they were. *)
LEMMA VisitedGone ==
  ASSUME TypeInv, NEW g, GoesOn(g), Visited(stack, visit, runs)
  PROVE  IsSeq(<<g>> \o Below) /\ Visited(<<g>> \o Below, visit, runs)
  BY GoneOn, VisitedSwap

(* A visit is asked for: done, refused, or opened. *)
LEMMA VisitedEnter ==
  ASSUME TypeInv, NEW n \in Named, NEW forced \in BOOLEAN, NEW b, IsSeq(b), Enter(n, forced, b),
         Visited(b, visit, runs), Counts(visit, runs)
  PROVE  Visited(stack', visit', runs) /\ Counts(visit', runs)
<1>1. n \in Name /\ DeclOf(n).requires \subseteq Name  BY DeclIs DEF TypeInv
<1>2. DOMAIN visit = Name  BY DEF TypeInv, InMarks
<1>3. CASE stack' = b /\ visit' = visit  BY <1>3
<1>4. CASE ~Done(n, forced) /\ visit[n] = "ran" /\ PushDown(n, b)
  <2> DEFINE f == Frame("walk", n, TRUE, TRUE, DeclOf(n).requires)
  <2>1. stack' = <<f>> \o b /\ visit' = visit  BY <1>4 DEF PushDown
  <2>2. f.at = "walk" /\ f.again /\ f.forced /\ f.who = n  BY DEF Frame
  <2> HIDE DEF f
  <2>3. Cons(<<f>> \o b, f, b)  BY ConsSeq
  <2>4. Visited(<<f>> \o b, visit, runs)  BY <1>1, <1>4, <2>2, <2>3, VisitedAgain
  <2> QED  BY <2>1, <2>4
<1>5. CASE /\ ~Done(n, forced) /\ visit[n] \in {"new", "skipped"}
           /\ visit' = [visit EXCEPT ![n] = "visiting"]
           /\ stack' = <<Frame("walk", n, forced, FALSE, DeclOf(n).requires)>> \o b
  <2> DEFINE f == Frame("walk", n, forced, FALSE, DeclOf(n).requires)
  <2>1. stack' = <<f>> \o b  BY <1>5
  <2>2. f.at = "walk" /\ ~f.again /\ f.who = n  BY DEF Frame
  <2> HIDE DEF f
  <2>3. Cons(<<f>> \o b, f, b)  BY ConsSeq
  <2>4. runs[n] = 0  BY <1>1, <1>5 DEF Counts
  <2>5. Visited(<<f>> \o b, [visit EXCEPT ![n] = "visiting"], runs)
    BY <1>1, <1>2, <1>5, <2>2, <2>3, <2>4, VisitedFirst
  <2>6. Counts(visit', runs)  BY <1>1, <1>2, <1>5 DEF Counts
  <2> QED  BY <1>5, <2>1, <2>5, <2>6
<1> QED  BY <1>3, <1>4, <1>5 DEF Enter

(* Registering a name again keeps its one place in names. *)
LEMMA RegisterOnce ==
  ASSUME Once, IsSeq(names), NEW n, NEW requires, NEW units, NEW ran,
         Register(n, requires, units, ran)
  PROVE  Once'
<1>1. DOMAIN entry' = DOMAIN entry \cup {n}  BY RegisterIs DEF More
<1>2. CASE n \in DOMAIN entry
  <2>1. names' = names  BY <1>2 DEF Register
  <2>2. DOMAIN entry' = DOMAIN entry  BY <1>1, <1>2
  <2> QED  BY <2>1, <2>2 DEF Once
<1>3. CASE n \notin DOMAIN entry
  <2>1. names' = Append(names, n)  BY <1>3 DEF Register
  <2> DEFINE s == Append(names, n)
  <2>2. /\ Len(names) \in Nat /\ DOMAIN names = 1 .. Len(names)
        /\ DOMAIN s = 1 .. Len(names) + 1 /\ s[Len(names) + 1] = n
        /\ \A i \in 1 .. Len(names) : s[i] = names[i]
    BY AppendSeq
  <2>3. names' = s  BY <2>1
  <2> HIDE DEF s
  <2>4. \A i \in 1 .. Len(names) + 1 : i \in 1 .. Len(names) \/ i = Len(names) + 1  BY <2>2
  <2>5. \A i \in 1 .. Len(names) : s[i] \in DOMAIN entry /\ s[i] # n
    BY <1>3, <2>2 DEF Once
  <2>6. ASSUME NEW i \in DOMAIN s, NEW j \in DOMAIN s, s[i] = s[j] PROVE i = j
    <3>1. CASE i \in 1 .. Len(names) /\ j \in 1 .. Len(names)  BY <2>2, <2>6, <3>1 DEF Once
    <3>2. CASE i = Len(names) + 1 \/ j = Len(names) + 1  BY <2>2, <2>4, <2>5, <2>6, <3>2
    <3> QED  BY <2>2, <2>4, <3>1, <3>2
  <2>7. DOMAIN entry' = {s[i] : i \in DOMAIN s}
    <3>1. \A m \in DOMAIN entry' : \E i \in DOMAIN s : m = s[i]
      <4>1. \A m \in DOMAIN entry : \E i \in 1 .. Len(names) : m = names[i]  BY <2>2 DEF Once
      <4>2. \A i \in 1 .. Len(names) : i \in DOMAIN s  BY <2>2
      <4>3. Len(names) + 1 \in DOMAIN s  BY <2>2
      <4> QED  BY <1>1, <2>2, <4>1, <4>2, <4>3
    <3>2. \A i \in DOMAIN s : s[i] \in DOMAIN entry'  BY <1>1, <2>2, <2>4, <2>5
    <3> QED  BY <3>1, <3>2
  <2> QED  BY <2>3, <2>6, <2>7 DEF Once
<1> QED  BY <1>2, <1>3

(* A visit ends, whichever way it does. *)
LEMMA VisitEnds ==
  ASSUME TypeInv, VisitInv, stack # <<>>, Visits(Top), NEW x, x \notin {"visiting", "new"},
         x = "skipped" => Top.at = "walk",
         visit' = [visit EXCEPT ![Top.who] = x], stack' = Below, runs' = runs
  PROVE  Visited(stack', visit', runs') /\ Counts(visit', runs')
<1>1. Cons(stack, Top, Below)  BY TopIs
<1>2. DOMAIN visit = Name  BY DEF TypeInv, InMarks
<1>3. FrameVisit(Top, visit, runs)  BY <1>1, VisitedCons DEF VisitInv
<1> HIDE DEF Top, Below
<1>4. Visited(Below, [visit EXCEPT ![Top.who] = x], runs)  BY <1>1, <1>2, VisitedEnd DEF VisitInv
<1>5. Top.who \in Name /\ (Top.at = "walk" => runs[Top.who] = 0)
  BY <1>3 DEF FrameVisit, Visits, OnPath
<1>6. Counts(visit', runs)  BY <1>2, <1>5 DEF Counts, VisitInv
<1> QED  BY <1>4, <1>6

(* Every step keeps the visits in order. *)
LEMMA VisitNext == ASSUME TypeInv, VisitInv, [Next]_vars PROVE VisitInv'
<1>0. TypeInv /\ Visited(stack, visit, runs) /\ Counts(visit, runs) /\ Once /\ IsSeq(names)
  BY SeqIs DEF VisitInv, TypeInv, InMarks
<1>1. Moves  BY StepMoves
<1>2. CASE UNCHANGED <<names, entry>> /\ Visited(stack', visit', runs') /\ Counts(visit', runs')
  BY <1>0, <1>2 DEF VisitInv, Once
<1>3. ASSUME UNCHANGED record, Visited(stack', visit, runs) PROVE VisitInv'
  BY <1>0, <1>2, <1>3 DEF record
<1>4. CASE Rests  BY <1>0, <1>3, <1>4 DEF Rests
<1>5. CASE Goes
  <2>1. PICK g : GoesOn(g) /\ stack' = <<g>> \o Below  BY <1>5 DEF Goes
  <2>2. Visited(stack', visit, runs)  BY <1>0, <2>1, VisitedGone
  <2> QED  BY <1>3, <1>5, <2>2 DEF Goes
<1>6. CASE Reads
  <2>1. PICK f, b : /\ stack' = <<f>> \o b /\ f.at = "need"
                    /\ \/ stack = <<>> /\ b = <<>>
                       \/ \E g : GoesOn(g) /\ b = <<g>> \o Below
    BY <1>6 DEF Reads
  <2>2. IsSeq(b) /\ Visited(b, visit, runs)
    <3>1. CASE stack = <<>> /\ b = <<>>
      <4>1. IsSeq(<<>>)  BY EmptySeq DEF IsSeq
      <4> QED  BY <1>0, <3>1, <4>1
    <3>2. CASE \E g : GoesOn(g) /\ b = <<g>> \o Below  BY <1>0, <3>2, VisitedGone
    <3> QED  BY <2>1, <3>1, <3>2
  <2>3. Cons(<<f>> \o b, f, b)  BY <2>2, ConsSeq
  <2>4. ~OnPath(f)  BY <2>1 DEF OnPath
  <2>5. Visited(<<f>> \o b, visit, runs)  BY <2>2, <2>3, <2>4, VisitedAside
  <2> QED  BY <1>3, <1>6, <2>1, <2>5 DEF Reads
<1>7. CASE Enters
  <2>1. PICK n \in Named, forced \in BOOLEAN :
          \E b : /\ Enter(n, forced, b)
                 /\ (stack = <<>> /\ b = <<>>) \/ \E g : GoesOn(g) /\ b = <<g>> \o Below
    BY <1>7 DEF Enters
  <2>2. PICK b : /\ Enter(n, forced, b)
                 /\ (stack = <<>> /\ b = <<>>) \/ \E g : GoesOn(g) /\ b = <<g>> \o Below
    BY <2>1
  <2>3. IsSeq(b) /\ Visited(b, visit, runs)
    <3>1. CASE stack = <<>> /\ b = <<>>
      <4>1. IsSeq(<<>>)  BY EmptySeq DEF IsSeq
      <4> QED  BY <1>0, <3>1, <4>1
    <3>2. CASE \E g : GoesOn(g) /\ b = <<g>> \o Below  BY <1>0, <3>2, VisitedGone
    <3> QED  BY <2>2, <3>1, <3>2
  <2>4. Visited(stack', visit', runs) /\ Counts(visit', runs)
    BY <1>0, <2>2, <2>3, VisitedEnter
  <2> QED  BY <1>2, <1>7, <2>4 DEF Enters
<1>8. CASE Leaves
  <2>1. stack # <<>> /\ stack' = Below /\ ~OnPath(Top)  BY <1>8 DEF Leaves
  <2>2. Cons(stack, Top, Below)  BY <1>0, <2>1, TopIs
  <2> HIDE DEF Top, Below
  <2>3. Visited(Below, visit, runs)  BY <1>0, <2>1, <2>2, VisitedAside
  <2> QED  BY <1>3, <1>8, <2>1, <2>3 DEF Leaves
<1>9. CASE Produces
  <2>1. PICK f : stack # <<>> /\ Top.at = "need" /\ stack' = <<f>> \o Below /\ f.at = "produce"
    BY <1>9 DEF Produces
  <2>2. Cons(stack, Top, Below) /\ IsSeq(Below)  BY <1>0, <2>1, TopIs
  <2>3. Cons(<<f>> \o Below, f, Below)  BY <2>2, ConsSeq
  <2>4. ~OnPath(Top) /\ ~OnPath(f)  BY <2>1 DEF OnPath
  <2> HIDE DEF Top, Below
  <2>5. Visited(Below, visit, runs)  BY <1>0, <2>2, <2>4, VisitedAside
  <2>6. Visited(<<f>> \o Below, visit, runs)  BY <2>3, <2>4, <2>5, VisitedAside
  <2> QED  BY <1>3, <1>9, <2>1, <2>6 DEF Produces
<1>10. CASE Finalizes
  <2>1. PICK f : stack = <<>> /\ stack' = <<f>> /\ f.at = "callback"  BY <1>10 DEF Finalizes
  <2>2. Cons(<<f>>, f, <<>>) /\ ~OnPath(f)  BY <2>1, ConsOne DEF OnPath
  <2>3. Visited(<<f>>, visit, runs)  BY <1>0, <2>1, <2>2, VisitedAside
  <2> QED  BY <1>3, <1>10, <2>1, <2>3 DEF Finalizes
<1>11. CASE WalkFails
  <2>1. /\ stack # <<>> /\ Top.at = "walk" /\ stack' = Below /\ UNCHANGED <<names, entry, runs>>
        /\ visit' = IF Top.again THEN visit ELSE [visit EXCEPT ![Top.who] = "failed"]
    BY <1>11 DEF WalkFails, At, Return, results, history
  <2>2. CASE Top.again
    <3>1. Cons(stack, Top, Below) /\ DOMAIN visit = Name  BY <1>0, <2>1, TopIs DEF TypeInv, InMarks
    <3> HIDE DEF Top, Below
    <3>2. Visited(Below, visit, runs)  BY <1>0, <2>1, <2>2, <3>1, VisitedForced
    <3> QED  BY <1>0, <1>2, <2>1, <2>2, <3>2
  <2>3. CASE ~Top.again
    <3> DEFINE x == "failed"
    <3>1. Visits(Top) /\ x \notin {"visiting", "new", "skipped"}  BY <2>1, <2>3 DEF Visits
    <3>2. visit' = [visit EXCEPT ![Top.who] = x]  BY <2>1, <2>3
    <3> HIDE DEF x
    <3>3. Visited(stack', visit', runs') /\ Counts(visit', runs')
      BY <2>1, <3>1, <3>2, VisitEnds
    <3> QED  BY <1>2, <2>1, <3>3
  <2> QED  BY <2>2, <2>3
<1>12. CASE ForceReached
  <2>1. /\ stack # <<>> /\ Top.at = "walk" /\ Top.again /\ stack' = Below
        /\ UNCHANGED <<names, entry, runs>> /\ visit' = [visit EXCEPT ![Top.who] = "forced"]
    BY <1>12 DEF ForceReached, At, Return, results, history
  <2>2. Cons(stack, Top, Below) /\ DOMAIN visit = Name  BY <1>0, <2>1, TopIs DEF TypeInv, InMarks
  <2> HIDE DEF Top, Below
  <2>3. Visited(Below, [visit EXCEPT ![Top.who] = "forced"], runs)
    BY <1>0, <2>1, <2>2, VisitedForced
  <2>4. Counts(visit', runs)  BY <1>0, <2>1, <2>2 DEF Counts
  <2> QED  BY <1>2, <2>1, <2>3, <2>4
<1>13. CASE RefuseBody
  <2> DEFINE x == "failed"
  <2>1. /\ stack # <<>> /\ Top.at = "walk" /\ ~Top.again /\ stack' = Below
        /\ UNCHANGED <<names, entry, runs>> /\ visit' = [visit EXCEPT ![Top.who] = x]
    BY <1>13 DEF RefuseBody, WalkDone, At, Return, results, history
  <2>2. Visits(Top) /\ x \notin {"visiting", "new", "skipped"}  BY <2>1 DEF Visits
  <2> HIDE DEF x
  <2>3. Visited(stack', visit', runs') /\ Counts(visit', runs')  BY <2>1, <2>2, VisitEnds
  <2> QED  BY <1>2, <2>1, <2>3
<1>14. CASE SkipBody
  <2> DEFINE x == "skipped"
  <2>1. /\ stack # <<>> /\ Top.at = "walk" /\ ~Top.again /\ stack' = Below
        /\ UNCHANGED runs /\ visit' = [visit EXCEPT ![Top.who] = x]
        /\ Register(Top.who, DeclOf(Top.who).requires, <<>>, FALSE)
    BY <1>14 DEF SkipBody, WalkDone, At, Return, history
  <2>2. Visits(Top) /\ x \notin {"visiting", "new"}  BY <2>1 DEF Visits
  <2> HIDE DEF x
  <2>3. Visited(stack', visit', runs') /\ Counts(visit', runs')  BY <2>1, <2>2, VisitEnds
  <2>4. Once'  BY <1>0, <2>1, RegisterOnce
  <2> QED  BY <2>3, <2>4 DEF VisitInv
<1>15. CASE CallBody
  <2> DEFINE g == [Frame("body", Top.who, Top.forced, FALSE, {}) EXCEPT !.saved = SavedSlot]
  <2>1. /\ stack # <<>> /\ Top.at = "walk" /\ ~Top.again /\ stack' = <<g>> \o Below
        /\ UNCHANGED <<names, entry, visit>> /\ runs' = [runs EXCEPT ![Top.who] = @ + 1]
    BY <1>15 DEF CallBody, WalkDone, At, results
  <2>2. g.at = "body" /\ g.who = Top.who  BY DEF Frame
  <2> HIDE DEF g
  <2>3. Cons(stack, Top, Below) /\ IsSeq(Below)  BY <1>0, <2>1, TopIs
  <2>4. Cons(<<g>> \o Below, g, Below)  BY <2>3, ConsSeq
  <2>5. runs \in [Name -> Nat]  BY <1>0 DEF TypeInv, InMarks
  <2> HIDE DEF Top, Below
  <2>6. Visits(Top)  BY <2>1 DEF Visits
  <2>7. Top.who \in Name /\ visit[Top.who] = "visiting" /\ runs[Top.who] = 0
    BY <1>0, <2>1, <2>3, <2>6, VisitedCons DEF FrameVisit, Visits, OnPath
  <2>8. Visited(<<g>> \o Below, visit, [runs EXCEPT ![Top.who] = @ + 1])
    BY <1>0, <2>1, <2>2, <2>3, <2>4, <2>5, VisitedCall
  <2>9. Counts(visit, runs')
    <3>1. runs'[Top.who] = 1 /\ \A n \in Name : n # Top.who => runs'[n] = runs[n]
      BY <2>1, <2>5, <2>7
    <3> QED  BY <1>0, <2>7, <3>1 DEF Counts
  <2> QED  BY <1>2, <2>1, <2>8, <2>9
<1>16. CASE BodyReturns
  <2> DEFINE x == IF Top.forced THEN "forced" ELSE "ran"
  <2>1. /\ stack # <<>> /\ Top.at = "body" /\ stack' = Below
        /\ UNCHANGED runs /\ visit' = [visit EXCEPT ![Top.who] = x]
        /\ Register(Top.who, DeclOf(Top.who).requires \cup slot.requires, slot.units, TRUE)
    BY <1>16 DEF BodyReturns, InLua, Ready, At, Return, history
  <2>2. Visits(Top) /\ x \notin {"visiting", "new", "skipped"}  BY <2>1 DEF Visits
  <2> HIDE DEF x
  <2>3. Visited(stack', visit', runs') /\ Counts(visit', runs')  BY <2>1, <2>2, VisitEnds
  <2>4. Once'  BY <1>0, <2>1, RegisterOnce
  <2> QED  BY <2>3, <2>4 DEF VisitInv
<1>17. CASE BodyFails
  <2> DEFINE x == "failed"
  <2>1. /\ stack # <<>> /\ Top.at = "body" /\ stack' = Below
        /\ UNCHANGED <<names, entry, runs>> /\ visit' = [visit EXCEPT ![Top.who] = x]
    BY <1>17 DEF BodyFails, At, Return, results, history
  <2>2. Visits(Top) /\ x \notin {"visiting", "new", "skipped"}  BY <2>1 DEF Visits
  <2> HIDE DEF x
  <2>3. Visited(stack', visit', runs') /\ Counts(visit', runs')  BY <2>1, <2>2, VisitEnds
  <2> QED  BY <1>2, <2>1, <2>3
<1> QED
  BY <1>1, <1>4, <1>5, <1>6, <1>7, <1>8, <1>9, <1>10, <1>11, <1>12, <1>13, <1>14, <1>15, <1>16, <1>17
  DEF Moves, Visiting

(* No name is being visited at first. *)
LEMMA VisitInit == ASSUME Init PROVE VisitInv
<1>1. \A n \in Name : visit[n] = "new" /\ runs[n] = 0  BY DEF Init
<1>2. Visited(stack, visit, runs)  BY <1>1, VisitedNil DEF Init
<1>3. DOMAIN entry = {} /\ DOMAIN names = {}  BY DEF Init, Empty
<1> QED  BY <1>1, <1>2, <1>3 DEF VisitInv, Counts, Once

(* So the visits are always in order, *)
LEMMA VisitInvariance == Spec => []VisitInv
<1>1. Init => VisitInv  BY VisitInit
<1>2. TypeInv /\ VisitInv /\ [Next]_vars => VisitInv'  BY VisitNext
<1> QED  BY <1>1, <1>2, TypeInvariance, PTL DEF Spec

(* and no body runs twice. *)
LEMMA OnceGives == ASSUME VisitInv PROVE RunsOnce
  BY DEF VisitInv, Counts, Once, RunsOnce
----------------------------------------------------------------------------
(* Why a frame is on the stack.  E are the requires of each name, S the      *)
(* names sorted before the first body, F those forced so far.  Left are the  *)
(* requires a visit was to force and has not, or not yet.                    *)
Left(f, E, S, F) == (E[f.who] \cap S) \ (f.todo \cup F)

FrameWork(f, E, S, F) ==
  /\ f.at = "walk" => f.todo \subseteq E[f.who]
  /\ f.at = "body" => f.todo = {} /\ (f.forced => Left(f, E, S, F) = {})

(* The frame f does what the frame g below it asked for. *)
Serves(f, g, E, S, F) ==
  \/ /\ g.at = "walk" /\ OnPath(f) /\ f.who \in E[g.who] /\ f.forced = g.forced
     /\ g.forced => Left(g, E, S, F) \subseteq {f.who}
  \/ g.at = "body" /\ OnPath(f) /\ f.forced /\ g.wait # NoCall /\ g.wait[1] # "read" /\ g.wait[2] = f.who
  \/ Lua(g) /\ g.wait[1] = "read" /\ ~OnPath(f)
  \/ g.at = "need" /\ ~OnPath(f)

Chain(st, E, S, F) ==
  /\ \A i \in DOMAIN st : FrameWork(st[i], E, S, F)
  /\ \A i \in DOMAIN st : i + 1 \in DOMAIN st => Serves(st[i], st[i + 1], E, S, F)

(* What the innermost frame finds, r being what the last call gave back.     *)
AtTop(f, r, E, S, F) ==
  /\ f.at = "walk" /\ f.forced /\ r # "err" => Left(f, E, S, F) = {}
  /\ Lua(f) /\ r # "err" /\ f.wait # NoCall /\ f.wait[1] # "read" => f.wait[2] \in F

Works(st, r, E, S, F) ==
  /\ Chain(st, E, S, F)
  /\ st # <<>> => AtTop(st[1], r, E, S, F)

(* The first frame of a stack. *)
LEMMA ConsFirst ==
  ASSUME NEW st, NEW f, NEW t, Cons(st, f, t)
  PROVE  st # <<>> /\ st[1] = f /\ (t # <<>> <=> 1 \in DOMAIN t)
<1>1. Len(st) = Len(t) + 1 /\ Len(t) \in Nat /\ IsSeq(st) /\ IsSeq(t) /\ DOMAIN t = 1 .. Len(t)
  BY DEF Cons
<1>2. st # <<>>  BY <1>1, SeqHas
<1>3. t # <<>> <=> Len(t) > 0  BY <1>1, SeqHas
<1> QED  BY <1>1, <1>2, <1>3 DEF Cons

(* The empty stack is a chain. *)
LEMMA ChainNil == \A E, S, F : Chain(<<>>, E, S, F)
<1>1. DOMAIN <<>> = {}  OBVIOUS
<1> QED  BY <1>1 DEF Chain

(* What Chain says of a stack, frame by frame. *)
LEMMA ChainCons ==
  ASSUME NEW st, NEW f, NEW t, Cons(st, f, t), NEW E, NEW S, NEW F
  PROVE  Chain(st, E, S, F)
           <=> /\ FrameWork(f, E, S, F) /\ Chain(t, E, S, F)
               /\ t # <<>> => Serves(f, t[1], E, S, F)
<1>0. /\ 1 \in DOMAIN st /\ st[1] = f
      /\ \A i \in DOMAIN t : i + 1 \in DOMAIN st /\ st[i + 1] = t[i] /\ i \in Nat /\ i + 1 # 1
      /\ \A i \in DOMAIN st : i = 1 \/ \E j \in DOMAIN t : i = j + 1
  BY ConsIndex
<1>1. t # <<>> <=> 1 \in DOMAIN t  BY ConsFirst
<1>2. ASSUME Chain(st, E, S, F) PROVE FrameWork(f, E, S, F) /\ Chain(t, E, S, F)
  <2>1. FrameWork(f, E, S, F)  BY <1>0, <1>2 DEF Chain
  <2>2. ASSUME NEW i \in DOMAIN t PROVE FrameWork(t[i], E, S, F)
    BY <1>0, <1>2 DEF Chain
  <2>3. ASSUME NEW i \in DOMAIN t, i + 1 \in DOMAIN t PROVE Serves(t[i], t[i + 1], E, S, F)
    <3>1. /\ i + 1 \in DOMAIN st /\ (i + 1) + 1 \in DOMAIN st
          /\ st[i + 1] = t[i] /\ st[(i + 1) + 1] = t[i + 1]
      BY <1>0, <2>3
    <3>2. Serves(st[i + 1], st[(i + 1) + 1], E, S, F)  BY <1>2, <3>1 DEF Chain
    <3> QED  BY <3>1, <3>2
  <2> QED  BY <2>1, <2>2, <2>3 DEF Chain
<1>3. ASSUME Chain(st, E, S, F), t # <<>> PROVE Serves(f, t[1], E, S, F)
  <2>1. 1 + 1 \in DOMAIN st /\ st[1 + 1] = t[1]  BY <1>0, <1>1, <1>3
  <2>2. Serves(st[1], st[1 + 1], E, S, F)  BY <1>0, <1>3, <2>1 DEF Chain
  <2> QED  BY <1>0, <2>1, <2>2
<1>4. ASSUME FrameWork(f, E, S, F), Chain(t, E, S, F), t # <<>> => Serves(f, t[1], E, S, F)
      PROVE  Chain(st, E, S, F)
  <2>1. ASSUME NEW i \in DOMAIN st PROVE FrameWork(st[i], E, S, F)
    <3>1. CASE i = 1  BY <1>0, <1>4, <3>1
    <3>2. CASE i # 1
      <4>1. PICK j \in DOMAIN t : i = j + 1  BY <1>0, <3>2
      <4>2. st[i] = t[j] /\ FrameWork(t[j], E, S, F)  BY <1>0, <1>4, <4>1 DEF Chain
      <4> QED  BY <4>2
    <3> QED  BY <3>1, <3>2
  <2>2. ASSUME NEW i \in DOMAIN st, i + 1 \in DOMAIN st PROVE Serves(st[i], st[i + 1], E, S, F)
    <3>1. CASE i = 1
      <4>1. PICK k \in DOMAIN t : i + 1 = k + 1  BY <1>0, <2>2, <3>1
      <4>2. k = 1  BY <1>0, <3>1, <4>1
      <4>3. st[i + 1] = t[1] /\ t # <<>>  BY <1>0, <1>1, <4>1, <4>2
      <4> QED  BY <1>0, <1>4, <3>1, <4>3
    <3>2. CASE i # 1
      <4>1. PICK j \in DOMAIN t : i = j + 1  BY <1>0, <3>2
      <4>2. i + 1 # 1 /\ j \in Nat  BY <1>0, <4>1
      <4>3. PICK k \in DOMAIN t : i + 1 = k + 1  BY <1>0, <2>2, <4>2
      <4>4. k = j + 1  BY <1>0, <4>1, <4>3
      <4>5. st[i] = t[j] /\ st[i + 1] = t[j + 1]  BY <1>0, <4>1, <4>3, <4>4
      <4>6. Serves(t[j], t[j + 1], E, S, F)  BY <1>4, <4>3, <4>4 DEF Chain
      <4> QED  BY <4>5, <4>6
    <3> QED  BY <3>1, <3>2
  <2> QED  BY <2>1, <2>2 DEF Chain
<1> QED  BY <1>2, <1>3, <1>4

(* More is forced: less is left. *)
LEMMA ChainMore ==
  ASSUME NEW st, NEW E, NEW S, NEW F, Chain(st, E, S, F), NEW G, F \subseteq G
  PROVE  Chain(st, E, S, G)
<1>1. \A f : Left(f, E, S, G) \subseteq Left(f, E, S, F)  BY DEF Left
<1>2. ASSUME NEW f, FrameWork(f, E, S, F) PROVE FrameWork(f, E, S, G)
  <2>1. Left(f, E, S, G) \subseteq Left(f, E, S, F)  BY <1>1
  <2> HIDE DEF Left
  <2> QED  BY <1>2, <2>1 DEF FrameWork
<1>3. ASSUME NEW f, NEW g, Serves(f, g, E, S, F) PROVE Serves(f, g, E, S, G)
  <2>1. Left(g, E, S, G) \subseteq Left(g, E, S, F)  BY <1>1
  <2> HIDE DEF Left
  <2> QED  BY <1>3, <2>1 DEF Serves
<1> QED  BY <1>2, <1>3 DEF Chain

(* The requires of the names on the stack are what they were. *)
LEMMA WorksSame ==
  ASSUME NEW st, NEW r, NEW E, NEW S, NEW F, Works(st, r, E, S, F), NEW H,
         \A i \in DOMAIN st : OnPath(st[i]) => H[st[i].who] = E[st[i].who], 1 \in DOMAIN st \/ st = <<>>
  PROVE  Works(st, r, H, S, F)
<1>1. ASSUME NEW f, OnPath(f) => H[f.who] = E[f.who]
      PROVE  /\ OnPath(f) => Left(f, H, S, F) = Left(f, E, S, F)
             /\ FrameWork(f, E, S, F) => FrameWork(f, H, S, F)
             /\ \A r0 : AtTop(f, r0, E, S, F) => AtTop(f, r0, H, S, F)
             /\ \A g : Serves(g, f, E, S, F) => Serves(g, f, H, S, F)
  <2>1. OnPath(f) => Left(f, H, S, F) = Left(f, E, S, F)  BY <1>1 DEF Left
  <2>2. f.at = "walk" \/ f.at = "body" => OnPath(f)  BY DEF OnPath
  <2> HIDE DEF Left
  <2> QED  BY <1>1, <2>1, <2>2 DEF FrameWork, AtTop, Serves
<1>2. \A i \in DOMAIN st : FrameWork(st[i], H, S, F)  BY <1>1 DEF Works, Chain
<1>3. \A i \in DOMAIN st : i + 1 \in DOMAIN st => Serves(st[i], st[i + 1], H, S, F)
  BY <1>1 DEF Works, Chain
<1>4. st # <<>> => AtTop(st[1], r, H, S, F)  BY <1>1 DEF Works
<1> QED  BY <1>2, <1>3, <1>4 DEF Works, Chain

(* The innermost frame goes on. *)
LEMMA ChainSwap ==
  ASSUME NEW st, NEW f, NEW t, Cons(st, f, t), NEW su, NEW g, Cons(su, g, t), Like(g, f),
         NEW E, NEW S, NEW F, Chain(st, E, S, F), FrameWork(g, E, S, F)
  PROVE  Chain(su, E, S, F)
<1>1. OnPath(g) <=> OnPath(f)  BY DEF OnPath, Like
<1>2. \A h : Serves(f, h, E, S, F) => Serves(g, h, E, S, F)  BY <1>1 DEF Serves, Like
<1> QED  BY <1>2, ChainCons

(* The frame that is done with did what the one below asked for. *)
LEMMA ChainEnd ==
  ASSUME NEW st, NEW f, NEW t, Cons(st, f, t), NEW E, NEW S, NEW F, Chain(st, E, S, F),
         NEW G, F \subseteq G, NEW r, OnPath(f) /\ r # "err" /\ f.forced => f.who \in G
  PROVE  Works(t, r, E, S, G)
<1>1. Chain(t, E, S, G) /\ (t # <<>> => Serves(f, t[1], E, S, F))  BY ChainCons, ChainMore
<1>2. ASSUME t # <<>> PROVE AtTop(t[1], r, E, S, G)
  <2> DEFINE g == t[1]
  <2>1. Serves(f, g, E, S, F)  BY <1>1, <1>2
  <2> HIDE DEF g
  <2>2. Left(g, E, S, G) \subseteq Left(g, E, S, F) /\ Left(g, E, S, G) \cap G = {}  BY DEF Left
  <2>3. "walk" \notin LuaFrames /\ "need" \notin LuaFrames  BY DEF LuaFrames
  <2> HIDE DEF Left
  <2>4. AtTop(g, r, E, S, G)
    <3>1. CASE /\ g.at = "walk" /\ OnPath(f) /\ f.forced = g.forced
               /\ g.forced => Left(g, E, S, F) \subseteq {f.who}
      <4>1. ASSUME g.forced, r # "err" PROVE Left(g, E, S, G) = {}
        <5>1. f.who \in G  BY <3>1, <4>1
        <5>2. Left(g, E, S, F) \subseteq {f.who}  BY <3>1, <4>1
        <5> QED  BY <2>2, <5>1, <5>2
      <4> QED  BY <2>3, <3>1, <4>1 DEF AtTop, Lua
    <3>2. CASE g.at = "body" /\ OnPath(f) /\ f.forced /\ g.wait[2] = f.who
      BY <3>2 DEF AtTop
    <3>3. CASE Lua(g) /\ g.wait[1] = "read"
      BY <2>3, <3>3 DEF AtTop, Lua
    <3>4. CASE g.at = "need"  BY <2>3, <3>4 DEF AtTop, Lua
    <3> QED  BY <2>1, <3>1, <3>2, <3>3, <3>4 DEF Serves
  <2> QED  BY <2>4 DEF g
<1> QED  BY <1>1, <1>2 DEF Works

(* A probe frame, or a finalizer, comes on top. *)
LEMMA ChainAside ==
  ASSUME NEW st, NEW f, NEW t, Cons(st, f, t), NEW E, NEW S, NEW F, Chain(t, E, S, F),
         ~OnPath(f), f.wait = NoCall,
         t # <<>> => t[1].at = "need" \/ (Lua(t[1]) /\ t[1].wait[1] = "read"), NEW r
  PROVE  Works(st, r, E, S, F)
<1>1. FrameWork(f, E, S, F) /\ AtTop(f, r, E, S, F)  BY DEF FrameWork, AtTop, OnPath
<1>2. t # <<>> => Serves(f, t[1], E, S, F)  BY DEF Serves
<1> QED  BY <1>1, <1>2, ChainCons, ConsFirst DEF Works
----------------------------------------------------------------------------
Forced == {n \in Name : visit[n] = "forced"}
Settled == {n \in Name : visit[n] \in {"ran", "forced"}}

(* The innermost visit is over, whichever way. *)
Ends ==
  /\ stack # <<>> /\ OnPath(Top) /\ stack' = Below
  /\ Top.who \in Named /\ Top.who \in Name
  /\ \A n \in Name : n # Top.who => visit'[n] = visit[n]
  /\ visit[Top.who] \in {"ran", "forced"} => visit'[Top.who] \in {visit[Top.who], "forced"}
  /\ ret' \in {"ok", "err"}
  /\ ret' = "ok" /\ Top.forced => visit'[Top.who] = "forced"
  /\ ret' = "ok" => \/ visit'[Top.who] \in {"ran", "forced"}
                    \/ visit'[Top.who] = "skipped" /\ Top.who \notin reach
  /\ visit'[Top.who] = "skipped" => Top.who \notin reach
  /\ PopPath /\ UNCHANGED cycle

(* Of the steps of a visit all but the call of the body end it. *)
LEMMA EndsIs == ASSUME TypeInv, VisitInv, Visiting, ~CallBody PROVE Ends
<1>1. stack # <<>> /\ OnPath(Top)
  BY DEF Visiting, WalkFails, ForceReached, RefuseBody, SkipBody, BodyReturns, BodyFails, WalkDone, At,
         OnPath
<1>2. Cons(stack, Top, Below) /\ FrameOK(Top, Named, DOMAIN probes)  BY <1>1, TopIs
<1>3. Top.who \in Named /\ Top.who \in Name  BY <1>1, <1>2, NamedNames DEF FrameOK, TypeInv
<1>4. FrameVisit(Top, visit, runs)  BY <1>2, VisitedCons DEF VisitInv
<1>5. DOMAIN visit = Name  BY DEF TypeInv, InMarks
<1> DEFINE n == Top.who
<1>6. ASSUME NEW x, visit' = [visit EXCEPT ![n] = x]
      PROVE  visit'[n] = x /\ \A m \in Name : m # n => visit'[m] = visit[m]
  <2> HIDE DEF n
  <2> QED  BY <1>3, <1>5, <1>6 DEF n
<1>7. Visits(Top) => visit[n] = "visiting"  BY <1>4 DEF FrameVisit
<1>8. CASE WalkFails
  <2>1. /\ Top.at = "walk" /\ stack' = Below /\ ret' = "err" /\ PopPath /\ UNCHANGED cycle
        /\ visit' = IF Top.again THEN visit ELSE [visit EXCEPT ![Top.who] = "failed"]
    BY <1>8 DEF WalkFails, At, Return, history
  <2>2. CASE Top.again
    <3>1. visit' = visit /\ visit[n] \in {"ran", "forced"}  BY <1>4, <2>1, <2>2 DEF FrameVisit
    <3> QED  BY <1>1, <1>3, <2>1, <3>1 DEF Ends
  <2>3. CASE ~Top.again
    <3>1. Visits(Top)  BY <2>1, <2>3 DEF Visits
    <3>2. visit'[n] = "failed" /\ \A m \in Name : m # n => visit'[m] = visit[m]
      BY <1>6, <2>1, <2>3
    <3> QED  BY <1>1, <1>3, <1>7, <2>1, <3>1, <3>2 DEF Ends
  <2> QED  BY <2>2, <2>3
<1>9. CASE ForceReached
  <2>1. /\ Top.at = "walk" /\ stack' = Below /\ ret' = "ok" /\ PopPath /\ UNCHANGED cycle
        /\ visit' = [visit EXCEPT ![n] = "forced"]
    BY <1>9 DEF ForceReached, At, Return, history
  <2>2. visit'[n] = "forced" /\ \A m \in Name : m # n => visit'[m] = visit[m]  BY <1>6, <2>1
  <2> QED  BY <1>1, <1>3, <2>1, <2>2 DEF Ends
<1>10. CASE RefuseBody \/ BodyFails
  <2>1. /\ Visits(Top) /\ stack' = Below /\ ret' = "err" /\ PopPath /\ UNCHANGED cycle
        /\ visit' = [visit EXCEPT ![n] = "failed"]
    BY <1>10 DEF RefuseBody, BodyFails, WalkDone, At, Return, history, Visits
  <2>2. visit'[n] = "failed" /\ \A m \in Name : m # n => visit'[m] = visit[m]  BY <1>6, <2>1
  <2> QED  BY <1>1, <1>3, <1>7, <2>1, <2>2 DEF Ends
<1>11. CASE SkipBody
  <2>1. /\ Visits(Top) /\ stack' = Below /\ ret' = "ok" /\ PopPath /\ UNCHANGED cycle
        /\ visit' = [visit EXCEPT ![n] = "skipped"]
        /\ ~Refuses(n, Top.forced) /\ Skips(n, Top.forced)
    BY <1>11 DEF SkipBody, WalkDone, At, Return, history, Visits
  <2>2. visit'[n] = "skipped" /\ \A m \in Name : m # n => visit'[m] = visit[m]  BY <1>6, <2>1
  <2>3. ~Top.forced /\ n \notin reach  BY <2>1 DEF Refuses, Skips, UnfedFanout, Speculative
  <2> QED  BY <1>1, <1>3, <1>7, <2>1, <2>2, <2>3 DEF Ends
<1>12. CASE BodyReturns
  <2> DEFINE x == IF Top.forced THEN "forced" ELSE "ran"
  <2>1. /\ Visits(Top) /\ stack' = Below /\ ret' = "ok" /\ PopPath /\ UNCHANGED cycle
        /\ visit' = [visit EXCEPT ![n] = x]
    BY <1>12 DEF BodyReturns, At, Return, history, Visits
  <2>2. visit'[n] = x /\ \A m \in Name : m # n => visit'[m] = visit[m]  BY <1>6, <2>1
  <2> QED  BY <1>1, <1>3, <1>7, <2>1, <2>2 DEF Ends
<1> QED  BY <1>8, <1>9, <1>10, <1>11, <1>12 DEF Visiting

(* The body called takes the place of the walk. *)
LEMMA CallIs ==
  ASSUME TypeInv, CallBody
  PROVE  /\ stack # <<>> /\ Top.at = "walk" /\ Top.todo = {} /\ ret # "err" /\ ret' = "none"
         /\ UNCHANGED <<visit, path, cycle, names, entry>>
         /\ \E g : /\ stack' = <<g>> \o Below
                   /\ g.at = "body" /\ g.who = Top.who /\ g.forced = Top.forced /\ g.todo = {}
                   /\ g.wait = NoCall /\ g.saved = slot
<1> DEFINE g == BodyOf(Top.who, Top.forced, slot)
<1>1. /\ stack # <<>> /\ Top.at = "walk" /\ Top.todo = {} /\ ret # "err" /\ ret' = "none"
      /\ UNCHANGED <<visit, path, cycle, names, entry>> /\ stack' = <<g>> \o Below
  BY DEF CallBody, WalkDone, At, Ready, SavedSlot, BodyOf, results
<1>2. /\ g.at = "body" /\ g.who = Top.who /\ g.forced = Top.forced /\ g.todo = {}
      /\ g.wait = NoCall /\ g.saved = slot
  BY DEF BodyOf, Frame, NoCall
<1> HIDE DEF g
<1> QED  BY <1>1, <1>2

(* A visit of n is opened over b. *)
Opens(n, forced, b) ==
  /\ path' = Append(path, n) /\ UNCHANGED cycle
  /\ \E f : /\ stack' = <<f>> \o b
            /\ f.at = "walk" /\ f.who = n /\ f.forced = forced /\ f.todo = StaticEdges[n]
            /\ f.wait = NoCall /\ f.saved = NoSlot

(* What ensure_invoked comes to: done, an error, or a visit opened. *)
LEMMA EnterIs ==
  ASSUME TypeInv, NEW n \in Named, NEW forced \in BOOLEAN, NEW b, Enter(n, forced, b)
  PROVE  /\ \A m \in Name : visit'[m] = visit[m]
                              \/ (m = n /\ visit[m] \in {"new", "skipped"} /\ visit'[m] = "visiting")
         /\ \/ stack' = b /\ ret' = "ok" /\ Done(n, forced) /\ UNCHANGED <<path, cycle>>
            \/ stack' = b /\ ret' = "err" /\ visit[n] = "failed" /\ UNCHANGED <<path, cycle>>
            \/ /\ stack' = b /\ ret' = "err" /\ visit[n] = "visiting" /\ path' = path
               /\ cycle' = ReportCycle(n, b)
            \/ Opens(n, forced, b) /\ ret' = "none"
<1>1. n \in Name /\ StaticEdges[n] = DeclOf(n).requires  BY DeclIs DEF TypeInv
<1>2. DOMAIN visit = Name  BY DEF TypeInv, InMarks
<1>3. CASE stack' = b /\ visit' = visit  BY <1>3 DEF Enter, PushDown
<1>4. CASE ~Done(n, forced) /\ visit[n] = "ran" /\ PushDown(n, b)
  <2> DEFINE f == Frame("walk", n, TRUE, TRUE, DeclOf(n).requires)
  <2>1. stack' = <<f>> \o b /\ visit' = visit /\ path' = Append(path, n) /\ UNCHANGED cycle /\ ret' = "none"
    BY <1>4 DEF PushDown
  <2>2. /\ f.at = "walk" /\ f.who = n /\ f.forced = TRUE /\ f.todo = DeclOf(n).requires
        /\ f.wait = NoCall /\ f.saved = NoSlot
    BY DEF Frame, NoCall
  <2>3. forced = TRUE  BY <1>4 DEF Done
  <2> HIDE DEF f
  <2> QED  BY <1>1, <2>1, <2>2, <2>3 DEF Opens
<1>5. CASE /\ visit[n] \in {"new", "skipped"} /\ visit' = [visit EXCEPT ![n] = "visiting"]
           /\ path' = Append(path, n) /\ UNCHANGED cycle /\ ret' = "none"
           /\ stack' = <<Frame("walk", n, forced, FALSE, DeclOf(n).requires)>> \o b
  <2> DEFINE f == Frame("walk", n, forced, FALSE, DeclOf(n).requires)
  <2>1. stack' = <<f>> \o b  BY <1>5
  <2>2. /\ f.at = "walk" /\ f.who = n /\ f.forced = forced /\ f.todo = DeclOf(n).requires
        /\ f.wait = NoCall /\ f.saved = NoSlot
    BY DEF Frame, NoCall
  <2> HIDE DEF f
  <2>3. \A m \in Name : visit'[m] = visit[m] \/ (m = n /\ visit[m] \in {"new", "skipped"} /\ visit'[m] = "visiting")
    BY <1>1, <1>2, <1>5
  <2> QED  BY <1>1, <1>5, <2>1, <2>2, <2>3 DEF Opens
<1> QED  BY <1>3, <1>4, <1>5 DEF Enter

(* What is forced, and what ran, stays so. *)
LEMMA MarksGrow ==
  ASSUME TypeInv, VisitInv, [Next]_vars PROVE Forced \subseteq Forced' /\ Settled \subseteq Settled'
<1>1. Moves  BY StepMoves
<1>2. CASE visit' = visit  BY <1>2 DEF Forced, Settled
<1>3. CASE Rests \/ Goes \/ Reads \/ Leaves \/ Produces \/ Finalizes
  BY <1>2, <1>3 DEF Rests, Goes, Reads, Leaves, Produces, Finalizes, record
<1>4. CASE Enters
  <2>1. PICK n \in Named, forced \in BOOLEAN : \E b : Enter(n, forced, b)  BY <1>4 DEF Enters
  <2>2. PICK b : Enter(n, forced, b)  BY <2>1
  <2>3. \A m \in Name : visit'[m] = visit[m] \/ visit[m] \in {"new", "skipped"}  BY <2>2, EnterIs
  <2> QED  BY <2>3 DEF Forced, Settled
<1>5. CASE Visiting /\ ~CallBody
  <2>1. Ends  BY <1>5, EndsIs
  <2> QED  BY <2>1 DEF Ends, Forced, Settled
<1>6. CASE CallBody  BY <1>2, <1>6 DEF CallBody
<1> QED  BY <1>1, <1>3, <1>4, <1>5, <1>6 DEF Moves

(* The static requires of a name declared stay what they are. *)
LEMMA EdgesStay ==
  ASSUME TypeInv, [Next]_vars
  PROVE  /\ Sorted' = Sorted /\ Sorted \subseteq Named /\ file' = file
         /\ \A n \in Named : n \in Named' /\ StaticEdges'[n] = StaticEdges[n]
<1>1. /\ InData /\ InData' /\ file' = file
      /\ \A n \in Named : n \in Named' /\ DeclOf(n)' = DeclOf(n)
  <2>1. /\ InData' /\ Named \subseteq Named' /\ DOMAIN probes \subseteq DOMAIN probes'
        /\ \A n \in Named : DeclOf(n)' = DeclOf(n)
        /\ file' = file
    BY DataNext
  <2>2. InData  BY DEF TypeInv
  <2> QED  BY <2>1, <2>2
<1>2. ASSUME NEW n \in Named PROVE StaticEdges'[n] = StaticEdges[n]
  <2>1. n \in Named' /\ DeclOf(n)' = DeclOf(n)  BY <1>1
  <2>2. StaticEdges[n] = DeclOf(n).requires  BY <1>1, DeclIs
  <2>3. StaticEdges'[n] = DeclOf(n)'.requires  BY <2>1 DEF StaticEdges, Named
  <2> QED  BY <2>1, <2>2, <2>3
<1>3. Sorted' = Sorted  BY <1>1 DEF Sorted
<1> QED  BY <1>1, <1>2, <1>3, SortedNamed
----------------------------------------------------------------------------
WorkInv == Works(stack, ret, StaticEdges, Sorted, Forced)

(* The innermost frame, a require of it passed over: nothing is left more.   *)
LEMMA WorkGoes ==
  ASSUME NEW f, NEW g, Like(g, f), NEW E, NEW S, NEW F, FrameWork(f, E, S, F),
         g.todo = f.todo \/ ~OnPath(f) \/ \E d : d \notin S /\ g.todo = f.todo \ {d}
  PROVE  FrameWork(g, E, S, F) /\ (OnPath(f) => Left(g, E, S, F) = Left(f, E, S, F))
<1>1. OnPath(f) => g.todo \subseteq f.todo  OBVIOUS
<1>2. OnPath(f) => Left(g, E, S, F) = Left(f, E, S, F)  BY DEF Left, Like
<1>3. f.at = "walk" \/ f.at = "body" => OnPath(f)  BY DEF OnPath
<1>4. g.at = f.at /\ g.who = f.who /\ g.forced = f.forced  BY DEF Like
<1> HIDE DEF Left
<1>5. FrameWork(g, E, S, F)
  <2>1. g.at = "walk" => g.todo \subseteq E[g.who]  BY <1>1, <1>3, <1>4 DEF FrameWork
  <2>2. g.at = "body" /\ g.forced => Left(g, E, S, F) = {}  BY <1>2, <1>3, <1>4 DEF FrameWork
  <2>3. g.at = "body" => g.todo = {}  BY <1>1, <1>3, <1>4 DEF FrameWork
  <2> QED  BY <2>1, <2>2, <2>3 DEF FrameWork
<1> QED  BY <1>2, <1>5

(* A visit ends, or its body is called: the frame below got what it asked    *)
(* for.                                                                      *)
LEMMA WorksVisit ==
  ASSUME TypeInv, VisitInv, WorkInv, Visiting, Forced \subseteq Forced'
  PROVE  Works(stack', ret', StaticEdges, Sorted, Forced')
<1> DEFINE E == StaticEdges
           S == Sorted
           F == Forced
           G == Forced'
<1>0. Works(stack, ret, E, S, F) /\ F \subseteq G  BY DEF WorkInv
<1>1. CASE ~CallBody
  <2>1. Ends  BY <1>1, EndsIs
  <2>2. Cons(stack, Top, Below)  BY <2>1, TopIs DEF Ends
  <2>3. ret' # "err" /\ Top.forced => Top.who \in G  BY <2>1 DEF Ends, Forced
  <2>4. stack' = Below  BY <2>1 DEF Ends
  <2>5. Chain(stack, E, S, F)  BY <1>0 DEF Works
  <2> DEFINE r == ret'
  <2> HIDE DEF E, S, F, G, Top, Below, r
  <2>6. Works(Below, r, E, S, G)
    <3>1. r # "err" /\ Top.forced => Top.who \in G  BY <2>3 DEF r
    <3> QED  BY <1>0, <2>2, <2>5, <3>1, ChainEnd
  <2> QED  BY <2>4, <2>6 DEF r, E, S, G
<1>2. CASE CallBody
  <2>1. /\ stack # <<>> /\ Top.at = "walk" /\ Top.todo = {} /\ ret # "err"
        /\ \E g : /\ stack' = <<g>> \o Below
                  /\ g.at = "body" /\ g.who = Top.who /\ g.forced = Top.forced /\ g.todo = {}
                  /\ g.wait = NoCall
    BY <1>2, CallIs
  <2>2. PICK g : /\ stack' = <<g>> \o Below
                 /\ g.at = "body" /\ g.who = Top.who /\ g.forced = Top.forced /\ g.todo = {}
                 /\ g.wait = NoCall
    BY <2>1
  <2>3. Cons(stack, Top, Below) /\ IsSeq(Below)  BY <2>1, TopIs
  <2>4. Cons(<<g>> \o Below, g, Below)  BY <2>3, ConsSeq
  <2>5. Chain(stack, E, S, F) /\ stack[1] = Top /\ AtTop(Top, ret, E, S, F)
    BY <1>0, <2>3, ConsFirst DEF Works
  <2> DEFINE r == ret'
  <2> HIDE DEF E, S, F, G, Top, Below, r
  <2>6. /\ Chain(Below, E, S, F)
        /\ Below # <<>> => Serves(Top, Below[1], E, S, F)
    BY <2>3, <2>5, ChainCons
  <2>7. FrameWork(g, E, S, F)
    <3>1. Top.forced => Left(Top, E, S, F) = {}  BY <2>1, <2>5 DEF AtTop
    <3>2. Left(g, E, S, F) = Left(Top, E, S, F)  BY <2>1, <2>2 DEF Left
    <3> QED  BY <2>2, <3>1, <3>2 DEF FrameWork
  <2>8. Below # <<>> => Serves(g, Below[1], E, S, F)
    <3>1. OnPath(g) /\ OnPath(Top)  BY <2>1, <2>2 DEF OnPath
    <3> QED  BY <2>2, <2>6, <3>1 DEF Serves
  <2>9. Chain(<<g>> \o Below, E, S, G)  BY <1>0, <2>4, <2>6, <2>7, <2>8, ChainCons, ChainMore
  <2>10. (<<g>> \o Below)[1] = g  BY <2>4, ConsFirst
  <2>11. AtTop(g, r, E, S, G)  BY <2>2 DEF AtTop
  <2> QED  BY <2>2, <2>9, <2>10, <2>11 DEF Works, r, E, S, G
<1> QED  BY <1>1, <1>2

(* A visit is asked for, by the frame g of which b is the stack. *)
Asks(g, n, forced, b) ==
  /\ GoesOn(g) /\ b = <<g>> \o Below
  /\ \/ g.at = "walk" /\ n \in Top.todo /\ g.todo = Top.todo \ {n} /\ forced = g.forced
     \/ /\ g.at = "body" /\ g.wait # NoCall /\ g.wait[1] # "read" /\ g.wait[2] = n /\ forced
        /\ g.todo = Top.todo

(* A visit is asked for: what the frame that asks is owed is on top of it. *)
LEMMA WorksOpen ==
  ASSUME TypeInv, WorkInv, NEW n \in Named, NEW forced \in BOOLEAN, NEW b, Enter(n, forced, b),
         ret # "err", NEW g, Asks(g, n, forced, b)
  PROVE  Works(stack', ret', StaticEdges, Sorted, Forced)
<1> DEFINE E == StaticEdges
           S == Sorted
           F == Forced
           r == ret'
<1>1. /\ Cons(stack, Top, Below) /\ Cons(b, g, Below) /\ IsSeq(b) /\ Like(g, Top)
  BY GoneOn DEF Asks
<1>2. Chain(stack, E, S, F) /\ AtTop(Top, ret, E, S, F)
  BY <1>1, ConsFirst DEF WorkInv, Works
<1>3. n \in Name  BY NamedNames DEF TypeInv
<1>4. Done(n, forced) /\ forced => n \in F  BY <1>3 DEF Done, Forced
<1>5. \/ stack' = b /\ r = "ok" /\ Done(n, forced)
      \/ stack' = b /\ r = "err"
      \/ Opens(n, forced, b) /\ r = "none"
  <2>1. /\ \A m \in Name : visit'[m] = visit[m]
                              \/ (m = n /\ visit[m] \in {"new", "skipped"} /\ visit'[m] = "visiting")
        /\ \/ stack' = b /\ ret' = "ok" /\ Done(n, forced) /\ UNCHANGED <<path, cycle>>
           \/ stack' = b /\ ret' = "err" /\ visit[n] = "failed" /\ UNCHANGED <<path, cycle>>
           \/ /\ stack' = b /\ ret' = "err" /\ visit[n] = "visiting" /\ path' = path
              /\ cycle' = ReportCycle(n, b)
           \/ Opens(n, forced, b) /\ ret' = "none"
    BY EnterIs
  <2> QED  BY <2>1
<1>5a. \/ g.at = "walk" /\ n \in Top.todo /\ g.todo = Top.todo \ {n} /\ forced = g.forced
       \/ /\ g.at = "body" /\ g.wait # NoCall /\ g.wait[1] # "read" /\ g.wait[2] = n /\ forced
          /\ g.todo = Top.todo
  BY DEF Asks
<1>6. Opens(n, forced, b) => \E f : /\ stack' = <<f>> \o b
                                    /\ f.at = "walk" /\ f.who = n /\ f.forced = forced /\ f.todo = E[n]
                                    /\ f.wait = NoCall
  BY DEF Opens
<1> HIDE DEF E, S, F, r, Top, Below
<1>7. FrameWork(Top, E, S, F)  BY <1>1, <1>2, ChainCons
<1>8. Top.forced /\ Top.at = "walk" => Left(Top, E, S, F) = {}  BY <1>2 DEF AtTop
<1>9. Left(g, E, S, F) \subseteq Left(Top, E, S, F) \cup {n}  BY <1>1, <1>5a DEF Left, Like
<1>10. g.at = "body" => Left(g, E, S, F) = Left(Top, E, S, F)  BY <1>1, <1>5a DEF Left, Like
<1>11. FrameWork(g, E, S, F)
  <2>1. g.at = Top.at /\ g.who = Top.who /\ g.forced = Top.forced  BY <1>1 DEF Like
  <2>2. g.todo \subseteq Top.todo  BY <1>5a
  <2>3. g.at = "walk" => g.todo \subseteq E[g.who]  BY <1>7, <2>1, <2>2 DEF FrameWork
  <2>4. g.at = "body" => g.todo = {}  BY <1>7, <2>1, <2>2 DEF FrameWork
  <2>5. g.at = "body" /\ g.forced => Left(g, E, S, F) = {}  BY <1>7, <1>10, <2>1 DEF FrameWork
  <2> QED  BY <2>3, <2>4, <2>5 DEF FrameWork
<1>12. Chain(b, E, S, F)  BY <1>1, <1>2, <1>11, ChainSwap
<1>13. b # <<>> /\ b[1] = g  BY <1>1, ConsFirst
<1>14. g.at = "walk" => ~Lua(g)  BY DEF Lua, LuaFrames
<1>15. g.at = "walk" /\ g.forced => Left(g, E, S, F) \subseteq {n}  BY <1>1, <1>8, <1>9, <1>5a DEF Like
<1>16. CASE stack' = b /\ r = "ok" /\ Done(n, forced)
  <2>1. AtTop(g, r, E, S, F)
    <3>1. n \in F => n \notin Left(g, E, S, F)  BY DEF Left
    <3>2. g.at = "walk" /\ g.forced => Left(g, E, S, F) = {}  BY <1>4, <1>15, <1>16, <1>5a, <3>1
    <3>3. g.at = "body" => g.wait[2] \in F  BY <1>4, <1>16, <1>5a
    <3>4. g.at \in {"walk", "body"}  BY <1>5a
    <3> QED  BY <1>14, <3>2, <3>3, <3>4 DEF AtTop
  <2> QED  BY <1>12, <1>13, <1>16, <2>1 DEF Works, r, E, S, F
<1>17. CASE stack' = b /\ r = "err"
  <2>1. AtTop(g, r, E, S, F)  BY <1>17 DEF AtTop
  <2> QED  BY <1>12, <1>13, <1>17, <2>1 DEF Works, r, E, S, F
<1>18. CASE Opens(n, forced, b) /\ r = "none"
  <2>1. PICK f : /\ stack' = <<f>> \o b
                 /\ f.at = "walk" /\ f.who = n /\ f.forced = forced /\ f.todo = E[n]
                 /\ f.wait = NoCall
    BY <1>6, <1>18
  <2>2. Cons(<<f>> \o b, f, b)  BY <1>1, ConsSeq
  <2>3. FrameWork(f, E, S, F)  BY <2>1 DEF FrameWork
  <2>4. Left(f, E, S, F) = {}  BY <2>1 DEF Left
  <2>5. AtTop(f, r, E, S, F)  BY <2>1, <2>4 DEF AtTop
  <2>6. Serves(f, g, E, S, F)
    <3>1. OnPath(f)  BY <2>1 DEF OnPath
    <3>2. g.at = "walk" => n \in E[g.who]  BY <1>1, <1>7, <1>5a DEF FrameWork, Like
    <3> QED  BY <1>15, <1>5a, <2>1, <3>1, <3>2 DEF Serves
  <2>7. Chain(<<f>> \o b, E, S, F)
    <3>1. b # <<>> => Serves(f, b[1], E, S, F)  BY <1>13, <2>6
    <3> DEFINE su == <<f>> \o b
    <3>2. Cons(su, f, b)  BY <2>2
    <3> HIDE DEF su
    <3>3. Chain(su, E, S, F)  BY <1>12, <2>3, <3>1, <3>2, ChainCons
    <3> QED  BY <3>3 DEF su
  <2>8. (<<f>> \o b)[1] = f  BY <2>2, ConsFirst
  <2> QED  BY <2>1, <2>5, <2>7, <2>8 DEF Works, r, E, S, F
<1> QED  BY <1>5, <1>16, <1>17, <1>18
----------------------------------------------------------------------------
(* A visit asked for by the seed loop. *)
LEMMA WorksSeed ==
  ASSUME TypeInv, NEW n \in Named, NEW forced \in BOOLEAN, Enter(n, forced, <<>>)
  PROVE  Works(stack', ret', StaticEdges, Sorted, Forced)
<1> DEFINE E == StaticEdges
           S == Sorted
           F == Forced
           r == ret'
           b == <<>>
<1>1. /\ \A m \in Name : visit'[m] = visit[m]
                           \/ (m = n /\ visit[m] \in {"new", "skipped"} /\ visit'[m] = "visiting")
      /\ \/ stack' = b /\ ret' = "ok" /\ Done(n, forced) /\ UNCHANGED <<path, cycle>>
         \/ stack' = b /\ ret' = "err" /\ visit[n] = "failed" /\ UNCHANGED <<path, cycle>>
         \/ /\ stack' = b /\ ret' = "err" /\ visit[n] = "visiting" /\ path' = path
            /\ cycle' = ReportCycle(n, b)
         \/ Opens(n, forced, b) /\ ret' = "none"
  <2>1. Enter(n, forced, b)  OBVIOUS
  <2> HIDE DEF b
  <2> QED  BY <2>1, EnterIs
<1>2. CASE stack' = <<>>
  <2>1. Chain(<<>>, E, S, F)  BY ChainNil
  <2> HIDE DEF E, S, F
  <2> QED  BY <1>2, <2>1 DEF Works, E, S, F
<1>3. CASE Opens(n, forced, b)
  <2>1. PICK f : /\ stack' = <<f>> \o b
                 /\ f.at = "walk" /\ f.who = n /\ f.todo = E[n] /\ f.wait = NoCall
    BY <1>3 DEF Opens
  <2>2. stack' = <<f>> /\ Cons(<<f>>, f, <<>>)  BY <2>1, ConsOne
  <2> HIDE DEF E, S, F, r
  <2>3. FrameWork(f, E, S, F)  BY <2>1 DEF FrameWork
  <2>4. Left(f, E, S, F) = {}  BY <2>1 DEF Left
  <2>5. AtTop(f, r, E, S, F)  BY <2>1, <2>4 DEF AtTop
  <2>6. Chain(<<f>>, E, S, F)
    <3> DEFINE t == <<>>
    <3>1. Chain(t, E, S, F) /\ Cons(<<f>>, f, t) /\ ~(t # <<>>)  BY <2>2, ChainNil
    <3> HIDE DEF t
    <3> QED  BY <2>3, <3>1, ChainCons
  <2> QED  BY <2>2, <2>5, <2>6 DEF Works, r, E, S, F
<1> QED  BY <1>1, <1>2, <1>3

(* Every step leaves the frames working for one another, *)
LEMMA WorksMove ==
  ASSUME TypeInv, VisitInv, WorkInv, [Next]_vars
  PROVE  Works(stack', ret', StaticEdges, Sorted, Forced')
<1> DEFINE E == StaticEdges
           S == Sorted
           F == Forced
           r == ret'
           rr == ret
<1>0. /\ Works(stack, rr, E, S, F)
      /\ Moves /\ Forced \subseteq Forced' /\ Sorted \subseteq Named
  BY StepMoves, MarksGrow, EdgesStay DEF WorkInv
<1>1. visit' = visit => Forced' = F  BY DEF Forced
<1>2. stack # <<>> => /\ Cons(stack, Top, Below) /\ IsSeq(Below)
                      /\ FrameWork(Top, E, S, F) /\ AtTop(Top, rr, E, S, F)
                      /\ Chain(stack, E, S, F) /\ Chain(Below, E, S, F)
                      /\ Below # <<>> => Serves(Top, Below[1], E, S, F)
  <2> SUFFICES ASSUME stack # <<>>
               PROVE  /\ Cons(stack, Top, Below) /\ IsSeq(Below)
                      /\ FrameWork(Top, E, S, F) /\ AtTop(Top, rr, E, S, F)
                      /\ Chain(stack, E, S, F) /\ Chain(Below, E, S, F)
                      /\ Below # <<>> => Serves(Top, Below[1], E, S, F)
    OBVIOUS
  <2>1. Cons(stack, Top, Below) /\ IsSeq(Below)  BY TopIs
  <2> HIDE DEF E, S, F, rr, Top, Below
  <2>2. Chain(stack, E, S, F) /\ AtTop(Top, rr, E, S, F)  BY <1>0, <2>1, ConsFirst DEF Works
  <2> QED  BY <2>1, <2>2, ChainCons
<1>3. CASE Rests
  <2>1. /\ stack' = stack /\ Forced' = F
        /\ stack = <<>> \/ (Top.wait = NoCall /\ ret # "err" /\ Lua(Top)) \/ r = rr
    BY <1>1, <1>3 DEF Rests, record
  <2>2. stack # <<>> => stack[1] = Top  BY <1>2, ConsFirst
  <2>3. Lua(Top) => Top.at # "walk"  BY DEF Lua, LuaFrames
  <2> HIDE DEF E, S, F, r, rr, Top, Below
  <2>4. stack # <<>> => AtTop(Top, r, E, S, F)  BY <1>2, <2>1, <2>3 DEF AtTop
  <2>5. Works(stack, r, E, S, F)  BY <1>0, <2>2, <2>4 DEF Works
  <2> QED  BY <2>1, <2>5 DEF E, S, F, r
<1>4. ASSUME NEW g, GoesOn(g), g.todo = Top.todo \/ ~OnPath(Top) \/ \E d : d \notin Named /\ g.todo = Top.todo \ {d}
      PROVE  /\ Cons(<<g>> \o Below, g, Below) /\ IsSeq(<<g>> \o Below) /\ Like(g, Top)
             /\ Chain(<<g>> \o Below, E, S, F) /\ (<<g>> \o Below)[1] = g /\ (<<g>> \o Below) # <<>>
             /\ OnPath(Top) => Left(g, E, S, F) = Left(Top, E, S, F)
  <2>1. Cons(<<g>> \o Below, g, Below) /\ Like(g, Top) /\ IsSeq(<<g>> \o Below) /\ stack # <<>>
    BY <1>4, GoneOn DEF GoesOn
  <2>2. g.todo = Top.todo \/ ~OnPath(Top) \/ \E d : d \notin S /\ g.todo = Top.todo \ {d}
    BY <1>0, <1>4
  <2>3. (<<g>> \o Below)[1] = g /\ (<<g>> \o Below) # <<>>  BY <2>1, ConsFirst
  <2> DEFINE b == <<g>> \o Below
  <2>4. Cons(b, g, Below)  BY <2>1
  <2> HIDE DEF E, S, F, r, rr, Top, Below, b
  <2>5. FrameWork(g, E, S, F) /\ (OnPath(Top) => Left(g, E, S, F) = Left(Top, E, S, F))
    BY <1>2, <2>1, <2>2, WorkGoes
  <2>6. Chain(b, E, S, F)  BY <1>2, <2>1, <2>4, <2>5, ChainSwap
  <2> QED  BY <2>1, <2>3, <2>5, <2>6 DEF b
<1>5. CASE Goes
  <2>1. PICK g : /\ GoesOn(g) /\ stack' = <<g>> \o Below
                 /\ g.todo = Top.todo \/ ~OnPath(Top) \/ \E d : d \notin Named /\ g.todo = Top.todo \ {d}
                 /\ ~Lua(g) \/ g.wait = NoCall \/ g.wait[1] = "read" \/ ret' = "err"
                 /\ Top.at = "walk" => ret # "err" /\ ret' # "err"
    BY <1>5 DEF Goes
  <2>2. /\ Chain(<<g>> \o Below, E, S, F) /\ (<<g>> \o Below)[1] = g /\ Like(g, Top)
        /\ OnPath(Top) => Left(g, E, S, F) = Left(Top, E, S, F)
    BY <1>4, <2>1
  <2>3. stack # <<>> /\ AtTop(Top, rr, E, S, F)  BY <1>2, <2>1 DEF GoesOn
  <2>4. Forced' = F  BY <1>1, <1>5 DEF Goes, record
  <2>5. ~Lua(g) \/ g.wait = NoCall \/ g.wait[1] = "read" \/ r = "err"  BY <2>1
  <2>6. Top.at = "walk" => rr # "err" /\ OnPath(Top)  BY <2>1 DEF OnPath
  <2> HIDE DEF E, S, F, r, rr, Top, Below
  <2>7. AtTop(g, r, E, S, F)
    <3>1. g.at = Top.at /\ g.forced = Top.forced  BY <2>2 DEF Like
    <3>2. g.at = "walk" /\ g.forced => Left(g, E, S, F) = {}  BY <2>2, <2>3, <2>6, <3>1 DEF AtTop
    <3> QED  BY <2>5, <3>2 DEF AtTop
  <2>8. Works(<<g>> \o Below, r, E, S, F)  BY <2>2, <2>7 DEF Works
  <2> QED  BY <2>1, <2>4, <2>8 DEF E, S, F, r
<1>6. CASE Reads
  <2>1. PICK f, b : /\ stack' = <<f>> \o b /\ f.at = "need" /\ f.wait = NoCall
                    /\ \/ stack = <<>> /\ b = <<>>
                       \/ \E g : /\ GoesOn(g) /\ b = <<g>> \o Below
                                 /\ g.at = "need" \/ (Lua(g) /\ g.wait[1] = "read")
                                 /\ g.todo = Top.todo \/ ~OnPath(Top)
    BY <1>6 DEF Reads
  <2>2. Forced' = F  BY <1>1, <1>6 DEF Reads, record
  <2>3. /\ IsSeq(b) /\ Chain(b, E, S, F)
        /\ b # <<>> => b[1].at = "need" \/ (Lua(b[1]) /\ b[1].wait[1] = "read")
    <3>1. CASE stack = <<>> /\ b = <<>>
      <4>1. IsSeq(<<>>) /\ Chain(<<>>, E, S, F)  BY ChainNil, EmptySeq DEF IsSeq
      <4> QED  BY <3>1, <4>1
    <3>2. CASE \E g : /\ GoesOn(g) /\ b = <<g>> \o Below
                      /\ g.at = "need" \/ (Lua(g) /\ g.wait[1] = "read")
                      /\ g.todo = Top.todo \/ ~OnPath(Top)
      <4>1. PICK g : /\ GoesOn(g) /\ b = <<g>> \o Below
                     /\ g.at = "need" \/ (Lua(g) /\ g.wait[1] = "read")
                     /\ g.todo = Top.todo \/ ~OnPath(Top)
        BY <3>2
      <4>2. IsSeq(<<g>> \o Below) /\ Chain(<<g>> \o Below, E, S, F) /\ (<<g>> \o Below)[1] = g
        BY <1>4, <4>1
      <4> QED  BY <4>1, <4>2
    <3> QED  BY <2>1, <3>1, <3>2
  <2>4. Cons(<<f>> \o b, f, b) /\ ~OnPath(f)  BY <2>1, <2>3, ConsSeq DEF OnPath
  <2> DEFINE su == <<f>> \o b
  <2>5. Cons(su, f, b) /\ stack' = su  BY <2>1, <2>4
  <2> HIDE DEF E, S, F, r, rr, Top, Below, su
  <2>6. Works(su, r, E, S, F)  BY <2>1, <2>3, <2>4, <2>5, ChainAside
  <2> QED  BY <2>2, <2>5, <2>6 DEF E, S, F, r
<1>7. CASE Enters
  <2>1. PICK n \in Named, forced \in BOOLEAN :
          \E b : /\ Enter(n, forced, b)
                 /\ (stack = <<>> /\ b = <<>>) \/ \E g : Asks(g, n, forced, b)
    BY <1>7 DEF Enters, Asks
  <2>2. PICK b : /\ Enter(n, forced, b)
                 /\ (stack = <<>> /\ b = <<>>) \/ \E g : Asks(g, n, forced, b)
    BY <2>1
  <2>3. ret # "err"  BY <1>7 DEF Enters
  <2>4. Works(stack', ret', StaticEdges, Sorted, Forced)
    BY <2>2, <2>3, WorksSeed, WorksOpen
  <2> DEFINE G == Forced'
  <2>5. Forced \subseteq G  BY <1>0
  <2>6. Works(stack', r, E, S, G)
    <3>1. Works(stack', r, E, S, F)  BY <2>4
    <3>2. F \subseteq G  BY <2>5
    <3> HIDE DEF E, S, F, G, r
    <3>3. Chain(stack', E, S, F)  BY <3>1 DEF Works
    <3>4. Chain(stack', E, S, G)  BY <3>2, <3>3, ChainMore
    <3>5. \A f : AtTop(f, r, E, S, F) => AtTop(f, r, E, S, G)
      <4>1. \A f : Left(f, E, S, G) \subseteq Left(f, E, S, F)  BY <3>2 DEF Left
      <4> HIDE DEF Left
      <4> QED  BY <3>2, <4>1 DEF AtTop
    <3> QED  BY <3>1, <3>4, <3>5 DEF Works
  <2> QED  BY <2>6
<1>8. CASE Leaves
  <2>1. stack # <<>> /\ stack' = Below /\ ~OnPath(Top) /\ Forced' = F
    BY <1>1, <1>8 DEF Leaves, record
  <2> HIDE DEF E, S, F, r, rr, Top, Below
  <2>2. Works(Below, r, E, S, F)  BY <1>2, <2>1, ChainEnd
  <2> QED  BY <2>1, <2>2 DEF E, S, F, r
<1>9. CASE Produces
  <2>1. PICK f : stack # <<>> /\ Top.at = "need" /\ stack' = <<f>> \o Below /\ f.at = "produce" /\ f.wait = NoCall
    BY <1>9 DEF Produces
  <2>2. Forced' = F  BY <1>1, <1>9 DEF Produces, record
  <2>3. Cons(<<f>> \o Below, f, Below) /\ ~OnPath(f) /\ ~OnPath(Top)
    BY <1>2, <2>1, ConsSeq DEF OnPath
  <2> HIDE DEF E, S, F, r, rr, Top, Below
  <2>4. Below # <<>> => Below[1].at = "need" \/ (Lua(Below[1]) /\ Below[1].wait[1] = "read")
    BY <1>2, <2>1, <2>3 DEF Serves
  <2>5. Chain(Below, E, S, F)  BY <1>2, <2>1
  <2> DEFINE su == <<f>> \o Below
  <2>6. Cons(su, f, Below) /\ stack' = su  BY <2>1, <2>3
  <2> HIDE DEF su
  <2>7. Works(su, r, E, S, F)  BY <2>1, <2>3, <2>4, <2>5, <2>6, ChainAside
  <2> QED  BY <2>2, <2>6, <2>7 DEF E, S, F, r
<1>10. CASE Finalizes
  <2>1. PICK f : stack' = <<f>> /\ f.at = "callback" /\ f.wait = NoCall  BY <1>10 DEF Finalizes
  <2>2. Forced' = F  BY <1>1, <1>10 DEF Finalizes, record
  <2>3. Cons(<<f>>, f, <<>>) /\ ~OnPath(f)  BY <2>1, ConsOne DEF OnPath
  <2> DEFINE t == <<>>
             su == <<f>>
  <2>4. Cons(su, f, t) /\ Chain(t, E, S, F) /\ ~(t # <<>>) /\ stack' = su  BY <2>1, <2>3, ChainNil
  <2> HIDE DEF E, S, F, r, rr, Top, Below, su, t
  <2>5. Works(su, r, E, S, F)  BY <2>1, <2>3, <2>4, ChainAside
  <2> QED  BY <2>2, <2>4, <2>5 DEF E, S, F, r
<1>11. CASE Visiting  BY <1>0, <1>11, WorksVisit
<1> QED  BY <1>0, <1>3, <1>5, <1>6, <1>7, <1>8, <1>9, <1>10, <1>11 DEF Moves

(* A recipe is registered late by a call that leaves the stack alone. *)
LEMMA RecipesOrStack == ASSUME [Next]_vars PROVE recipes' = recipes \/ stack' = stack
<1>1. CASE LuaCall
  <2>1. CASE CallRecipe  BY <2>1 DEF CallRecipe
  <2>2. CASE ~CallRecipe
    BY <1>1, <2>2
    DEF LuaCall, CallExec, CallAddUnit, CallExport, CallDepOutput, CallProbe, CallOnComplete,
        CallStepGroup, CallRead, LuaRaises, CallRequire, CallImport, CallDepOrder, Forces, Writes, registry
  <2> QED  BY <2>1, <2>2
<1>2. CASE LuaStep
  BY <1>2 DEF LuaStep, GroupForces, CallReturns, CallRaises, GroupEnds, registry
<1>3. CASE DriverStep
  BY <1>3
  DEF DriverStep, WalkDep, WalkFails, ForceReached, RefuseBody, SkipBody, CallBody, BodyReturns,
      BodyFails, NeedNext, NeedFails, NeedDone, ProduceEnds, registry
<1>4. CASE PassStep
  BY <1>4
  DEF PassStep, Load, LoadFails, Stops, Prepass, PrepassDone, PassFails, Seed, SeedsDone, Close,
      CloseFails, CallFinalizer, FinalizerEnds, Finish, FinishFails, registry
<1>5. CASE UNCHANGED vars  BY <1>5 DEF vars, registry
<1> QED  BY <1>1, <1>2, <1>3, <1>4, <1>5 DEF Next

(* also when the names declared have become more. *)
LEMMA WorkNext == ASSUME TypeInv, VisitInv, WorkInv, [Next]_vars PROVE WorkInv'
<1>1. Works(stack', ret', StaticEdges, Sorted, Forced')  BY WorksMove
<1>2. /\ Sorted' = Sorted /\ Sorted \subseteq Named /\ file' = file
      /\ \A n \in Named : n \in Named' /\ StaticEdges'[n] = StaticEdges[n]
  BY EdgesStay
<1>3. IsSeq(stack')
  <2>1. TypeInv'  BY TypeNext
  <2> QED  BY <2>1 DEF TypeInv, InStack, Stacked
<1>4. 1 \in DOMAIN stack' \/ stack' = <<>>
  <2> DEFINE st == stack'
  <2>1. IsSeq(st)  BY <1>3
  <2> HIDE DEF st
  <2>2. Len(st) \in Nat /\ DOMAIN st = 1 .. Len(st) /\ (st # <<>> <=> Len(st) > 0)  BY <2>1, SeqHas
  <2>3. 1 \in DOMAIN st \/ st = <<>>  BY <2>2
  <2> QED  BY <2>3 DEF st
<1>5. ASSUME NEW i \in DOMAIN stack', OnPath(stack'[i])
      PROVE  StaticEdges'[stack'[i].who] = StaticEdges[stack'[i].who]
  <2>1. CASE recipes' = recipes
    <3>1. StaticEdges' = StaticEdges  BY <2>1 DEF StaticEdges, DeclOf
    <3> QED  BY <3>1
  <2>2. CASE stack' = stack
    <3>1. FrameOK(stack[i], Named, DOMAIN probes)  BY <1>5, <2>2 DEF TypeInv, InStack, Stacked
    <3>2. stack[i].who \in Named  BY <3>1, <1>5, <2>2 DEF FrameOK
    <3> QED  BY <1>2, <2>2, <3>2
  <2> QED  BY <2>1, <2>2, RecipesOrStack
<1> DEFINE st == stack'
           r == ret'
           E == StaticEdges
           H == StaticEdges'
           S == Sorted
           F == Forced'
<1>6. /\ Works(st, r, E, S, F)
      /\ 1 \in DOMAIN st \/ st = <<>>
      /\ \A i \in DOMAIN st : OnPath(st[i]) => H[st[i].who] = E[st[i].who]
  BY <1>1, <1>4, <1>5
<1>7. Works(st, r, H, S, F)
  <2> HIDE DEF st, r, E, H, S, F
  <2> QED  BY <1>6, WorksSame
<1> QED  BY <1>2, <1>7 DEF WorkInv

(* There is no frame at first. *)
LEMMA WorkInit == ASSUME Init PROVE WorkInv
<1> DEFINE E == StaticEdges
           S == Sorted
           F == Forced
           r == ret
<1>1. stack = <<>>  BY DEF Init
<1> HIDE DEF E, S, F, r
<1>2. Works(<<>>, r, E, S, F)  BY ChainNil DEF Works
<1> QED  BY <1>1, <1>2 DEF WorkInv, E, S, F, r

(* So the frames always work for one another. *)
LEMMA WorkInvariance == Spec => []WorkInv
<1>1. Init => WorkInv  BY WorkInit
<1>2. TypeInv /\ VisitInv /\ WorkInv /\ [Next]_vars => WorkInv'  BY WorkNext
<1> QED  BY <1>1, <1>2, TypeInvariance, VisitInvariance, PTL DEF Spec
----------------------------------------------------------------------------
(* What a slot requires has been forced, be it open or put aside. *)
Owes(s, F) == s # NoSlot => s.requires \subseteq F

Saved(st, F) == \A i \in DOMAIN st : Owes(st[i].saved, F)

SlotInv == Owes(slot, Forced) /\ Saved(stack, Forced)

(* What Saved says of a stack, frame by frame. *)
LEMMA SavedCons ==
  ASSUME NEW st, NEW f, NEW t, Cons(st, f, t), NEW F
  PROVE  Saved(st, F) <=> Owes(f.saved, F) /\ Saved(t, F)
<1>1. /\ 1 \in DOMAIN st /\ st[1] = f
      /\ \A i \in DOMAIN t : i + 1 \in DOMAIN st /\ st[i + 1] = t[i] /\ i \in Nat /\ i + 1 # 1
      /\ \A i \in DOMAIN st : i = 1 \/ \E j \in DOMAIN t : i = j + 1
  BY ConsIndex
<1>2. ASSUME Saved(st, F) PROVE Owes(f.saved, F) /\ Saved(t, F)  BY <1>1, <1>2 DEF Saved
<1>3. ASSUME Owes(f.saved, F), Saved(t, F) PROVE Saved(st, F)
  <2>1. ASSUME NEW i \in DOMAIN st PROVE Owes(st[i].saved, F)
    <3>1. CASE i = 1  BY <1>1, <1>3, <3>1
    <3>2. CASE \E j \in DOMAIN t : i = j + 1  BY <1>1, <1>3, <3>2 DEF Saved
    <3> QED  BY <1>1, <3>1, <3>2
  <2> QED  BY <2>1 DEF Saved
<1> QED  BY <1>2, <1>3

(* More is forced: what is owed is still forced. *)
LEMMA OwesMore ==
  ASSUME NEW s, NEW F, Owes(s, F), NEW G, F \subseteq G PROVE Owes(s, G)
  BY DEF Owes

(* What the frame gone on from put aside stays aside. *)
LEMMA SavedGone ==
  ASSUME TypeInv, SlotInv, NEW g, GoesOn(g)
  PROVE  IsSeq(<<g>> \o Below) /\ Saved(<<g>> \o Below, Forced)
<1> DEFINE b == <<g>> \o Below
           F == Forced
<1>1. /\ Cons(stack, Top, Below) /\ Cons(b, g, Below) /\ IsSeq(b) /\ Like(g, Top)
  BY GoneOn
<1>2. Saved(stack, F) /\ g.saved = Top.saved  BY <1>1 DEF SlotInv, Like
<1> HIDE DEF b, F, Top, Below
<1>3. Owes(Top.saved, F) /\ Saved(Below, F)  BY <1>1, <1>2, SavedCons
<1>4. Saved(b, F)  BY <1>1, <1>2, <1>3, SavedCons
<1> QED  BY <1>1, <1>4 DEF b, F

(* A frame more. *)
LEMMA SavedPush ==
  ASSUME NEW b, IsSeq(b), NEW f, NEW F, Saved(b, F), Owes(f.saved, F)
  PROVE  Saved(<<f>> \o b, F)
<1>1. Cons(<<f>> \o b, f, b)  BY ConsSeq
<1> DEFINE su == <<f>> \o b
<1> HIDE DEF su
<1>2. Cons(su, f, b)  BY <1>1 DEF su
<1>3. Saved(su, F)  BY <1>2, SavedCons
<1> QED  BY <1>3 DEF su

(* No frame puts a slot aside. *)
LEMMA SavedNil == \A F : Saved(<<>>, F)
  BY DEF Saved

(* What the innermost frame put aside, and those below. *)
LEMMA SavedBelow ==
  ASSUME TypeInv, SlotInv, stack # <<>>
  PROVE  IsSeq(Below) /\ Saved(Below, Forced) /\ Owes(Top.saved, Forced)
<1> DEFINE F == Forced
<1>1. Cons(stack, Top, Below) /\ IsSeq(Below) /\ Saved(stack, F)  BY TopIs DEF SlotInv
<1> HIDE DEF F, Top, Below
<1>2. Owes(Top.saved, F) /\ Saved(Below, F)  BY <1>1, SavedCons
<1> QED  BY <1>1, <1>2 DEF F

(* Every step leaves the slots put aside in order. *)
LEMMA SavedNext ==
  ASSUME TypeInv, VisitInv, SlotInv, [Next]_vars PROVE Saved(stack', Forced)
<1>1. Moves  BY StepMoves
<1>2. CASE Rests  BY <1>2 DEF Rests, SlotInv
<1>3. CASE Goes
  <2>1. PICK g : GoesOn(g) /\ stack' = <<g>> \o Below  BY <1>3 DEF Goes
  <2> QED  BY <2>1, SavedGone
<1>4. CASE Reads
  <2>1. PICK f, b : /\ stack' = <<f>> \o b /\ f.saved = NoSlot
                    /\ \/ stack = <<>> /\ b = <<>>
                       \/ \E g : GoesOn(g) /\ b = <<g>> \o Below
    BY <1>4 DEF Reads
  <2>2. IsSeq(b) /\ Saved(b, Forced)
    <3>1. CASE b = <<>>  BY <3>1, SavedNil, EmptySeq DEF IsSeq
    <3>2. CASE \E g : GoesOn(g) /\ b = <<g>> \o Below  BY <3>2, SavedGone
    <3> QED  BY <2>1, <3>1, <3>2
  <2>3. Owes(f.saved, Forced)  BY <2>1 DEF Owes
  <2>4. Saved(<<f>> \o b, Forced)  BY <2>2, <2>3, SavedPush
  <2> QED  BY <2>1, <2>4
<1>5. CASE Enters
  <2>1. PICK n \in Named, forced \in BOOLEAN :
          \E b : /\ Enter(n, forced, b)
                 /\ (stack = <<>> /\ b = <<>>) \/ \E g : GoesOn(g) /\ b = <<g>> \o Below
    BY <1>5 DEF Enters
  <2>2. PICK b : /\ Enter(n, forced, b)
                 /\ (stack = <<>> /\ b = <<>>) \/ \E g : GoesOn(g) /\ b = <<g>> \o Below
    BY <2>1
  <2>3. IsSeq(b) /\ Saved(b, Forced)
    <3>1. CASE b = <<>>  BY <3>1, SavedNil, EmptySeq DEF IsSeq
    <3>2. CASE \E g : GoesOn(g) /\ b = <<g>> \o Below  BY <3>2, SavedGone
    <3> QED  BY <2>2, <3>1, <3>2
  <2>4. stack' = b \/ Opens(n, forced, b)  BY <2>2, EnterIs
  <2>5. CASE Opens(n, forced, b)
    <3>1. PICK f : stack' = <<f>> \o b /\ f.saved = NoSlot  BY <2>5 DEF Opens
    <3>2. Owes(f.saved, Forced)  BY <3>1 DEF Owes
    <3>3. Saved(<<f>> \o b, Forced)  BY <2>3, <3>2, SavedPush
    <3> QED  BY <3>1, <3>3
  <2> QED  BY <2>3, <2>4, <2>5
<1>6. CASE Leaves  BY <1>6, SavedBelow DEF Leaves
<1>7. CASE Produces
  <2>1. PICK f : stack' = <<f>> \o Below /\ f.saved = slot  BY <1>7 DEF Produces
  <2>2. Owes(f.saved, Forced) /\ IsSeq(Below) /\ Saved(Below, Forced)
    BY <1>7, <2>1, SavedBelow DEF Produces, SlotInv
  <2>3. Saved(<<f>> \o Below, Forced)  BY <2>2, SavedPush
  <2> QED  BY <2>1, <2>3
<1>8. CASE Finalizes
  <2>1. PICK f : stack' = <<f>> /\ f.saved = NoSlot  BY <1>8 DEF Finalizes
  <2>2. Owes(f.saved, Forced)  BY <2>1 DEF Owes
  <2>3. \A i \in DOMAIN <<f>> : <<f>>[i] = f  OBVIOUS
  <2> QED  BY <2>1, <2>2, <2>3 DEF Saved
<1>9. CASE CallBody
  <2>1. PICK g : stack' = <<g>> \o Below /\ g.saved = slot  BY <1>9, CallIs
  <2>2. stack # <<>>  BY <1>9, CallIs
  <2>3. Owes(g.saved, Forced) /\ IsSeq(Below) /\ Saved(Below, Forced)
    BY <2>1, <2>2, SavedBelow DEF SlotInv
  <2>4. Saved(<<g>> \o Below, Forced)  BY <2>3, SavedPush
  <2> QED  BY <2>1, <2>4
<1>10. CASE Visiting /\ ~CallBody
  <2>1. Ends  BY <1>10, EndsIs
  <2> QED  BY <2>1, SavedBelow DEF Ends
<1> QED  BY <1>1, <1>2, <1>3, <1>4, <1>5, <1>6, <1>7, <1>8, <1>9, <1>10 DEF Moves

(* A call of the body whose slot is open leaves its requires as they were.   *)
LEMMA OwesSame ==
  ASSUME NEW s, NEW t, NEW F, Owes(s, F), s # NoSlot, SameOwner(s, t) PROVE Owes(t, F)
  BY DEF Owes, SameOwner

(* A call that came back to a body may be required: it was forced. *)
LEMMA SlotBack ==
  ASSUME TypeInv, WorkInv, SlotInv, LuaStep PROVE Owes(slot', Forced)
<1>1. Owes(slot, Forced)  BY DEF SlotInv
<1>2. CASE GroupForces \/ CallRaises  BY <1>1, <1>2 DEF GroupForces, CallRaises
<1>3. CASE CallReturns
  <2>1. /\ stack # <<>> /\ ret # "err" /\ Lua(Top) /\ Top.wait # NoCall
        /\ slot' = Effect(Top.wait[1], Top.wait[2])
    BY <1>3 DEF CallReturns, Ready, Lua
  <2>2. /\ Cons(stack, Top, Below) /\ FrameOK(Top, Named, DOMAIN probes)
        /\ Lua(Top) => Holds(slot, Top)
        /\ slot # NoSlot => slot \in SlotRecord
        /\ Owned(slot)
    BY <2>1, TopIs
  <2>3. CASE Top.wait[1] = "read" \/ Top.wait[1] = "import"
    BY <1>1, <2>1, <2>3 DEF Effect
  <2>4. CASE Top.wait[1] \in {"require", "order", "group"}
    <3>1. Top.at = "body" /\ Top.wait[2] \in Name
      BY <2>1, <2>2, <2>4 DEF FrameOK, Waiting
    <3>2. slot \in SlotRecord /\ slot # NoSlot  BY <2>1, <2>2, <3>1 DEF Holds
    <3>3. AtTop(Top, ret, StaticEdges, Sorted, Forced)
      <4> DEFINE E == StaticEdges
                 S == Sorted
                 F == Forced
      <4>1. Works(stack, ret, E, S, F)  BY DEF WorkInv
      <4> HIDE DEF E, S, F, Top, Below
      <4>2. AtTop(Top, ret, E, S, F)  BY <2>2, <4>1, ConsFirst DEF Works
      <4> QED  BY <4>2 DEF E, S, F
    <3>4. Top.wait[2] \in Forced  BY <2>1, <2>4, <3>3 DEF AtTop
    <3>5. CASE Top.wait[1] = "require"
      <4>1. slot' = Require(slot, Top.wait[2])  BY <2>1, <3>5 DEF Effect
      <4>2. slot'.requires = slot.requires \cup {Top.wait[2]}
        BY <2>2, <3>1, <3>2, <4>1, RequireIs
      <4> QED  BY <1>1, <3>2, <3>4, <4>2 DEF Owes
    <3>6. CASE Top.wait[1] \in {"order", "group"}
      <4>1. slot' = DepOrder(slot, Top.wait[2])  BY <2>1, <3>6 DEF Effect
      <4>2. SameOwner(slot, DepOrder(slot, Top.wait[2]))  BY <2>2, <3>1, <3>2, DepOrderIs
      <4>3. SameOwner(slot, slot')  BY <4>1, <4>2
      <4> DEFINE t == slot'
                 F == Forced
      <4> HIDE DEF t, F
      <4>4. Owes(t, F)  BY <1>1, <3>2, <4>3, OwesSame DEF t, F
      <4> QED  BY <4>4 DEF t, F
    <3> QED  BY <2>4, <3>5, <3>6
  <2>5. Top.wait[1] \in {"read", "import", "require", "order", "group"}
    BY <2>1, <2>2 DEF FrameOK, Waiting, NoCall
  <2> QED  BY <2>3, <2>4, <2>5
<1>4. CASE GroupEnds
  <2>1. stack # <<>> /\ Top.at = "body" /\ slot' = CloseGroup(slot)  BY <1>4 DEF GroupEnds, At
  <2>2. slot \in SlotRecord /\ slot # NoSlot /\ Owned(slot)
    BY <2>1, TopIs DEF Lua, LuaFrames, Holds
  <2>3. SameOwner(slot, CloseGroup(slot))  BY <2>2, CloseGroupIs
  <2>4. SameOwner(slot, slot')  BY <2>1, <2>3
  <2> DEFINE t == slot'
             F == Forced
  <2>5. Owes(t, F)
    <3> HIDE DEF t, F
    <3> QED  BY <1>1, <2>2, <2>4, OwesSame DEF t, F
  <2> QED  BY <2>5
<1> QED  BY <1>2, <1>3, <1>4 DEF LuaStep

(* So every step leaves the open slot in order, *)
LEMMA SlotNext ==
  ASSUME TypeInv, VisitInv, WorkInv, SlotInv, [Next]_vars PROVE Owes(slot', Forced)
<1>1. Owes(slot, Forced)  BY DEF SlotInv
<1>2. CASE UNCHANGED slot  BY <1>1, <1>2
<1>3. CASE LuaCall
  <2>1. Kept  BY <1>3, StackLua
  <2> DEFINE t == slot'
             F == Forced
  <2>2. CASE slot # NoSlot /\ SameOwner(slot, t)
    <3> HIDE DEF t, F
    <3>1. Owes(t, F)  BY <1>1, <2>2, OwesSame DEF F
    <3> QED  BY <3>1 DEF t, F
  <2> QED  BY <1>2, <2>1, <2>2 DEF Kept
<1>4. CASE LuaStep  BY <1>4, SlotBack
<1>5. CASE DriverStep
  <2>1. CASE BodyReturns \/ BodyFails \/ ProduceEnds
    <3>1. slot' = Top.saved /\ stack # <<>>
      BY <2>1 DEF BodyReturns, BodyFails, ProduceEnds, InLua, Ready, At
    <3> QED  BY <3>1, SavedBelow
  <2>2. CASE CallBody
    <3>1. slot' = NewSlot(Top.who, DeclOf(Top.who).chore) /\ stack # <<>> /\ Top.at = "walk"
      BY <2>2 DEF CallBody, WalkDone, Ready, At
    <3>2. Top.who \in Named  BY <3>1, TopIs DEF FrameOK, OnPath
    <3>3. Top.who \in Name /\ DeclOf(Top.who) \in Declaration  BY <3>2, DeclIs DEF TypeInv
    <3>4. DeclOf(Top.who).chore \in BOOLEAN  BY <3>3 DEF Declaration
    <3>5. slot'.requires = {}  BY <3>1, <3>3, <3>4, NewSlotIs
    <3> QED  BY <3>5 DEF Owes
  <2>3. CASE NeedDone  BY <2>3 DEF NeedDone, Owes
  <2>4. CASE \/ WalkDep \/ WalkFails \/ ForceReached \/ RefuseBody \/ SkipBody \/ NeedNext \/ NeedFails
    BY <1>2, <2>4 DEF WalkDep, WalkFails, ForceReached, RefuseBody, SkipBody, NeedNext, NeedFails
  <2> QED  BY <1>5, <2>1, <2>2, <2>3, <2>4 DEF DriverStep
<1>6. CASE PassStep
  BY <1>2, <1>6
  DEF PassStep, Load, LoadFails, Stops, Prepass, PrepassDone, PassFails, Seed, SeedsDone, Close,
      CloseFails, CallFinalizer, FinalizerEnds, Finish, FinishFails
<1>7. CASE UNCHANGED vars  BY <1>2, <1>7 DEF vars
<1> QED  BY <1>3, <1>4, <1>5, <1>6, <1>7 DEF Next

(* and with it those put aside. *)
LEMMA SlotsNext ==
  ASSUME TypeInv, VisitInv, WorkInv, SlotInv, [Next]_vars PROVE SlotInv'
<1> DEFINE F == Forced
           G == Forced'
           st == stack'
           s == slot'
<1>1. Owes(s, F) /\ Saved(st, F) /\ F \subseteq G  BY SlotNext, SavedNext, MarksGrow
<1> HIDE DEF F, G, st, s
<1>2. Owes(s, G) /\ Saved(st, G)  BY <1>1, OwesMore DEF Saved
<1> QED  BY <1>2 DEF SlotInv, F, G, st, s

(* No slot is open at first. *)
LEMMA SlotInit == ASSUME Init PROVE SlotInv
  BY SavedNil DEF Init, SlotInv, Owes

(* So what a slot requires has always been forced. *)
LEMMA SlotInvariance == Spec => []SlotInv
<1>1. Init => SlotInv  BY SlotInit
<1>2. TypeInv /\ VisitInv /\ WorkInv /\ SlotInv /\ [Next]_vars => SlotInv'  BY SlotsNext
<1> QED  BY <1>1, <1>2, TypeInvariance, VisitInvariance, WorkInvariance, PTL DEF Spec
----------------------------------------------------------------------------
(* What is registered of the names visited.  A body that ran left its entry; *)
(* beyond its static requires an entry requires what was forced; and the     *)
(* force went on to what a forced name requires.                             *)
Ran == {n \in DOMAIN entry : entry[n].ran}

Merged(n) == entry[n].requires \subseteq StaticEdges[n] \cup Forced

EntryInv ==
  /\ Settled \subseteq Ran
  /\ \A n \in DOMAIN entry : n \in Named /\ Merged(n)
  /\ \A n \in Forced : StaticEdges[n] \cap Sorted \subseteq Forced

(* The steps that register a name, and those that mark one. *)
LEMMA EntryStep ==
  ASSUME TypeInv, [Next]_vars PROVE entry' = entry \/ SkipBody \/ BodyReturns
<1>1. Moves  BY StepMoves
<1>2. CASE Rests \/ Goes \/ Reads \/ Enters \/ Leaves \/ Produces \/ Finalizes
  BY <1>2 DEF Rests, Goes, Reads, Enters, Leaves, Produces, Finalizes, record
<1>3. CASE Visiting
  BY <1>3 DEF Visiting, WalkFails, ForceReached, RefuseBody, CallBody, BodyFails, results
<1> QED  BY <1>1, <1>2, <1>3 DEF Moves

(* A name is settled by its body returning, and in no other way. *)
LEMMA MarkStep ==
  ASSUME TypeInv, VisitInv, [Next]_vars
  PROVE  \A n \in Settled' \ Settled : BodyReturns /\ n = Top.who
<1> SUFFICES ASSUME NEW n \in Settled' \ Settled PROVE BodyReturns /\ n = Top.who
  OBVIOUS
<1>0. n \in Name /\ visit'[n] \in {"ran", "forced"} /\ visit[n] \notin {"ran", "forced"}
  BY DEF Settled
<1>1. Moves  BY StepMoves
<1>2. CASE visit' = visit  BY <1>0, <1>2
<1>3. CASE Rests \/ Goes \/ Reads \/ Leaves \/ Produces \/ Finalizes
  BY <1>2, <1>3 DEF Rests, Goes, Reads, Leaves, Produces, Finalizes, record
<1>4. CASE Enters
  <2>1. PICK m \in Named, forced \in BOOLEAN : \E b : Enter(m, forced, b)  BY <1>4 DEF Enters
  <2>2. PICK b : Enter(m, forced, b)  BY <2>1
  <2>3. visit'[n] = visit[n] \/ visit'[n] = "visiting"  BY <1>0, <2>2, EnterIs
  <2> QED  BY <1>0, <2>3
<1>5. CASE Visiting /\ ~CallBody
  <2>1. Ends  BY <1>5, EndsIs
  <2>2. n = Top.who /\ stack # <<>>  BY <1>0, <2>1 DEF Ends
  <2>3. visit \in [Name -> {"new", "visiting", "ran", "forced", "skipped", "failed"}]
    BY DEF TypeInv, InMarks
  <2>4. CASE WalkFails  BY <1>0, <2>2, <2>3, <2>4 DEF WalkFails
  <2>5. CASE RefuseBody  BY <1>0, <2>2, <2>3, <2>5 DEF RefuseBody
  <2>6. CASE SkipBody  BY <1>0, <2>2, <2>3, <2>6 DEF SkipBody
  <2>7. CASE BodyFails  BY <1>0, <2>2, <2>3, <2>7 DEF BodyFails
  <2>8. CASE ForceReached
    <3>1. Top.at = "walk" /\ Top.again  BY <2>8 DEF ForceReached, At
    <3>2. Cons(stack, Top, Below)  BY <2>2, TopIs
    <3> DEFINE v == visit
               r == runs
    <3>3. Visited(stack, v, r)  BY DEF VisitInv
    <3> HIDE DEF v, r, Top, Below
    <3>4. FrameVisit(Top, v, r)  BY <3>2, <3>3, VisitedCons
    <3>5. v[Top.who] \in {"ran", "forced"}  BY <3>1, <3>4 DEF FrameVisit
    <3> QED  BY <1>0, <2>2, <3>5 DEF v
  <2> QED  BY <1>5, <2>2, <2>4, <2>5, <2>6, <2>7, <2>8 DEF Visiting
<1>6. CASE CallBody  BY <1>2, <1>6 DEF CallBody
<1> QED  BY <1>1, <1>3, <1>4, <1>5, <1>6 DEF Moves

(* A name is forced by its body returning to a force, or by a force pushed   *)
(* down.                                                                     *)
LEMMA ForceStep ==
  ASSUME TypeInv, VisitInv, [Next]_vars
  PROVE  \A n \in Forced' \ Forced : /\ n = Top.who /\ n \in Name /\ Top.forced /\ stack # <<>>
                                     /\ BodyReturns \/ ForceReached
<1> SUFFICES ASSUME NEW n \in Forced' \ Forced
             PROVE  /\ n = Top.who /\ n \in Name /\ Top.forced /\ stack # <<>>
                    /\ BodyReturns \/ ForceReached
  OBVIOUS
<1>0. n \in Name /\ visit'[n] = "forced" /\ visit[n] # "forced"  BY DEF Forced
<1>1. Moves  BY StepMoves
<1>2. CASE visit' = visit  BY <1>0, <1>2
<1>3. CASE Rests \/ Goes \/ Reads \/ Leaves \/ Produces \/ Finalizes
  BY <1>2, <1>3 DEF Rests, Goes, Reads, Leaves, Produces, Finalizes, record
<1>4. CASE Enters
  <2>1. PICK m \in Named, forced \in BOOLEAN : \E b : Enter(m, forced, b)  BY <1>4 DEF Enters
  <2>2. PICK b : Enter(m, forced, b)  BY <2>1
  <2>3. visit'[n] = visit[n] \/ visit'[n] = "visiting"  BY <1>0, <2>2, EnterIs
  <2> QED  BY <1>0, <2>3
<1>5. CASE Visiting /\ ~CallBody
  <2>1. Ends  BY <1>5, EndsIs
  <2>2. n = Top.who /\ stack # <<>>  BY <1>0, <2>1 DEF Ends
  <2>3. visit \in [Name -> {"new", "visiting", "ran", "forced", "skipped", "failed"}]
    BY DEF TypeInv, InMarks
  <2>4. CASE WalkFails  BY <1>0, <2>2, <2>3, <2>4 DEF WalkFails
  <2>5. CASE RefuseBody  BY <1>0, <2>2, <2>3, <2>5 DEF RefuseBody
  <2>6. CASE SkipBody  BY <1>0, <2>2, <2>3, <2>6 DEF SkipBody
  <2>7. CASE BodyFails  BY <1>0, <2>2, <2>3, <2>7 DEF BodyFails
  <2>8. CASE ForceReached
    <3>1. Top.at = "walk" /\ Top.again  BY <2>8 DEF ForceReached, At
    <3>2. Cons(stack, Top, Below)  BY <2>2, TopIs
    <3> DEFINE v == visit
               r == runs
    <3>3. Visited(stack, v, r)  BY DEF VisitInv
    <3> HIDE DEF v, r, Top, Below
    <3>4. FrameVisit(Top, v, r)  BY <3>2, <3>3, VisitedCons
    <3>5. Top.forced  BY <3>1, <3>4 DEF FrameVisit
    <3> QED  BY <1>0, <2>2, <2>8, <3>5
  <2>9. CASE BodyReturns
    <3>1. visit' = [visit EXCEPT ![Top.who] = IF Top.forced THEN "forced" ELSE "ran"]
      BY <2>9 DEF BodyReturns
    <3>2. Top.forced  BY <1>0, <2>2, <2>3, <3>1
    <3> QED  BY <1>0, <2>2, <2>9, <3>2
  <2> QED  BY <1>5, <2>2, <2>4, <2>5, <2>6, <2>7, <2>8, <2>9 DEF Visiting
<1>6. CASE CallBody  BY <1>2, <1>6 DEF CallBody
<1> QED  BY <1>1, <1>3, <1>4, <1>5, <1>6 DEF Moves

(* The force of the innermost visit went on. *)
LEMMA ForcedOn ==
  ASSUME TypeInv, WorkInv, stack # <<>>, Top.forced, BodyReturns \/ ForceReached
  PROVE  StaticEdges[Top.who] \cap Sorted \subseteq Forced
<1> DEFINE E == StaticEdges
           S == Sorted
           F == Forced
           r == ret
<1>1. Cons(stack, Top, Below)  BY TopIs
<1>2. Works(stack, r, E, S, F)  BY DEF WorkInv
<1>3. \/ Top.at = "body"
      \/ Top.at = "walk" /\ Top.todo = {} /\ r # "err"
  BY DEF BodyReturns, ForceReached, At, Ready
<1>4. FrameWork(Top, E, S, F) /\ AtTop(Top, r, E, S, F)
  <2> HIDE DEF E, S, F, r, Top, Below
  <2> QED  BY <1>1, <1>2, ConsFirst, ChainCons DEF Works
<1>5. Left(Top, E, S, F) = {} /\ Top.todo = {}  BY <1>3, <1>4 DEF FrameWork, AtTop
<1> QED  BY <1>5 DEF Left

(* Every step keeps the entries and the marks together. *)
LEMMA EntryNext ==
  ASSUME TypeInv, VisitInv, WorkInv, SlotInv, EntryInv, [Next]_vars PROVE EntryInv'
<1>1. Forced \subseteq Forced' /\ Settled \subseteq Settled'
  BY MarksGrow
<1>2. /\ Sorted' = Sorted /\ Sorted \subseteq Named /\ file' = file
      /\ \A n \in Named : n \in Named' /\ StaticEdges'[n] = StaticEdges[n]
  BY EdgesStay
<1>3. \A n \in Named : StaticEdges[n] = DeclOf(n).requires  BY DEF StaticEdges, Named
<1>5. Settled' \subseteq Ran'
  <2>1. ASSUME NEW n \in Settled' PROVE n \in DOMAIN entry' /\ entry'[n].ran
    <3>1. CASE BodyReturns
      <4>1. Register(Top.who, DeclOf(Top.who).requires \cup slot.requires, slot.units, TRUE)
        BY <3>1 DEF BodyReturns
      <4>9. More(entry', entry, Top.who, [requires |-> DeclOf(Top.who).requires \cup slot.requires,
                                           units |-> slot.units, ran |-> TRUE])
        BY <4>1, RegisterIs
      <4>2. /\ DOMAIN entry' = DOMAIN entry \cup {Top.who} /\ entry'[Top.who].ran
            /\ \A m \in DOMAIN entry : m # Top.who => entry'[m] = entry[m]
        BY <4>9 DEF More
      <4>3. n = Top.who \/ n \in Settled  BY MarkStep
      <4> QED  BY <4>2, <4>3 DEF EntryInv, Ran
    <3>2. CASE SkipBody
      <4>1. Register(Top.who, DeclOf(Top.who).requires, <<>>, FALSE) /\ ~BodyReturns
            /\ stack # <<>> /\ Top.at = "walk" /\ Top.again = FALSE
        BY <3>2, TopIs DEF SkipBody, WalkDone, BodyReturns, At, Ready, FrameOK
      <4>9. More(entry', entry, Top.who, [requires |-> DeclOf(Top.who).requires,
                                           units |-> <<>>, ran |-> FALSE])
        BY <4>1, RegisterIs
      <4>2. /\ DOMAIN entry' = DOMAIN entry \cup {Top.who}
            /\ \A m \in DOMAIN entry : m # Top.who => entry'[m] = entry[m]
        BY <4>9 DEF More
      <4>3. n \in Settled  BY <4>1, MarkStep
      <4>4. n # Top.who
        <5>1. Cons(stack, Top, Below)  BY <4>1, TopIs
        <5> DEFINE v == visit
                   r == runs
        <5>2. Visited(stack, v, r)  BY DEF VisitInv
        <5>3. ~Top.again  BY <4>1
        <5> HIDE DEF v, r, Top, Below
        <5>4. FrameVisit(Top, v, r)  BY <5>1, <5>2, VisitedCons
        <5>5. v[Top.who] = "visiting"  BY <4>1, <5>3, <5>4 DEF FrameVisit, Visits
        <5> QED  BY <4>3, <5>5 DEF Settled, v
      <4> QED  BY <4>2, <4>3, <4>4 DEF EntryInv, Ran
    <3>3. CASE entry' = entry /\ ~BodyReturns
      <4>1. n \in Settled  BY <3>3, MarkStep
      <4> QED  BY <3>3, <4>1 DEF EntryInv, Ran
    <3> QED  BY <3>1, <3>2, <3>3, EntryStep
  <2> QED  BY <2>1 DEF Ran
<1>6. \A n \in DOMAIN entry' : n \in Named' /\ entry'[n].requires \subseteq StaticEdges'[n] \cup Forced'
  <2>0. \A n \in DOMAIN entry : n \in Named /\ entry[n].requires \subseteq StaticEdges[n] \cup Forced
    BY DEF EntryInv, Merged
  <2>1. CASE BodyReturns
    <3>1. Register(Top.who, DeclOf(Top.who).requires \cup slot.requires, slot.units, TRUE)
      BY <2>1 DEF BodyReturns
    <3>2. Top.who \in Named /\ slot \in SlotRecord  BY <2>1, ReturnIs
    <3>3. slot.requires \subseteq Forced  BY <3>2, SlotIs DEF SlotInv, Owes
    <3>9. More(entry', entry, Top.who, [requires |-> DeclOf(Top.who).requires \cup slot.requires,
                                         units |-> slot.units, ran |-> TRUE])
      BY <3>1, RegisterIs
    <3>4. /\ DOMAIN entry' = DOMAIN entry \cup {Top.who}
          /\ entry'[Top.who].requires = DeclOf(Top.who).requires \cup slot.requires
          /\ \A m \in DOMAIN entry : m # Top.who => entry'[m] = entry[m]
      BY <3>9 DEF More
    <3>5. StaticEdges'[Top.who] = DeclOf(Top.who).requires /\ Top.who \in Named'  BY <1>2, <1>3, <3>2
    <3> QED  BY <1>1, <1>2, <2>0, <3>3, <3>4, <3>5
  <2>2. CASE SkipBody
    <3>1. /\ Register(Top.who, DeclOf(Top.who).requires, <<>>, FALSE)
          /\ stack # <<>> /\ Top.at = "walk"
      BY <2>2 DEF SkipBody, WalkDone, At, Ready
    <3>2. Top.who \in Named  BY <3>1, TopIs DEF FrameOK, OnPath
    <3>9. More(entry', entry, Top.who, [requires |-> DeclOf(Top.who).requires,
                                         units |-> <<>>, ran |-> FALSE])
      BY <3>1, RegisterIs
    <3>3. /\ DOMAIN entry' = DOMAIN entry \cup {Top.who}
          /\ entry'[Top.who].requires = DeclOf(Top.who).requires
          /\ \A m \in DOMAIN entry : m # Top.who => entry'[m] = entry[m]
      BY <3>9 DEF More
    <3>4. StaticEdges'[Top.who] = DeclOf(Top.who).requires /\ Top.who \in Named'  BY <1>2, <1>3, <3>2
    <3> QED  BY <1>1, <1>2, <2>0, <3>3, <3>4
  <2>3. CASE entry' = entry  BY <1>1, <1>2, <2>0, <2>3
  <2> QED  BY <2>1, <2>2, <2>3, EntryStep
<1>7. ASSUME NEW n \in Forced' PROVE StaticEdges'[n] \cap Sorted' \subseteq Forced'
  <2>1. CASE n \in Forced
    <3>1. n \in Settled  BY <2>1 DEF Forced, Settled
    <3>2. n \in Named /\ StaticEdges[n] \cap Sorted \subseteq Forced
      BY <2>1, <3>1 DEF EntryInv, Ran
    <3> QED  BY <1>1, <1>2, <3>2
  <2>2. CASE n \notin Forced
    <3>1. /\ n = Top.who /\ n \in Name /\ Top.forced /\ stack # <<>>
          /\ BodyReturns \/ ForceReached
      BY <2>2, ForceStep
    <3>2. StaticEdges[n] \cap Sorted \subseteq Forced  BY <3>1, ForcedOn
    <3>3. n \in Named  BY <3>1, TopIs DEF FrameOK, OnPath, BodyReturns, ForceReached, At
    <3> QED  BY <1>1, <1>2, <3>2, <3>3
  <2> QED  BY <2>1, <2>2
<1> QED  BY <1>5, <1>6, <1>7 DEF EntryInv, Merged

(* Nothing is registered at first. *)
LEMMA EntryInit == ASSUME Init PROVE EntryInv
<1>1. DOMAIN entry = {} /\ \A n \in Name : visit[n] = "new"  BY DEF Init, Empty
<1>2. Settled = {} /\ Forced = {}  BY <1>1 DEF Settled, Forced
<1> QED  BY <1>1, <1>2 DEF EntryInv

(* So entries and marks always go together. *)
LEMMA EntryInvariance == Spec => []EntryInv
<1>1. Init => EntryInv  BY EntryInit
<1>2. TypeInv /\ VisitInv /\ WorkInv /\ SlotInv /\ EntryInv /\ [Next]_vars => EntryInv'  BY EntryNext
<1> QED  BY <1>1, <1>2, TypeInvariance, VisitInvariance, WorkInvariance, SlotInvariance, PTL DEF Spec
----------------------------------------------------------------------------
(* The pass.  Reachable is answered before the first body, and a name seeded *)
(* that is reachable has its body evaluated before the next is: while it is  *)
(* at work its frame is the outermost.                                       *)
FileEdges == [n \in Sorted |-> DeclOf(n).requires]

Request == file.seeds \cup (IF HasTarget THEN {file.target} ELSE {})

Root(st, n) == st # <<>> /\ OnPath(st[Len(st)]) /\ st[Len(st)].who = n

AtWork(n) == Root(stack, n) \/ (stack = <<>> /\ ret = "err")

PassInv ==
  /\ phase = "load" => recipes = file.recipes /\ \A n \in Name : visit[n] = "new"
  /\ phase \in {"load", "prepass"} => seeded = {}
  /\ phase \notin {"load", "failed"} =>
       reach = ReachFrom(FileEdges, Request) /\ ~Cyclic(FileEdges)
  /\ \A n \in Name : visit[n] = "skipped" => n \notin reach
  /\ phase = "bodies" => \A n \in seeded \cap reach : n \in Settled \/ AtWork(n)
  /\ phase \in {"close", "drain", "done"} => reach \subseteq Settled

(* What a step is to the pass. *)
LEMMA PassSteps ==
  ASSUME TypeInv, [Next]_vars
  PROVE  \/ phase' = "failed" /\ UNCHANGED <<reach, seeded, visit>>
         \/ Load \/ PrepassDone \/ Seed \/ SeedsDone \/ Close \/ Finish
         \/ /\ phase' = phase /\ UNCHANGED <<reach, seeded>>
            /\ stack # <<>> \/ phase \in {"prepass", "drain"} \/ UNCHANGED vars
<1>1. CASE LuaCall
  <2>1. phase' = phase /\ stack # <<>>  BY <1>1, StackLua
  <2>2. UNCHANGED <<reach, seeded>>
    BY <1>1
    DEF LuaCall, CallExec, CallAddUnit, CallExport, CallDepOutput, CallProbe, CallRecipe,
        CallOnComplete, CallStepGroup, CallRead, LuaRaises, CallRequire, CallImport, CallDepOrder,
        Forces, Writes
  <2> QED  BY <2>1, <2>2
<1>2. CASE LuaStep
  <2>1. phase' = phase /\ stack # <<>>  BY <1>2, StackBack
  <2>2. UNCHANGED <<reach, seeded>>
    BY <1>2 DEF LuaStep, GroupForces, CallReturns, CallRaises, GroupEnds
  <2> QED  BY <2>1, <2>2
<1>3. CASE DriverStep
  <2>1. phase' = phase /\ stack # <<>>  BY <1>3, StackDriver
  <2>2. UNCHANGED <<reach, seeded>>
    BY <1>3
    DEF DriverStep, WalkDep, WalkFails, ForceReached, RefuseBody, SkipBody, CallBody, BodyReturns,
        BodyFails, NeedNext, NeedFails, NeedDone, ProduceEnds
  <2> QED  BY <2>1, <2>2
<1>4. CASE PassStep
  <2>1. CASE LoadFails \/ PassFails \/ CloseFails \/ FinishFails
    BY <2>1 DEF LoadFails, PassFails, CloseFails, FinishFails, Stops, Fails
  <2>2. CASE Prepass \/ CallFinalizer \/ FinalizerEnds
    BY <2>2 DEF Prepass, CallFinalizer, FinalizerEnds, At
  <2> QED  BY <1>4, <2>1, <2>2 DEF PassStep
<1>5. CASE UNCHANGED vars  BY <1>5 DEF vars
<1> QED  BY <1>1, <1>2, <1>3, <1>4, <1>5 DEF Next

(* The outermost frame. *)
LEMMA RootCons ==
  ASSUME NEW st, NEW f, NEW t, Cons(st, f, t), NEW n
  PROVE  Root(st, n) <=> IF t = <<>> THEN OnPath(f) /\ f.who = n ELSE Root(t, n)
<1>1. /\ Len(t) \in Nat /\ Len(st) = Len(t) + 1 /\ st[1] = f
      /\ \A i \in 1 .. Len(t) : st[i + 1] = t[i]
  BY DEF Cons
<1>2. t # <<>> <=> Len(t) > 0  BY SeqHas DEF Cons
<1>3. st # <<>>  BY ConsFirst
<1>4. CASE t = <<>>  BY <1>1, <1>2, <1>3, <1>4 DEF Root
<1>5. CASE t # <<>>
  <2>1. st[Len(st)] = t[Len(t)]  BY <1>1, <1>2, <1>5
  <2> QED  BY <1>3, <1>5, <2>1 DEF Root
<1> QED  BY <1>4, <1>5

(* The frame above the outermost, or the outermost itself, goes on. *)
LEMMA RootGone ==
  ASSUME TypeInv, NEW g, GoesOn(g), NEW n, Root(stack, n)
  PROVE  IsSeq(<<g>> \o Below) /\ <<g>> \o Below # <<>> /\ Root(<<g>> \o Below, n)
<1> DEFINE b == <<g>> \o Below
<1>1. /\ Cons(stack, Top, Below) /\ Cons(b, g, Below) /\ IsSeq(b) /\ Like(g, Top)
  BY GoneOn
<1>2. g.who = Top.who /\ (OnPath(Top) => OnPath(g))  BY <1>1 DEF Like, OnPath
<1> HIDE DEF b, Top, Below
<1>3. Root(b, n)  BY <1>1, <1>2, RootCons
<1>4. b # <<>>  BY <1>1, ConsFirst
<1> QED  BY <1>1, <1>3, <1>4 DEF b

(* A frame more above the outermost. *)
LEMMA RootPush ==
  ASSUME NEW b, IsSeq(b), b # <<>>, NEW f, NEW n, Root(b, n)
  PROVE  Root(<<f>> \o b, n)
<1>1. Cons(<<f>> \o b, f, b)  BY ConsSeq
<1> DEFINE su == <<f>> \o b
<1>2. Cons(su, f, b)  BY <1>1
<1> HIDE DEF su
<1>3. Root(su, n)  BY <1>2, RootCons
<1> QED  BY <1>3 DEF su

(* Every step leaves the outermost frame its work, or ends it. *)
LEMMA RootStep ==
  ASSUME TypeInv, VisitInv, [Next]_vars, NEW n, Root(stack, n)
  PROVE  \/ Root(stack', n)
         \/ stack' = <<>> /\ (ret' = "err" \/ n \in Settled' \/ n \notin reach)
<1>0. stack # <<>>  BY DEF Root
<1>1. Moves  BY StepMoves
<1>2. Cons(stack, Top, Below) /\ IsSeq(Below)  BY <1>0, TopIs
<1>2a. IF Below = <<>> THEN OnPath(Top) /\ Top.who = n ELSE Root(Below, n)
  <2> HIDE DEF Top, Below
  <2> QED  BY <1>2, RootCons
<1>3. CASE Rests  BY <1>3 DEF Rests
<1>4. CASE Goes
  <2>1. PICK g : GoesOn(g) /\ stack' = <<g>> \o Below  BY <1>4 DEF Goes
  <2> QED  BY <2>1, RootGone
<1>5. CASE Reads
  <2>1. PICK f, b : stack' = <<f>> \o b /\ \E g : GoesOn(g) /\ b = <<g>> \o Below
    BY <1>0, <1>5 DEF Reads
  <2>2. IsSeq(b) /\ b # <<>> /\ Root(b, n)  BY <2>1, RootGone
  <2>3. Root(<<f>> \o b, n)  BY <2>2, RootPush
  <2> QED  BY <2>1, <2>3
<1>6. CASE Enters
  <2>1. PICK m \in Named, forced \in BOOLEAN :
          \E b : Enter(m, forced, b) /\ \E g : GoesOn(g) /\ b = <<g>> \o Below
    BY <1>0, <1>6 DEF Enters
  <2>2. PICK b : Enter(m, forced, b) /\ \E g : GoesOn(g) /\ b = <<g>> \o Below
    BY <2>1
  <2>3. IsSeq(b) /\ b # <<>> /\ Root(b, n)  BY <2>2, RootGone
  <2>4. stack' = b \/ Opens(m, forced, b)  BY <2>2, EnterIs
  <2>5. CASE Opens(m, forced, b)
    <3>1. PICK f : stack' = <<f>> \o b  BY <2>5 DEF Opens
    <3>2. Root(<<f>> \o b, n)  BY <2>3, RootPush
    <3> QED  BY <3>1, <3>2
  <2> QED  BY <2>3, <2>4, <2>5
<1>7. CASE Leaves  BY <1>2a, <1>7 DEF Leaves
<1>8. CASE Produces
  <2>1. PICK f : stack' = <<f>> \o Below /\ ~OnPath(Top)  BY <1>8 DEF Produces, OnPath
  <2>2. Below # <<>> /\ Root(Below, n)  BY <1>2a, <2>1
  <2>3. Root(<<f>> \o Below, n)  BY <1>2, <2>2, RootPush
  <2> QED  BY <2>1, <2>3
<1>9. CASE Finalizes  BY <1>0, <1>9 DEF Finalizes
<1>10. CASE CallBody
  <2>1. PICK g : stack' = <<g>> \o Below /\ g.at = "body" /\ g.who = Top.who  BY <1>10, CallIs
  <2>2. Cons(<<g>> \o Below, g, Below) /\ OnPath(g)  BY <1>2, <2>1, ConsSeq DEF OnPath
  <2>3. CASE Below = <<>>
    <3> DEFINE su == <<g>> \o Below
    <3>1. Cons(su, g, Below) /\ OnPath(g) /\ g.who = n  BY <1>2a, <2>1, <2>2, <2>3
    <3> HIDE DEF su, Below
    <3>2. Root(su, n)  BY <2>3, <3>1, RootCons
    <3> QED  BY <2>1, <3>2 DEF su
  <2>4. CASE Below # <<>>
    <3>1. Root(<<g>> \o Below, n)  BY <1>2, <1>2a, <2>4, RootPush
    <3> QED  BY <2>1, <3>1
  <2> QED  BY <2>3, <2>4
<1>11. CASE Visiting /\ ~CallBody
  <2>1. Ends  BY <1>11, EndsIs
  <2>2. CASE Below = <<>>
    <3>1. n = Top.who  BY <1>2a, <2>2
    <3>2. ret' = "err" \/ visit'[n] \in {"ran", "forced"} \/ n \notin reach
      BY <2>1, <3>1 DEF Ends
    <3> QED  BY <2>1, <2>2, <3>1, <3>2 DEF Ends, Settled
  <2> QED  BY <1>2a, <2>1, <2>2 DEF Ends
<1> QED  BY <1>1, <1>3, <1>4, <1>5, <1>6, <1>7, <1>8, <1>9, <1>10, <1>11 DEF Moves
----------------------------------------------------------------------------
(* The request and the static requires of the names sorted stay what they    *)
(* are.                                                                      *)
LEMMA FileStays ==
  ASSUME TypeInv, [Next]_vars
  PROVE  FileEdges' = FileEdges /\ Request' = Request /\ Sorted' = Sorted
<1>1. /\ file' = file /\ Sorted' = Sorted /\ Sorted \subseteq Named  BY EdgesStay
<1>2. \A n \in Named : DeclOf(n)' = DeclOf(n)  BY DataNext
<1>3. \A n \in Sorted : DeclOf(n)'.requires = DeclOf(n).requires  BY <1>1, <1>2
<1>4. FileEdges' = FileEdges  BY <1>1, <1>3 DEF FileEdges
<1> QED  BY <1>1, <1>4 DEF Request, HasTarget

(* There are finitely many names sorted. *)
LEMMA SortedFinite ==
  ASSUME TypeInv PROVE IsFiniteSet(Sorted) /\ DOMAIN FileEdges = Sorted
<1>1. IsFiniteSet(Named) /\ Sorted \subseteq Named  BY NamedFinite, SortedNamed DEF TypeInv
<1>2. IsFiniteSet(Sorted)  BY <1>1, FS_Subset
<1> QED  BY <1>2 DEF FileEdges

(* Only what is not reachable is skipped. *)
LEMMA SkipStep ==
  ASSUME TypeInv, VisitInv, [Next]_vars, NEW n \in Name, visit'[n] = "skipped"
  PROVE  visit[n] = "skipped" \/ n \notin reach
<1>1. Moves  BY StepMoves
<1>2. CASE visit' = visit  BY <1>2
<1>3. CASE Rests \/ Goes \/ Reads \/ Leaves \/ Produces \/ Finalizes
  BY <1>2, <1>3 DEF Rests, Goes, Reads, Leaves, Produces, Finalizes, record
<1>4. CASE Enters
  <2>1. PICK m \in Named, forced \in BOOLEAN : \E b : Enter(m, forced, b)  BY <1>4 DEF Enters
  <2>2. PICK b : Enter(m, forced, b)  BY <2>1
  <2>3. visit'[n] = visit[n] \/ visit'[n] = "visiting"  BY <2>2, EnterIs
  <2> QED  BY <2>3
<1>5. CASE Visiting /\ ~CallBody
  <2>1. Ends  BY <1>5, EndsIs
  <2> QED  BY <2>1 DEF Ends
<1>6. CASE CallBody  BY <1>2, <1>6 DEF CallBody
<1> QED  BY <1>1, <1>3, <1>4, <1>5, <1>6 DEF Moves

(* What the seed loop asks for is done already, or at work. *)
LEMMA SeedStep ==
  ASSUME TypeInv, PassInv, Seed
  PROVE  /\ \E n \in Sorted : /\ seeded' = seeded \cup {n}
                              /\ n \in reach => n \in Settled \/ Root(stack', n) \/ (stack' = <<>> /\ ret' = "err")
         /\ stack = <<>> /\ ret # "err" /\ phase = "bodies" /\ phase' = phase /\ reach' = reach
<1>1. /\ stack = <<>> /\ ret # "err" /\ phase = "bodies" /\ phase' = phase /\ reach' = reach
  BY DEF Seed, Idle
<1>2. PICK n \in Sorted : seeded' = seeded \cup {n} /\ Enter(n, FALSE, <<>>)
  BY DEF Seed
<1>3. n \in Named /\ n \in Name  BY SortedNamed DEF TypeInv
<1>4. n \in reach => n \in Settled \/ Root(stack', n) \/ (stack' = <<>> /\ ret' = "err")
  <2> DEFINE b == <<>>
             forced == FALSE
  <2>1. Enter(n, forced, b) /\ forced \in BOOLEAN  BY <1>2
  <2>2. \/ stack' = b /\ ret' = "ok" /\ Done(n, forced)
        \/ stack' = b /\ ret' = "err"
        \/ Opens(n, forced, b)
    <3> HIDE DEF b, forced
    <3> QED  BY <1>3, <2>1, EnterIs
  <2>3. CASE Done(n, forced)
    <3>1. visit[n] \in {"forced", "ran", "skipped"}  BY <2>3 DEF Done
    <3> QED  BY <1>3, <3>1 DEF Settled, PassInv
  <2>4. CASE Opens(n, forced, b)
    <3>1. PICK f : stack' = <<f>> \o b /\ f.at = "walk" /\ f.who = n  BY <2>4 DEF Opens
    <3>2. stack' = <<f>> /\ Cons(<<f>>, f, <<>>) /\ OnPath(f)  BY <3>1, ConsOne DEF OnPath
    <3> DEFINE su == <<f>>
               t == <<>>
    <3>3. Cons(su, f, t) /\ t = <<>>  BY <3>2
    <3> HIDE DEF su, t
    <3>4. Root(su, n)  BY <3>1, <3>2, <3>3, RootCons
    <3> QED  BY <3>2, <3>4 DEF su
  <2> QED  BY <2>2, <2>3, <2>4
<1> QED  BY <1>1, <1>2, <1>4

(* Every step keeps the pass in order. *)
LEMMA PassNext ==
  ASSUME TypeInv, VisitInv, PassInv, [Next]_vars PROVE PassInv'
<1>1. /\ FileEdges' = FileEdges /\ Request' = Request /\ Sorted' = Sorted  BY FileStays
<1>2. /\ Forced \subseteq Forced' /\ Settled \subseteq Settled'  BY MarksGrow
<1>3. \A n \in Name : visit'[n] = "skipped" => visit[n] = "skipped" \/ n \notin reach  BY SkipStep
<1>4. phase \in {"load", "prepass", "bodies", "close", "drain", "done", "failed"}
      /\ (phase \in {"load", "close", "done", "failed"} => stack = <<>>)
      /\ reach \subseteq Name /\ seeded \subseteq Name
  BY DEF TypeInv, InMarks, InStack
<1>5. CASE phase' = "failed" /\ UNCHANGED <<reach, seeded, visit>>
  BY <1>5 DEF PassInv
<1>6. CASE Load
  <2>1. phase = "load" /\ phase' = "prepass" /\ UNCHANGED <<seeded, visit>>  BY <1>6 DEF Load, driver
  <2>2. reach' = ReachFrom(StaticEdges, Request) /\ ~Cyclic(StaticEdges)
    BY <1>6 DEF Load, Reachable, Request
  <2>3. recipes = file.recipes /\ seeded = {} /\ \A n \in Name : visit[n] = "new"  BY <2>1 DEF PassInv
  <2>4. FileEdges = StaticEdges  BY <2>3 DEF FileEdges, StaticEdges, Sorted
  <2>5. reach' = ReachFrom(FileEdges', Request') /\ ~Cyclic(FileEdges')  BY <1>1, <2>2, <2>4
  <2> QED  BY <2>1, <2>3, <2>5 DEF PassInv
<1>7. CASE PrepassDone
  <2>1. phase = "prepass" /\ phase' = "bodies" /\ UNCHANGED <<reach, seeded, visit>>
    BY <1>7 DEF PrepassDone
  <2>2. seeded = {}  BY <2>1 DEF PassInv
  <2>3. reach' = ReachFrom(FileEdges', Request') /\ ~Cyclic(FileEdges')  BY <1>1, <2>1 DEF PassInv
  <2> QED  BY <1>3, <2>1, <2>2, <2>3 DEF PassInv
<1>8. CASE Seed
  <2>1. /\ stack = <<>> /\ ret # "err" /\ phase = "bodies" /\ phase' = phase /\ reach' = reach
    BY <1>8, SeedStep
  <2>2. PICK n \in Sorted :
          /\ seeded' = seeded \cup {n}
          /\ n \in reach => n \in Settled \/ Root(stack', n) \/ (stack' = <<>> /\ ret' = "err")
    BY <1>8, SeedStep
  <2>3. reach' = ReachFrom(FileEdges', Request') /\ ~Cyclic(FileEdges')  BY <1>1, <2>1 DEF PassInv
  <2>4. \A m \in seeded \cap reach : m \in Settled
    <3>1. \A m : ~Root(stack, m)  BY <2>1 DEF Root
    <3> QED  BY <2>1, <3>1 DEF PassInv, AtWork
  <2>5. \A m \in seeded' \cap reach' :
          m \in Settled' \/ Root(stack', m) \/ (stack' = <<>> /\ ret' = "err")
    BY <1>2, <2>1, <2>2, <2>4
  <2>6. \A m \in Name : visit'[m] = "skipped" => m \notin reach'  BY <1>3, <2>1 DEF PassInv
  <2> QED  BY <2>1, <2>3, <2>5, <2>6 DEF PassInv, AtWork
<1>9. CASE SeedsDone
  <2>1. /\ stack = <<>> /\ ret # "err" /\ phase = "bodies" /\ phase' = "close" /\ seeded = Sorted
        /\ UNCHANGED <<reach, seeded, visit>>
    BY <1>9 DEF SeedsDone, Idle
  <2>2. reach = ReachFrom(FileEdges, Request) /\ ~Cyclic(FileEdges)  BY <2>1 DEF PassInv
  <2>3. reach \subseteq Sorted  BY <2>2, SortedFinite, ReachClosed
  <2>4. \A m \in seeded \cap reach : m \in Settled
    <3>1. \A m : ~Root(stack, m)  BY <2>1 DEF Root
    <3> QED  BY <2>1, <3>1 DEF PassInv, AtWork
  <2>5. reach' \subseteq Settled'  BY <1>2, <2>1, <2>3, <2>4
  <2>6. reach' = ReachFrom(FileEdges', Request') /\ ~Cyclic(FileEdges')  BY <1>1, <2>1, <2>2
  <2>7. \A m \in Name : visit'[m] = "skipped" => m \notin reach'  BY <1>3, <2>1 DEF PassInv
  <2> QED  BY <2>1, <2>5, <2>6, <2>7 DEF PassInv
<1>10. CASE Close \/ Finish
  <2>1. /\ phase \in {"close", "drain"} /\ phase' \in {"drain", "done"}
        /\ UNCHANGED <<reach, seeded, visit>>
    BY <1>10 DEF Close, Finish, driver
  <2>2. reach' = ReachFrom(FileEdges', Request') /\ ~Cyclic(FileEdges')  BY <1>1, <2>1 DEF PassInv
  <2>3. reach' \subseteq Settled'  BY <1>2, <2>1 DEF PassInv
  <2> QED  BY <1>3, <2>1, <2>2, <2>3 DEF PassInv
<1>11. CASE UNCHANGED vars
  <2>1. UNCHANGED <<phase, recipes, file, visit, reach, seeded, stack, ret>>
    BY <1>11 DEF vars, driver, registry
  <2>2. Settled' = Settled  BY <2>1 DEF Settled
  <2> QED  BY <1>1, <2>1, <2>2 DEF PassInv, AtWork, Root
<1>12. CASE /\ phase' = phase /\ UNCHANGED <<reach, seeded>>
            /\ stack # <<>> \/ phase \in {"prepass", "drain"}
  <2>1. phase # "load"  BY <1>4, <1>12
  <2>2. phase' \notin {"load", "failed"} =>
          reach' = ReachFrom(FileEdges', Request') /\ ~Cyclic(FileEdges')
    BY <1>1, <1>12, <2>1 DEF PassInv
  <2>3. \A m \in Name : visit'[m] = "skipped" => m \notin reach'  BY <1>3, <1>12 DEF PassInv
  <2>4. phase' \in {"close", "drain", "done"} => reach' \subseteq Settled'  BY <1>2, <1>12 DEF PassInv
  <2>5. ASSUME phase' = "bodies", NEW m \in seeded' \cap reach'
        PROVE  m \in Settled' \/ Root(stack', m) \/ (stack' = <<>> /\ ret' = "err")
    <3>1. phase = "bodies" /\ stack # <<>> /\ m \in seeded \cap reach  BY <1>12, <2>5
    <3>2. m \in Settled \/ Root(stack, m)  BY <3>1 DEF PassInv, AtWork
    <3>3. CASE Root(stack, m)
      <4>1. \/ Root(stack', m)
            \/ stack' = <<>> /\ (ret' = "err" \/ m \in Settled' \/ m \notin reach)
        BY <3>3, RootStep
      <4> QED  BY <3>1, <4>1
    <3> QED  BY <1>2, <3>2, <3>3
  <2> QED  BY <1>12, <2>1, <2>2, <2>3, <2>4, <2>5 DEF PassInv, AtWork
<1> QED  BY <1>5, <1>6, <1>7, <1>8, <1>9, <1>10, <1>11, <1>12, PassSteps

(* The pass has not begun at first. *)
LEMMA PassInit == ASSUME Init PROVE PassInv
<1>1. \A n \in Name : visit[n] = "new"  BY DEF Init
<1> QED  BY <1>1 DEF Init, PassInv

(* So the pass is always in order. *)
LEMMA PassInvariance == Spec => []PassInv
<1>1. Init => PassInv  BY PassInit
<1>2. TypeInv /\ VisitInv /\ PassInv /\ [Next]_vars => PassInv'  BY PassNext
<1> QED  BY <1>1, <1>2, TypeInvariance, VisitInvariance, PTL DEF Spec

(* When the pass is accepted, the engine's closure was evaluated. *)
LEMMA ClosureGives == ASSUME TypeInv, EntryInv, PassInv PROVE ClosureRan
<1> SUFFICES ASSUME phase = "done"
             PROVE  \A n \in ReachFrom(Early, Request) : entry[n].ran
  BY DEF ClosureRan, Request
<1>1. reach = ReachFrom(FileEdges, Request) /\ reach \subseteq Settled  BY DEF PassInv
<1>2. IsFiniteSet(Sorted) /\ DOMAIN FileEdges = Sorted  BY SortedFinite
<1>3. DOMAIN Early = DOMAIN entry \cap Sorted  BY DEF Early
<1>4. IsFiniteSet(DOMAIN Early)  BY <1>2, <1>3, FS_Subset
<1> DEFINE X == (Forced \cup reach) \cap DOMAIN Early
<1>5. Request \cap DOMAIN Early \subseteq X
  <2>1. Request \cap Sorted \subseteq reach  BY <1>1, <1>2, ReachHas
  <2> QED  BY <1>3, <2>1
<1>6. ASSUME NEW x \in X PROVE Early[x] \cap DOMAIN Early \subseteq X
  <2>1. x \in DOMAIN entry /\ x \in Sorted  BY <1>3
  <2>2. Early[x] \subseteq StaticEdges[x] \cup Forced  BY <2>1 DEF Early, EntryInv, Merged
  <2>3. FileEdges[x] = StaticEdges[x]
    <3>1. x \in Named  BY <2>1 DEF EntryInv
    <3> QED  BY <2>1, <3>1 DEF FileEdges, StaticEdges, Named
  <2>4. x \in Forced => StaticEdges[x] \cap Sorted \subseteq Forced  BY DEF EntryInv
  <2>5. x \in reach => FileEdges[x] \cap Sorted \subseteq reach  BY <1>1, <1>2, ReachClosed
  <2> QED  BY <1>3, <2>2, <2>3, <2>4, <2>5
<1>7. ReachFrom(Early, Request) \subseteq X
  <2> HIDE DEF X
  <2> QED  BY <1>4, <1>5, <1>6, ReachLeast
<1>8. X \subseteq Settled  BY <1>1 DEF Forced, Settled
<1> QED  BY <1>7, <1>8 DEF EntryInv, Ran

(* The seed loop, static requires and forces evaluate no body twice, and     *)
(* when the pass is accepted every recipe the engine will close over was     *)
(* evaluated, for every Cookfile and request.                                *)
THEOREM EachBodyOnceCorrect == Spec => []EachBodyOnce
<1>1. TypeInv /\ VisitInv /\ EntryInv /\ PassInv => EachBodyOnce
  BY OnceGives, ClosureGives DEF EachBodyOnce
<1> QED  BY <1>1, TypeInvariance, VisitInvariance, EntryInvariance, PassInvariance, PTL
----------------------------------------------------------------------------
(* An entry more closes no cycle.  H are the requires registered now, G      *)
(* those before, L the static ones; F, what is forced, is closed under L,    *)
(* and of it nothing is registered now.                                      *)
Extends(G, H, L, F) ==
  /\ IsFiniteSet(DOMAIN G) /\ IsFiniteSet(DOMAIN H) /\ IsFiniteSet(DOMAIN L)
  /\ DOMAIN H \subseteq DOMAIN L
  /\ \A m \in DOMAIN H : H[m] \subseteq L[m] \cup F
  /\ \A m \in DOMAIN H \cap F : m \in DOMAIN G /\ H[m] = G[m]
  /\ \A m \in DOMAIN L \cap F : L[m] \cap DOMAIN L \subseteq F

(* No name lies on a cycle of H: one that is forced would lie on one of G,   *)
(* one that is not on one of L.                                              *)
LEMMA AcyclicMore ==
  ASSUME NEW G, NEW H, NEW L, NEW F, Extends(G, H, L, F), ~Cyclic(G), ~Cyclic(L)
  PROVE  ~Cyclic(H)
<1> SUFFICES ASSUME NEW n \in DOMAIN H, n \in ReachFrom(H, H[n]) PROVE FALSE
  BY DEF Cyclic
<1>1. /\ IsFiniteSet(DOMAIN G) /\ IsFiniteSet(DOMAIN H) /\ IsFiniteSet(DOMAIN L)
      /\ DOMAIN H \subseteq DOMAIN L
      /\ \A m \in DOMAIN H : H[m] \subseteq L[m] \cup F
      /\ \A m \in DOMAIN H \cap F : m \in DOMAIN G /\ H[m] = G[m]
      /\ \A m \in DOMAIN L \cap F : L[m] \cap DOMAIN L \subseteq F
  BY DEF Extends
<1>2. \A m \in DOMAIN H \cap F : H[m] \cap DOMAIN H \subseteq F /\ m \in DOMAIN L
  BY <1>1
<1>3. CASE n \in F
  <2> DEFINE X == F \cap DOMAIN H \cap ReachFrom(G, G[n])
  <2>1. G[n] \cap DOMAIN G \subseteq ReachFrom(G, G[n])  BY <1>1, ReachHas
  <2>2. H[n] \cap DOMAIN H \subseteq X  BY <1>1, <1>2, <1>3, <2>1
  <2>3. ASSUME NEW x \in X PROVE H[x] \cap DOMAIN H \subseteq X
    <3>1. x \in DOMAIN G /\ H[x] = G[x]  BY <1>1
    <3>2. G[x] \cap DOMAIN G \subseteq ReachFrom(G, G[n])  BY <1>1, ReachClosed
    <3>3. H[x] \cap DOMAIN H \subseteq F  BY <1>2
    <3> QED  BY <1>1, <3>1, <3>2, <3>3
  <2>4. ReachFrom(H, H[n]) \subseteq X
    <3> HIDE DEF X
    <3> QED  BY <1>1, <2>2, <2>3, ReachLeast
  <2>5. n \in DOMAIN G /\ n \in ReachFrom(G, G[n])  BY <1>1, <1>3, <2>4
  <2> QED  BY <2>5 DEF Cyclic
<1>4. CASE n \notin F
  <2> DEFINE X == (F \cup ReachFrom(L, L[n])) \cap DOMAIN H
  <2>1. L[n] \cap DOMAIN L \subseteq ReachFrom(L, L[n])  BY <1>1, ReachHas
  <2>2. H[n] \cap DOMAIN H \subseteq X  BY <1>1, <2>1
  <2>3. ASSUME NEW x \in X PROVE H[x] \cap DOMAIN H \subseteq X
    <3>1. x \in F => H[x] \cap DOMAIN H \subseteq F  BY <1>2
    <3>2. x \in ReachFrom(L, L[n]) => L[x] \cap DOMAIN L \subseteq ReachFrom(L, L[n])
      BY <1>1, ReachClosed
    <3>3. H[x] \subseteq L[x] \cup F  BY <1>1
    <3> QED  BY <1>1, <3>1, <3>2, <3>3
  <2>4. ReachFrom(H, H[n]) \subseteq X
    <3> HIDE DEF X
    <3> QED  BY <1>1, <2>2, <2>3, ReachLeast
  <2>5. n \in DOMAIN L /\ n \in ReachFrom(L, L[n])  BY <1>1, <1>4, <2>4
  <2> QED  BY <2>5 DEF Cyclic
<1> QED  BY <1>3, <1>4

(* The requires registered for the names the pass sorted have no cycle.      *)
AcyclicInv == ~Cyclic(Early)

(* Every step keeps the requires registered free of cycles. *)
LEMMA AcyclicNext ==
  ASSUME TypeInv, VisitInv, WorkInv, SlotInv, EntryInv, PassInv, AcyclicInv, [Next]_vars
  PROVE  AcyclicInv'
<1>1. /\ FileEdges' = FileEdges /\ Sorted' = Sorted  BY FileStays
<1>2. CASE entry' = entry
  <2>1. Early' = Early  BY <1>1, <1>2 DEF Early
  <2> DEFINE H == Early'
  <2>2. ~Cyclic(H)  BY <2>1 DEF AcyclicInv
  <2> QED  BY <2>2 DEF AcyclicInv, Cyclic, ReachFrom
<1>3. CASE SkipBody \/ BodyReturns
  <2>1. stack # <<>>  BY <1>3 DEF SkipBody, WalkDone, BodyReturns, InLua, Ready
  <2>2. phase \notin {"load", "failed"}  BY <2>1 DEF TypeInv, InStack
  <2>3. ~Cyclic(FileEdges)  BY <2>2 DEF PassInv
  <2>4. Top.who \in Named /\ Visits(Top)
    <3>1. FrameOK(Top, Named, DOMAIN probes)  BY <2>1, TopIs
    <3>2. Top.at = "body" \/ (Top.at = "walk" /\ ~Top.again)
      BY <1>3 DEF SkipBody, WalkDone, BodyReturns, At
    <3> QED  BY <3>1, <3>2 DEF FrameOK, OnPath, Visits
  <2>5. Top.who \notin Forced
    <3>1. Cons(stack, Top, Below)  BY <2>1, TopIs
    <3> DEFINE v == visit
               r == runs
    <3>2. Visited(stack, v, r)  BY DEF VisitInv
    <3> HIDE DEF v, r, Top, Below
    <3>3. FrameVisit(Top, v, r)  BY <3>1, <3>2, VisitedCons
    <3>4. v[Top.who] = "visiting"  BY <2>4, <3>3 DEF FrameVisit
    <3> QED  BY <3>4 DEF Forced, v
  <2>6. StaticEdges[Top.who] = DeclOf(Top.who).requires  BY <2>4 DEF StaticEdges, Named
  <2>7. \E more : /\ more \subseteq StaticEdges[Top.who] \cup Forced
                  /\ DOMAIN entry' = DOMAIN entry \cup {Top.who}
                  /\ entry'[Top.who].requires = more
                  /\ \A m \in DOMAIN entry : m # Top.who => entry'[m] = entry[m]
    <3>1. CASE SkipBody
      <4>1. Register(Top.who, DeclOf(Top.who).requires, <<>>, FALSE)  BY <3>1 DEF SkipBody
      <4>2. More(entry', entry, Top.who, [requires |-> DeclOf(Top.who).requires,
                                          units |-> <<>>, ran |-> FALSE])
        BY <4>1, RegisterIs
      <4> QED  BY <2>6, <4>2 DEF More
    <3>2. CASE BodyReturns
      <4>1. Register(Top.who, DeclOf(Top.who).requires \cup slot.requires, slot.units, TRUE)
        BY <3>2 DEF BodyReturns
      <4>2. More(entry', entry, Top.who, [requires |-> DeclOf(Top.who).requires \cup slot.requires,
                                          units |-> slot.units, ran |-> TRUE])
        BY <4>1, RegisterIs
      <4>3. slot \in SlotRecord  BY <3>2, ReturnIs
      <4>4. slot.requires \subseteq Forced  BY <4>3, SlotIs DEF SlotInv, Owes
      <4>5. DeclOf(Top.who).requires \cup slot.requires \subseteq StaticEdges[Top.who] \cup Forced
        BY <2>6, <4>4
      <4> QED  BY <4>2, <4>5 DEF More
    <3> QED  BY <1>3, <3>1, <3>2
  <2>8. PICK more : /\ more \subseteq StaticEdges[Top.who] \cup Forced
                    /\ DOMAIN entry' = DOMAIN entry \cup {Top.who}
                    /\ entry'[Top.who].requires = more
                    /\ \A m \in DOMAIN entry : m # Top.who => entry'[m] = entry[m]
    BY <2>7
  <2> DEFINE G == Early
             H == Early'
             L == FileEdges
             F == Forced
  <2>9. IsFiniteSet(Sorted) /\ DOMAIN L = Sorted  BY SortedFinite
  <2>10. /\ DOMAIN G = DOMAIN entry \cap Sorted /\ DOMAIN H = DOMAIN entry' \cap Sorted
         /\ \A m \in DOMAIN G : G[m] = entry[m].requires
         /\ \A m \in DOMAIN H : H[m] = entry'[m].requires
    BY <1>1 DEF Early
  <2>11. IsFiniteSet(DOMAIN G) /\ IsFiniteSet(DOMAIN H)  BY <2>9, <2>10, FS_Subset
  <2>12. \A m \in Sorted : m \in Named /\ L[m] = StaticEdges[m]
    <3>1. Sorted \subseteq Named  BY SortedNamed DEF TypeInv
    <3> QED  BY <3>1 DEF FileEdges, StaticEdges, Named
  <2>13. ASSUME NEW m \in DOMAIN H PROVE H[m] \subseteq L[m] \cup F
    <3>1. CASE m = Top.who  BY <2>8, <2>10, <2>12, <3>1
    <3>2. CASE m # Top.who
      <4>1. m \in DOMAIN entry /\ H[m] = entry[m].requires  BY <2>8, <2>10, <3>2
      <4>2. entry[m].requires \subseteq StaticEdges[m] \cup Forced  BY <4>1 DEF EntryInv, Merged
      <4> QED  BY <2>10, <2>12, <4>1, <4>2
    <3> QED  BY <3>1, <3>2
  <2>14. ASSUME NEW m \in DOMAIN H \cap F PROVE m \in DOMAIN G /\ H[m] = G[m]
    BY <2>5, <2>8, <2>10
  <2>15. ASSUME NEW m \in DOMAIN L \cap F PROVE L[m] \cap DOMAIN L \subseteq F
    <3>1. StaticEdges[m] \cap Sorted \subseteq Forced  BY DEF EntryInv
    <3> QED  BY <2>9, <2>12, <3>1
  <2>16. /\ DOMAIN H \subseteq DOMAIN L
         /\ ~Cyclic(G) /\ ~Cyclic(L) /\ IsFiniteSet(DOMAIN L)
    BY <2>3, <2>9, <2>10 DEF AcyclicInv
  <2>17. ~Cyclic(H)
    <3> HIDE DEF G, H, L, F
    <3>1. Extends(G, H, L, F)  BY <2>11, <2>13, <2>14, <2>15, <2>16 DEF Extends
    <3> QED  BY <2>16, <3>1, AcyclicMore
  <2> QED  BY <2>17 DEF AcyclicInv, Cyclic, ReachFrom
<1> QED  BY <1>2, <1>3, EntryStep

(* Nothing is registered at first. *)
LEMMA AcyclicInit == ASSUME Init PROVE AcyclicInv
<1>1. DOMAIN Early = {}  BY DEF Init, Empty, Early
<1> QED  BY <1>1 DEF AcyclicInv, Cyclic

(* So the requires registered never have a cycle. *)
LEMMA AcyclicInvariance == Spec => []AcyclicInv
<1>1. Init => AcyclicInv  BY AcyclicInit
<1>2. /\ TypeInv /\ VisitInv /\ WorkInv /\ SlotInv /\ EntryInv /\ PassInv
      /\ AcyclicInv /\ [Next]_vars
      => AcyclicInv'
  BY AcyclicNext
<1> QED
  BY <1>1, <1>2, TypeInvariance, VisitInvariance, WorkInvariance, SlotInvariance, EntryInvariance,
     PassInvariance, PTL
  DEF Spec

(* When no body registered a recipe, they are what the engine closes over. *)
LEMMA CaughtGives ==
  ASSUME TypeInv, EntryInv, AcyclicInv PROVE CyclesCaughtEarly
<1> SUFFICES ASSUME recipes = file.recipes PROVE ~Cyclic(MergedEdges)
  BY DEF CyclesCaughtEarly
<1>1. Named = Sorted  BY DEF Named, StaticEdges, Sorted
<1>2. DOMAIN entry \subseteq Sorted  BY <1>1 DEF EntryInv
<1>3. MergedEdges = Early  BY <1>2 DEF MergedEdges, Early
<1> QED  BY <1>3 DEF AcyclicInv
----------------------------------------------------------------------------
(* The frames of the names on path, p, are the outermost ones, the first of  *)
(* path outermost.                                                           *)
OnRoute(p, st) ==
  /\ Len(p) <= Len(st)
  /\ \A i \in DOMAIN st :
       IF i <= Len(st) - Len(p) THEN ~OnPath(st[i])
       ELSE OnPath(st[i]) /\ st[i].who = p[Len(st) + 1 - i]

(* The empty stack has the empty path. *)
LEMMA RouteNil == OnRoute(<<>>, <<>>)
  BY DEF OnRoute

(* A probe's frame on top is not on the route. *)
LEMMA RouteAside ==
  ASSUME NEW st, NEW f, NEW t, Cons(st, f, t), ~OnPath(f), NEW p, IsSeq(p)
  PROVE  OnRoute(p, st) <=> OnRoute(p, t)
<1>1. Len(p) \in Nat  BY SeqHas
<1>2. /\ Len(t) \in Nat /\ Len(st) = Len(t) + 1
      /\ DOMAIN t = 1 .. Len(t) /\ DOMAIN st = 1 .. Len(t) + 1
      /\ st[1] = f /\ \A i \in 1 .. Len(t) : st[i + 1] = t[i]
  BY DEF Cons
<1>3. ASSUME OnRoute(p, st) PROVE OnRoute(p, t)
  <2>1. 1 <= Len(st) - Len(p)  BY <1>1, <1>2, <1>3 DEF OnRoute
  <2>2. Len(p) <= Len(t)  BY <1>1, <1>2, <2>1
  <2>3. ASSUME NEW i \in DOMAIN t
        PROVE  IF i <= Len(t) - Len(p) THEN ~OnPath(t[i])
               ELSE OnPath(t[i]) /\ t[i].who = p[Len(t) + 1 - i]
    <3>1. i + 1 \in DOMAIN st /\ st[i + 1] = t[i]  BY <1>2
    <3>2. /\ i <= Len(t) - Len(p) <=> i + 1 <= Len(st) - Len(p)
          /\ Len(t) + 1 - i = Len(st) + 1 - (i + 1)
      BY <1>1, <1>2
    <3> QED  BY <1>3, <3>1, <3>2 DEF OnRoute
  <2> QED  BY <2>2, <2>3 DEF OnRoute
<1>4. ASSUME OnRoute(p, t) PROVE OnRoute(p, st)
  <2>1. Len(p) <= Len(t) /\ Len(p) <= Len(st)  BY <1>1, <1>2, <1>4 DEF OnRoute
  <2>2. ASSUME NEW i \in DOMAIN st
        PROVE  IF i <= Len(st) - Len(p) THEN ~OnPath(st[i])
               ELSE OnPath(st[i]) /\ st[i].who = p[Len(st) + 1 - i]
    <3>1. CASE i = 1
      <4>1. i <= Len(st) - Len(p)  BY <1>1, <1>2, <2>1, <3>1
      <4> QED  BY <1>2, <3>1, <4>1
    <3>2. CASE i # 1
      <4>1. i - 1 \in DOMAIN t /\ st[i] = t[i - 1]  BY <1>2, <3>2
      <4>2. /\ i - 1 <= Len(t) - Len(p) <=> i <= Len(st) - Len(p)
            /\ Len(t) + 1 - (i - 1) = Len(st) + 1 - i
        BY <1>1, <1>2
      <4> QED  BY <1>4, <4>1, <4>2 DEF OnRoute
    <3> QED  BY <3>1, <3>2
  <2> QED  BY <2>1, <2>2 DEF OnRoute
<1> QED  BY <1>3, <1>4

(* Over a route that goes up to the top, a name goes on path and off it.     *)
LEMMA RouteOpen ==
  ASSUME NEW st, NEW f, NEW t, Cons(st, f, t), OnPath(f), NEW p, IsSeq(p),
         OnRoute(p, t), Len(p) = Len(t)
  PROVE  OnRoute(Append(p, f.who), st)
<1> DEFINE q == Append(p, f.who)
<1>1. /\ Len(p) \in Nat /\ Len(q) = Len(p) + 1 /\ q[Len(p) + 1] = f.who
      /\ \A i \in 1 .. Len(p) : q[i] = p[i]
  BY AppendSeq
<1> HIDE DEF q
<1>2. /\ Len(t) \in Nat /\ Len(st) = Len(t) + 1
      /\ DOMAIN t = 1 .. Len(t) /\ DOMAIN st = 1 .. Len(t) + 1
      /\ st[1] = f /\ \A i \in 1 .. Len(t) : st[i + 1] = t[i]
  BY DEF Cons
<1>3. ASSUME NEW i \in DOMAIN st
      PROVE  ~(i <= Len(st) - Len(q)) /\ OnPath(st[i]) /\ st[i].who = q[Len(st) + 1 - i]
  <2>0. ~(i <= Len(st) - Len(q))  BY <1>1, <1>2
  <2>1. CASE i = 1
    <3>1. Len(st) + 1 - i = Len(p) + 1  BY <1>1, <1>2, <2>1
    <3> QED  BY <1>1, <1>2, <2>0, <2>1, <3>1
  <2>2. CASE i # 1
    <3>1. i - 1 \in DOMAIN t /\ st[i] = t[i - 1]  BY <1>2, <2>2
    <3>2. ~(i - 1 <= Len(t) - Len(p))  BY <1>1, <1>2, <2>2
    <3>3. OnPath(t[i - 1]) /\ t[i - 1].who = p[Len(t) + 1 - (i - 1)]  BY <3>1, <3>2 DEF OnRoute
    <3>4. Len(st) + 1 - i \in 1 .. Len(p) /\ Len(t) + 1 - (i - 1) = Len(st) + 1 - i
      BY <1>1, <1>2, <2>2
    <3> QED  BY <1>1, <2>0, <3>1, <3>3, <3>4
  <2> QED  BY <2>1, <2>2
<1>4. Len(q) <= Len(st)  BY <1>1, <1>2
<1>5. OnRoute(q, st)  BY <1>3, <1>4 DEF OnRoute
<1> QED  BY <1>5 DEF q

(* When the innermost frame is on the route, every frame is. *)
LEMMA RouteTop ==
  ASSUME NEW t, IsSeq(t), NEW p, IsSeq(p), OnRoute(p, t), t # <<>> => OnPath(t[1])
  PROVE  Len(p) = Len(t)
<1>1. Len(p) \in Nat /\ Len(t) \in Nat /\ DOMAIN t = 1 .. Len(t) /\ (t # <<>> <=> Len(t) > 0)
  BY SeqHas
<1>2. CASE t = <<>>  BY <1>1, <1>2 DEF OnRoute
<1>3. CASE t # <<>>
  <2>1. 1 \in DOMAIN t  BY <1>1, <1>3
  <2>2. ~(1 <= Len(t) - Len(p))  BY <1>3, <2>1 DEF OnRoute
  <2> QED  BY <1>1, <2>2 DEF OnRoute
<1> QED  BY <1>2, <1>3

(* The innermost name goes off path with its frame. *)
LEMMA RouteClose ==
  ASSUME NEW st, NEW f, NEW t, Cons(st, f, t), OnPath(f), NEW p, IsSeq(p), OnRoute(p, st)
  PROVE  OnRoute(SubSeq(p, 1, Len(p) - 1), t)
<1> DEFINE q == SubSeq(p, 1, Len(p) - 1)
           T == {p[i] : i \in DOMAIN p}
<1>1. Len(p) \in Nat /\ DOMAIN p = 1 .. Len(p)  BY SeqHas
<1>2. /\ Len(t) \in Nat /\ Len(st) = Len(t) + 1
      /\ DOMAIN t = 1 .. Len(t) /\ DOMAIN st = 1 .. Len(t) + 1
      /\ st[1] = f /\ \A i \in 1 .. Len(t) : st[i + 1] = t[i]
  BY DEF Cons
<1>3. Len(p) = Len(st)
  <2>1. IsSeq(st) /\ st[1] = f  BY DEF Cons
  <2> QED  BY <2>1, RouteTop
<1>4. Len(q) = Len(p) - 1 /\ \A i \in 1 .. Len(p) - 1 : q[i] = p[i]
  <2>1. \A i \in 1 .. Len(p) - 1 : p[i] \in T  BY <1>1
  <2>2. Len(p) - 1 \in Int /\ 1 \in Int  BY <1>1
  <2> DEFINE m == Len(p) - 1
  <2>3. m \in Int /\ \A i \in 1 .. m : p[i] \in T  BY <2>1, <2>2
  <2>4. m >= 0  BY <1>2, <1>3
  <2> HIDE DEF m, T
  <2>5. /\ Len(SubSeq(p, 1, m)) = IF 1 <= m THEN m - 1 + 1 ELSE 0
        /\ \A i \in 1 .. m - 1 + 1 : SubSeq(p, 1, m)[i] = p[1 + i - 1]
    BY <2>2, <2>3, SubSeqProperties
  <2>6. Len(SubSeq(p, 1, m)) = m /\ \A i \in 1 .. m : SubSeq(p, 1, m)[i] = p[i]
    BY <2>3, <2>4, <2>5
  <2> QED  BY <2>6 DEF m
<1> HIDE DEF q
<1>5. ASSUME NEW i \in DOMAIN t
      PROVE  ~(i <= Len(t) - Len(q)) /\ OnPath(t[i]) /\ t[i].who = q[Len(t) + 1 - i]
  <2>1. i + 1 \in DOMAIN st /\ st[i + 1] = t[i]  BY <1>2
  <2>2. ~(i + 1 <= Len(st) - Len(p))  BY <1>2, <1>3
  <2>3. OnPath(t[i]) /\ t[i].who = p[Len(st) + 1 - (i + 1)]  BY <2>1, <2>2 DEF OnRoute
  <2>4. /\ Len(t) + 1 - i \in 1 .. Len(p) - 1 /\ Len(st) + 1 - (i + 1) = Len(t) + 1 - i
        /\ ~(i <= Len(t) - Len(q))
    BY <1>1, <1>2, <1>3, <1>4
  <2> QED  BY <1>4, <2>3, <2>4
<1>6. Len(q) <= Len(t)  BY <1>2, <1>3, <1>4
<1>7. OnRoute(q, t)  BY <1>5, <1>6 DEF OnRoute
<1> QED  BY <1>7 DEF q

(* The frame on top goes on. *)
LEMMA RouteSwap ==
  ASSUME NEW st, NEW f, NEW t, Cons(st, f, t), NEW su, NEW g, Cons(su, g, t),
         g.at \in {"walk", "body"} <=> f.at \in {"walk", "body"}, g.who = f.who,
         NEW p, OnRoute(p, st)
  PROVE  OnRoute(p, su)
<1>1. Len(su) = Len(st) /\ DOMAIN su = DOMAIN st  BY DEF Cons
<1>2. ASSUME NEW i \in DOMAIN st
      PROVE  su[i].who = st[i].who /\ (OnPath(su[i]) <=> OnPath(st[i]))
  <2>1. CASE i = 1
    <3>1. su[i] = g /\ st[i] = f  BY <2>1 DEF Cons
    <3> QED  BY <3>1 DEF OnPath
  <2>2. CASE i # 1
    <3>1. i - 1 \in 1 .. Len(t) /\ i = (i - 1) + 1  BY <2>2 DEF Cons
    <3>2. su[i] = t[i - 1] /\ st[i] = t[i - 1]  BY <3>1 DEF Cons
    <3> QED  BY <3>2
  <2> QED  BY <2>1, <2>2
<1> QED  BY <1>1, <1>2 DEF OnRoute
----------------------------------------------------------------------------
(* A step of a cycle is a static require or a call in progress.              *)
RealStep(n, m, along, E) == m \in E[n] \/ <<n, m>> \in along

RealCycle(c, E, D) ==
  \A k \in 1 .. Len(c.names) - 1 :
    c.names[k] \in D /\ RealStep(c.names[k], c.names[k + 1], c.along, E)

(* The frame on top asks for n, which is being visited. *)
AsksFor(g, n, E) ==
  \/ g.at = "walk" /\ n \in E[g.who]
  \/ g.at = "body" /\ g.wait # NoCall /\ g.wait[2] = n

Closing(p, b, n, E, S, F, D) ==
  /\ IsSeq(p) /\ IsSeq(b) /\ b # <<>> /\ OnRoute(p, b) /\ Chain(b, E, S, F)
  /\ AsksFor(b[1], n, E)
  /\ \A i \in DOMAIN b : OnPath(b[i]) => b[i].who \in D

CycleFrom(p, b, n, from) ==
  [names |-> Append(SubSeq(p, from, Len(p)), n), along |-> Following(b)]

(* A body that waits in a call is a step of the cycle. *)
LEMMA CalledStep ==
  ASSUME NEW b, NEW i \in DOMAIN b, b[i].at = "body", b[i].wait # NoCall
  PROVE  <<b[i].who, b[i].wait[2]>> \in Following(b)
  BY DEF Following

(* The place on a stack of l frames of what comes k-th on the route from from. *)
Place(l, from, m, k, j, i) ==
  /\ j \in 1 .. l /\ i \in 1 .. l /\ j = from + k - 1 /\ l + 1 - i = j
  /\ k = m => i = 1
  /\ k # m => /\ k + 1 \in 1 .. m /\ from + (k + 1) - 1 = j + 1 /\ j + 1 \in 1 .. l
              /\ i - 1 \in 1 .. l /\ (i - 1) + 1 = i /\ l + 1 - (i - 1) = j + 1

(* There is such a place. *)
LEMMA PlaceIs ==
  ASSUME NEW l \in Nat, NEW from \in 1 .. l, NEW m, m = l - from + 1, NEW k \in 1 .. m
  PROVE  \E j, i : Place(l, from, m, k, j, i)
<1> DEFINE j == from + k - 1
           i == l + 1 - j
<1>1. Place(l, from, m, k, j, i)  BY DEF Place
<1> QED  BY <1>1

(* The names on path from some on, closed by the one asked for, are a        *)
(* cycle.                                                                    *)
LEMMA ReportReal ==
  ASSUME NEW p, NEW b, NEW n, NEW E, NEW S, NEW F, NEW D, Closing(p, b, n, E, S, F, D),
         NEW from \in DOMAIN p
  PROVE  RealCycle(CycleFrom(p, b, n, from), E, D)
<1> DEFINE q == SubSeq(p, from, Len(p))
           T == {p[i] : i \in DOMAIN p}
           ns == Append(q, n)
<1>1. Len(p) \in Nat /\ DOMAIN p = 1 .. Len(p) /\ Len(b) \in Nat /\ DOMAIN b = 1 .. Len(b)
  BY SeqHas DEF Closing
<1>2. /\ OnPath(b[1]) /\ AsksFor(b[1], n, E) /\ OnRoute(p, b)
      /\ \A i \in DOMAIN b : OnPath(b[i]) => b[i].who \in D
  BY DEF Closing, AsksFor, OnPath
<1>3. Len(p) = Len(b)  BY <1>2, RouteTop DEF Closing
<1>4. \A i \in DOMAIN b : OnPath(b[i]) /\ b[i].who = p[Len(b) + 1 - i]
  BY <1>1, <1>2, <1>3 DEF OnRoute
<1>5. q \in Seq(T) /\ Len(q) = Len(p) - from + 1 /\ \A i \in 1 .. Len(p) - from + 1 : q[i] = p[from + i - 1]
  <2>1. from \in Int /\ Len(p) \in Int /\ \A i \in from .. Len(p) : p[i] \in T  BY <1>1
  <2> DEFINE m == Len(p)
  <2>2. m \in Int /\ from <= m /\ \A i \in from .. m : p[i] \in T  BY <1>1, <2>1
  <2> HIDE DEF m, T
  <2>3. /\ SubSeq(p, from, m) \in Seq(T)
        /\ Len(SubSeq(p, from, m)) = IF from <= m THEN m - from + 1 ELSE 0
        /\ \A i \in 1 .. m - from + 1 : SubSeq(p, from, m)[i] = p[from + i - 1]
    BY <2>1, <2>2, SubSeqProperties
  <2> QED  BY <2>2, <2>3 DEF m
<1>6. IsSeq(q)  BY <1>5, SeqIs
<1> HIDE DEF q, T
<1>7. /\ Len(ns) = Len(q) + 1 /\ Len(q) \in Nat /\ ns[Len(q) + 1] = n
      /\ \A i \in 1 .. Len(q) : ns[i] = q[i]
  BY <1>6, AppendSeq
<1> HIDE DEF ns
<1>8. ASSUME NEW k \in 1 .. Len(ns) - 1
      PROVE  ns[k] \in D /\ RealStep(ns[k], ns[k + 1], Following(b), E)
  <2>0. k \in 1 .. Len(q)  BY <1>7
  <2>1. PICK j, i : Place(Len(p), from, Len(q), k, j, i)
    <3> DEFINE l == Len(p)
               m == Len(q)
    <3>1. l \in Nat /\ from \in 1 .. l /\ m = l - from + 1 /\ k \in 1 .. m  BY <1>1, <1>5, <2>0
    <3> HIDE DEF l, m
    <3>2. \E j, i : Place(l, from, m, k, j, i)  BY <3>1, PlaceIs
    <3> QED  BY <3>2 DEF l, m
  <2>1a. /\ j \in 1 .. Len(p) /\ i \in 1 .. Len(b) /\ j = from + k - 1 /\ Len(b) + 1 - i = j
         /\ k = Len(q) => i = 1
         /\ k # Len(q) => /\ k + 1 \in 1 .. Len(q) /\ from + (k + 1) - 1 = j + 1 /\ j + 1 \in 1 .. Len(p)
                          /\ i - 1 \in 1 .. Len(b) /\ (i - 1) + 1 = i /\ Len(b) + 1 - (i - 1) = j + 1
    <3> DEFINE l == Len(p)
               m == Len(q)
    <3>1. Place(l, from, m, k, j, i) /\ Len(b) = l  BY <1>3, <2>1
    <3> HIDE DEF l, m
    <3>2. /\ j \in 1 .. l /\ i \in 1 .. l /\ j = from + k - 1 /\ l + 1 - i = j
          /\ k = m => i = 1
          /\ k # m => /\ k + 1 \in 1 .. m /\ from + (k + 1) - 1 = j + 1 /\ j + 1 \in 1 .. l
                      /\ i - 1 \in 1 .. l /\ (i - 1) + 1 = i /\ l + 1 - (i - 1) = j + 1
      BY <3>1 DEF Place
    <3> QED  BY <3>1, <3>2 DEF l, m
  <2>2. ns[k] = p[j]
    <3>1. ns[k] = q[k] /\ q[k] = p[from + k - 1]  BY <1>5, <1>7, <2>0
    <3> QED  BY <2>1a, <3>1
  <2>3. i \in DOMAIN b /\ OnPath(b[i]) /\ b[i].who = p[j] /\ b[i].who \in D
    BY <1>1, <1>2, <1>4, <2>1a
  <2>4. CASE k = Len(q)
    <3>1. i = 1 /\ ns[k + 1] = n  BY <1>7, <2>1a, <2>4
    <3>2. RealStep(b[1].who, n, Following(b), E)
      <4>1. 1 \in DOMAIN b  BY <2>3, <3>1
      <4> QED  BY <1>2, <4>1, CalledStep DEF AsksFor, RealStep
    <3> QED  BY <2>2, <2>3, <3>1, <3>2
  <2>5. CASE k # Len(q)
    <3>1. /\ ns[k + 1] = p[j + 1]
          /\ i - 1 \in DOMAIN b /\ (i - 1) + 1 = i /\ Len(b) + 1 - (i - 1) = j + 1
      <4>1. ns[k + 1] = q[k + 1]  BY <1>7, <2>1a, <2>5
      <4>2. q[k + 1] = p[from + (k + 1) - 1]  BY <1>5, <2>1a, <2>5
      <4> QED  BY <1>1, <2>1a, <2>5, <4>1, <4>2
    <3>2. OnPath(b[i - 1]) /\ b[i - 1].who = p[j + 1]  BY <1>4, <3>1
    <3>3. Serves(b[i - 1], b[i], E, S, F)
      <4> DEFINE h == i - 1
      <4>1. h \in DOMAIN b /\ h + 1 \in DOMAIN b /\ h + 1 = i  BY <2>3, <3>1
      <4> HIDE DEF h
      <4>2. Serves(b[h], b[h + 1], E, S, F)  BY <4>1 DEF Closing, Chain
      <4> QED  BY <4>1, <4>2 DEF h
    <3>4. RealStep(b[i].who, b[i - 1].who, Following(b), E)
      <4> DEFINE f == b[i - 1]
                 g == b[i]
      <4>1. Serves(f, g, E, S, F) /\ OnPath(f)  BY <3>2, <3>3
      <4>2. g.at = "body" /\ g.wait # NoCall => <<g.who, g.wait[2]>> \in Following(b)
        BY <2>3, CalledStep
      <4> HIDE DEF f, g
      <4>4. f.who \in E[g.who] \/ (g.at = "body" /\ g.wait # NoCall /\ g.wait[2] = f.who)
        BY <4>1 DEF Serves
      <4> QED  BY <4>2, <4>4 DEF RealStep, f, g
    <3> QED  BY <2>2, <2>3, <3>1, <3>2, <3>4
  <2> QED  BY <2>4, <2>5
<1> QED  BY <1>8 DEF RealCycle, CycleFrom, q, ns
----------------------------------------------------------------------------
RouteInv == OnRoute(path, stack)

CycleInv == RealCycle(cycle, StaticEdges, Named)

(* path is a sequence. *)
LEMMA PathSeq == ASSUME TypeInv PROVE IsSeq(path)
  BY SeqIs DEF TypeInv, InMarks

(* The stack a call comes back to has the same names on path. *)
LEMMA RouteGone ==
  ASSUME TypeInv, RouteInv, NEW g, GoesOn(g)
  PROVE  IsSeq(<<g>> \o Below) /\ OnRoute(path, <<g>> \o Below)
<1> DEFINE b == <<g>> \o Below
           p == path
<1>1. /\ Cons(stack, Top, Below) /\ Cons(b, g, Below) /\ IsSeq(b) /\ Like(g, Top)
  BY GoneOn
<1>2. g.who = Top.who /\ (g.at \in {"walk", "body"} <=> Top.at \in {"walk", "body"})
  BY <1>1 DEF Like
<1>3. OnRoute(p, stack)  BY DEF RouteInv
<1> HIDE DEF b, p, Top, Below
<1>4. OnRoute(p, b)  BY <1>1, <1>2, <1>3, RouteSwap
<1> QED  BY <1>1, <1>4 DEF b, p

(* A probe's frame on top leaves the route alone. *)
LEMMA RoutePush ==
  ASSUME NEW b, IsSeq(b), NEW f, ~OnPath(f), NEW p, IsSeq(p), OnRoute(p, b)
  PROVE  OnRoute(p, <<f>> \o b)
<1>1. Cons(<<f>> \o b, f, b)  BY ConsSeq
<1> DEFINE su == <<f>> \o b
<1>2. Cons(su, f, b)  BY <1>1
<1> HIDE DEF su
<1>3. OnRoute(p, su)  BY <1>2, RouteAside
<1> QED  BY <1>3 DEF su

(* A call asks for a name from the top of the route. *)
LEMMA RouteEnter ==
  ASSUME TypeInv, NEW n \in Named, NEW forced \in BOOLEAN, NEW b, Enter(n, forced, b),
         IsSeq(b), OnRoute(path, b), b # <<>> => OnPath(b[1])
  PROVE  OnRoute(path', stack')
<1>1. \/ stack' = b /\ path' = path
      \/ Opens(n, forced, b)
  <2>1. /\ \A m \in Name : visit'[m] = visit[m]
                              \/ (m = n /\ visit[m] \in {"new", "skipped"} /\ visit'[m] = "visiting")
        /\ \/ stack' = b /\ ret' = "ok" /\ Done(n, forced) /\ UNCHANGED <<path, cycle>>
           \/ stack' = b /\ ret' = "err" /\ visit[n] = "failed" /\ UNCHANGED <<path, cycle>>
           \/ /\ stack' = b /\ ret' = "err" /\ visit[n] = "visiting" /\ path' = path
              /\ cycle' = ReportCycle(n, b)
           \/ Opens(n, forced, b) /\ ret' = "none"
    BY EnterIs
  <2> QED  BY <2>1
<1>2. CASE stack' = b /\ path' = path  BY <1>2
<1>3. CASE Opens(n, forced, b)
  <2>1. path' = Append(path, n) /\ \E f : stack' = <<f>> \o b /\ f.at = "walk" /\ f.who = n
    BY <1>3 DEF Opens
  <2>2. PICK f : stack' = <<f>> \o b /\ f.at = "walk" /\ f.who = n  BY <2>1
  <2> DEFINE su == <<f>> \o b
             p == path
  <2>3. Cons(su, f, b) /\ OnPath(f) /\ IsSeq(p) /\ OnRoute(p, b)
    BY <2>2, ConsSeq, PathSeq DEF OnPath
  <2> HIDE DEF su, p
  <2>4. Len(p) = Len(b)  BY <2>3, RouteTop
  <2>5. OnRoute(Append(p, f.who), su)  BY <2>3, <2>4, RouteOpen
  <2> QED  BY <2>1, <2>2, <2>5 DEF su, p
<1> QED  BY <1>1, <1>2, <1>3

(* Every step keeps path the route of the stack. *)
LEMMA RouteNext == ASSUME TypeInv, VisitInv, RouteInv, [Next]_vars PROVE RouteInv'
<1>0. OnRoute(path, stack) /\ IsSeq(path)  BY PathSeq DEF RouteInv
<1> SUFFICES OnRoute(path', stack')  BY DEF RouteInv
<1>1. Moves  BY StepMoves
<1>2. stack # <<>> => Cons(stack, Top, Below) /\ IsSeq(Below)  BY TopIs
<1>3. stack # <<>> /\ ~OnPath(Top) => OnRoute(path, Below)
  <2> HIDE DEF Top, Below
  <2> QED  BY <1>0, <1>2, RouteAside
<1>4. IsSeq(<<>>)  BY EmptySeq DEF IsSeq
<1>5. CASE Rests  BY <1>0, <1>5 DEF Rests, record
<1>6. CASE Goes
  <2>1. PICK g : GoesOn(g) /\ stack' = <<g>> \o Below  BY <1>6 DEF Goes
  <2>2. path' = path  BY <1>6 DEF Goes, record
  <2> QED  BY <2>1, <2>2, RouteGone
<1>7. CASE Reads
  <2>1. PICK f, b : /\ stack' = <<f>> \o b /\ f.at = "need"
                    /\ (stack = <<>> /\ b = <<>>) \/ \E g : GoesOn(g) /\ b = <<g>> \o Below
    BY <1>7 DEF Reads
  <2>2. path' = path /\ ~OnPath(f)  BY <1>7, <2>1 DEF Reads, record, OnPath
  <2>3. IsSeq(b) /\ OnRoute(path, b)
    <3>1. CASE \E g : GoesOn(g) /\ b = <<g>> \o Below  BY <3>1, RouteGone
    <3> QED  BY <1>0, <1>4, <2>1, <3>1
  <2>4. OnRoute(path, <<f>> \o b)  BY <1>0, <2>2, <2>3, RoutePush
  <2> QED  BY <2>1, <2>2, <2>4
<1>8. CASE Enters
  <2>1. PICK n \in Named, forced \in BOOLEAN :
          \E b : /\ Enter(n, forced, b)
                 /\ \/ stack = <<>> /\ b = <<>>
                    \/ \E g : GoesOn(g) /\ b = <<g>> \o Below /\ g.at \in {"walk", "body"}
    BY <1>8 DEF Enters
  <2>2. PICK b : /\ Enter(n, forced, b)
                 /\ \/ stack = <<>> /\ b = <<>>
                    \/ \E g : GoesOn(g) /\ b = <<g>> \o Below /\ g.at \in {"walk", "body"}
    BY <2>1
  <2>3. IsSeq(b) /\ OnRoute(path, b) /\ (b # <<>> => OnPath(b[1]))
    <3>1. CASE \E g : GoesOn(g) /\ b = <<g>> \o Below /\ g.at \in {"walk", "body"}
      <4>1. PICK g : GoesOn(g) /\ b = <<g>> \o Below /\ g.at \in {"walk", "body"}  BY <3>1
      <4>2. Cons(<<g>> \o Below, g, Below)  BY <4>1, GoneOn
      <4>3. (<<g>> \o Below)[1] = g  BY <4>2, ConsFirst
      <4> QED  BY <4>1, <4>3, RouteGone DEF OnPath
    <3> QED  BY <1>0, <1>4, <2>2, <3>1
  <2> QED  BY <2>2, <2>3, RouteEnter
<1>9. CASE Leaves  BY <1>3, <1>9 DEF Leaves, record
<1>10. CASE Produces
  <2>1. PICK f : stack' = <<f>> \o Below /\ f.at = "produce"  BY <1>10 DEF Produces
  <2>2. path' = path /\ ~OnPath(f) /\ IsSeq(Below) /\ OnRoute(path, Below)
    BY <1>2, <1>3, <1>10, <2>1 DEF Produces, record, OnPath
  <2>3. OnRoute(path, <<f>> \o Below)  BY <1>0, <2>2, RoutePush
  <2> QED  BY <2>1, <2>2, <2>3
<1>11. CASE Finalizes
  <2>1. PICK f : stack' = <<f>> /\ f.at = "callback"  BY <1>11 DEF Finalizes
  <2>2. path' = path /\ ~OnPath(f) /\ OnRoute(path, <<>>)
    BY <1>0, <1>11, <2>1 DEF Finalizes, record, OnPath
  <2> DEFINE t == <<>>
  <2>3. IsSeq(t) /\ OnRoute(path, t) /\ <<f>> \o t = <<f>>  BY <1>4, <2>2, ConsOne
  <2> HIDE DEF t
  <2>4. OnRoute(path, <<f>> \o t)  BY <1>0, <2>2, <2>3, RoutePush
  <2> QED  BY <2>1, <2>2, <2>3, <2>4
<1>12. CASE CallBody
  <2>1. stack # <<>> /\ Top.at = "walk" /\ path' = path  BY <1>12, CallIs
  <2>2. PICK g : stack' = <<g>> \o Below /\ g.at = "body" /\ g.who = Top.who  BY <1>12, CallIs
  <2> DEFINE su == <<g>> \o Below
             p == path
  <2>3. Cons(su, g, Below) /\ Cons(stack, Top, Below) /\ OnRoute(p, stack)
    BY <1>0, <1>2, <2>1, ConsSeq
  <2> HIDE DEF su, p, Top, Below
  <2>4. OnRoute(p, su)  BY <2>1, <2>2, <2>3, RouteSwap
  <2> QED  BY <2>1, <2>2, <2>4 DEF su, p
<1>13. CASE Visiting /\ ~CallBody
  <2>1. Ends  BY <1>13, EndsIs
  <2>2. stack # <<>> /\ OnPath(Top) /\ stack' = Below /\ path' = SubSeq(path, 1, Len(path) - 1)
    BY <2>1 DEF Ends, PopPath
  <2> DEFINE p == path
  <2>3. IsSeq(p) /\ OnRoute(p, stack) /\ Cons(stack, Top, Below)  BY <1>0, <1>2, <2>2
  <2> HIDE DEF p, Top, Below
  <2>4. OnRoute(SubSeq(p, 1, Len(p) - 1), Below)  BY <2>2, <2>3, RouteClose
  <2> QED  BY <2>2, <2>4 DEF p
<1> QED
  BY <1>1, <1>5, <1>6, <1>7, <1>8, <1>9, <1>10, <1>11, <1>12, <1>13 DEF Moves

(* It is at first, *)
LEMMA RouteInit == ASSUME Init PROVE RouteInv
  BY RouteNil DEF Init, RouteInv

(* so it is always. *)
LEMMA RouteInvariance == Spec => []RouteInv
<1>1. Init => RouteInv  BY RouteInit
<1>2. TypeInv /\ VisitInv /\ RouteInv /\ [Next]_vars => RouteInv'  BY RouteNext
<1> QED  BY <1>1, <1>2, TypeInvariance, VisitInvariance, PTL DEF Spec
----------------------------------------------------------------------------
(* A name being visited is on path. *)
LEMMA OnPathNow ==
  ASSUME NEW p, IsSeq(p), NEW st, IsSeq(st), OnRoute(p, st), NEW n \in Now(st)
  PROVE  \E j \in DOMAIN p : p[j] = n
<1>1. PICK i \in DOMAIN st : Visits(st[i]) /\ st[i].who = n  BY DEF Now
<1>2. OnPath(st[i])  BY <1>1 DEF Visits, OnPath
<1>3. Len(p) \in Nat /\ DOMAIN p = 1 .. Len(p) /\ Len(st) \in Nat /\ DOMAIN st = 1 .. Len(st)
  BY SeqHas
<1>4. ~(i <= Len(st) - Len(p)) /\ n = p[Len(st) + 1 - i]  BY <1>1, <1>2 DEF OnRoute
<1>5. Len(st) + 1 - i \in 1 .. Len(p)
  <2> DEFINE l == Len(st)
             m == Len(p)
  <2>1. l \in Nat /\ m \in Nat /\ i \in 1 .. l /\ ~(i <= l - m)  BY <1>1, <1>3, <1>4
  <2> HIDE DEF l, m
  <2>2. l + 1 - i \in 1 .. m  BY <2>1
  <2> QED  BY <2>2 DEF l, m
<1> QED  BY <1>3, <1>4, <1>5

(* The cycle reported starts where the name is on path. *)
LEMMA ReportIs ==
  ASSUME TypeInv, NEW n, NEW b, \E j \in DOMAIN path : path[j] = n
  PROVE  \E from \in DOMAIN path : ReportCycle(n, b) = CycleFrom(path, b, n, from)
<1> DEFINE T == {j \in DOMAIN path : path[j] = n}
<1>1. DOMAIN path \subseteq Nat  BY PathSeq, SeqHas
<1>2. \E x \in T : \A y \in T : x <= y
  <2>1. T \subseteq Nat /\ T # {}  BY <1>1
  <2> HIDE DEF T
  <2> QED  BY <2>1, LeastNat
<1>3. \E i \in DOMAIN path : path[i] = n /\ \A j \in DOMAIN path : path[j] = n => i <= j
  BY <1>2
<1> DEFINE from == CHOOSE i \in DOMAIN path :
                     path[i] = n /\ \A j \in DOMAIN path : path[j] = n => i <= j
<1>4. from \in DOMAIN path  BY <1>3
<1>5. ReportCycle(n, b) = CycleFrom(path, b, n, from)  BY DEF ReportCycle, CycleFrom
<1> HIDE DEF from
<1> QED  BY <1>4, <1>5

(* What a frame that asks leaves to come back to. *)
LEMMA AsksChain ==
  ASSUME TypeInv, WorkInv, NEW n, NEW forced, NEW b, NEW g, Asks(g, n, forced, b)
  PROVE  /\ Cons(b, g, Below) /\ IsSeq(b) /\ b # <<>> /\ b[1] = g
         /\ Chain(b, StaticEdges, Sorted, Forced)
         /\ g.at = "walk" => n \in StaticEdges[g.who]
<1> DEFINE E == StaticEdges
           S == Sorted
           F == Forced
<1>1. /\ Cons(stack, Top, Below) /\ Cons(b, g, Below) /\ IsSeq(b) /\ Like(g, Top)
  BY GoneOn DEF Asks
<1>2. Chain(stack, E, S, F)  BY DEF WorkInv, Works
<1>3. \/ g.at = "walk" /\ n \in Top.todo /\ g.todo = Top.todo \ {n} /\ forced = g.forced
      \/ /\ g.at = "body" /\ g.wait # NoCall /\ g.wait[1] # "read" /\ g.wait[2] = n /\ forced
         /\ g.todo = Top.todo
  BY DEF Asks
<1> HIDE DEF E, S, F, Top, Below
<1>4. FrameWork(Top, E, S, F)  BY <1>1, <1>2, ChainCons
<1>5. g.at = Top.at /\ g.who = Top.who /\ g.forced = Top.forced  BY <1>1 DEF Like
<1>6. g.at = "body" => Left(g, E, S, F) = Left(Top, E, S, F)  BY <1>3, <1>5 DEF Left
<1>7. FrameWork(g, E, S, F)
  <2>1. g.todo \subseteq Top.todo  BY <1>3
  <2>2. g.at = "walk" => g.todo \subseteq E[g.who]  BY <1>4, <1>5, <2>1 DEF FrameWork
  <2>3. g.at = "body" => g.todo = {}  BY <1>4, <1>5, <2>1 DEF FrameWork
  <2>4. g.at = "body" /\ g.forced => Left(g, E, S, F) = {}  BY <1>4, <1>5, <1>6 DEF FrameWork
  <2> QED  BY <2>2, <2>3, <2>4 DEF FrameWork
<1>8. Chain(b, E, S, F)  BY <1>1, <1>2, <1>7, ChainSwap
<1>9. g.at = "walk" => n \in E[g.who]  BY <1>3, <1>4, <1>5 DEF FrameWork
<1>10. b # <<>> /\ b[1] = g  BY <1>1, ConsFirst
<1> QED  BY <1>1, <1>8, <1>9, <1>10 DEF E, S, F

(* A cycle stays one when more is declared. *)
LEMMA RealStays ==
  ASSUME NEW c, NEW E, NEW D, RealCycle(c, E, D), NEW H, NEW B,
         \A n \in D : n \in B /\ H[n] = E[n]
  PROVE  RealCycle(c, H, B)
  BY DEF RealCycle, RealStep

(* The cycle ensure_invoked reports for a name being visited is one. *)
LEMMA CycleReported ==
  ASSUME TypeInv, VisitInv, WorkInv, RouteInv, NEW n \in Named, visit[n] = "visiting",
         NEW forced, NEW b, NEW g, Asks(g, n, forced, b)
  PROVE  RealCycle(ReportCycle(n, b), StaticEdges, Named)
<1>1. /\ Cons(b, g, Below) /\ IsSeq(b) /\ b # <<>> /\ b[1] = g
      /\ Chain(b, StaticEdges, Sorted, Forced)
      /\ g.at = "walk" => n \in StaticEdges[g.who]
  BY AsksChain
<1>2. OnRoute(path, b) /\ IsSeq(path)
  <2>1. GoesOn(g) /\ b = <<g>> \o Below  BY DEF Asks
  <2> QED  BY <2>1, RouteGone, PathSeq
<1>3. AsksFor(b[1], n, StaticEdges)  BY <1>1 DEF AsksFor, Asks
<1>4. \A i \in DOMAIN b : OnPath(b[i]) => b[i].who \in Named
  <2>1. stack # <<>> /\ FrameOK(g, Named, DOMAIN probes)  BY DEF Asks, GoesOn
  <2>2. Stacked(stack, slot, Named, DOMAIN probes) /\ Cons(stack, Top, Below)
    BY <2>1, TopIs DEF TypeInv, InStack
  <2> DEFINE D == Named
             K == DOMAIN probes
             s == slot
  <2>3. Stacked(stack, s, D, K) /\ FrameOK(g, D, K)  BY <2>1, <2>2
  <2> HIDE DEF D, K, s, Top, Below
  <2>4. \A i \in DOMAIN Below : FrameOK(Below[i], D, K)  BY <2>2, <2>3, StackedCons
  <2>5. /\ 1 \in DOMAIN b /\ b[1] = g
        /\ \A i \in DOMAIN Below : i + 1 \in DOMAIN b /\ b[i + 1] = Below[i] /\ i \in Nat /\ i + 1 # 1
        /\ \A i \in DOMAIN b : i = 1 \/ \E j \in DOMAIN Below : i = j + 1
    BY <1>1, ConsIndex
  <2>6. \A i \in DOMAIN b : FrameOK(b[i], D, K)  BY <2>3, <2>4, <2>5
  <2> QED  BY <2>6 DEF FrameOK, D
<1>5. \E j \in DOMAIN path : path[j] = n
  <2> DEFINE p == path
             v == visit
             r == runs
  <2>1. n \in Name  BY NamedNames DEF TypeInv
  <2>2. IsSeq(p) /\ OnRoute(p, stack) /\ IsSeq(stack)
    BY <1>2 DEF RouteInv, TypeInv, InStack, Stacked
  <2>3. Visited(stack, v, r) /\ v[n] = "visiting"  BY DEF VisitInv
  <2> HIDE DEF p, v, r
  <2>4. n \in Now(stack)  BY <2>1, <2>3 DEF Visited
  <2>5. \E j \in DOMAIN p : p[j] = n  BY <2>2, <2>4, OnPathNow
  <2> QED  BY <2>5 DEF p
<1>6. PICK from \in DOMAIN path : ReportCycle(n, b) = CycleFrom(path, b, n, from)
  BY <1>5, ReportIs
<1> DEFINE p == path
           E == StaticEdges
           S == Sorted
           F == Forced
           D == Named
<1>7. /\ IsSeq(p) /\ IsSeq(b) /\ b # <<>> /\ OnRoute(p, b) /\ Chain(b, E, S, F)
      /\ AsksFor(b[1], n, E) /\ from \in DOMAIN p
      /\ \A i \in DOMAIN b : OnPath(b[i]) => b[i].who \in D
  BY <1>1, <1>2, <1>3, <1>4
<1>8. RealCycle(CycleFrom(p, b, n, from), E, D)
  <2> HIDE DEF p, E, S, F, D
  <2>1. Closing(p, b, n, E, S, F, D)  BY <1>7 DEF Closing
  <2> QED  BY <1>7, <2>1, ReportReal
<1> QED  BY <1>6, <1>8

(* Every step keeps the cycle last reported a cycle. *)
LEMMA CycleNext ==
  ASSUME TypeInv, VisitInv, WorkInv, RouteInv, CycleInv, [Next]_vars PROVE CycleInv'
<1>1. RealCycle(cycle', StaticEdges, Named)
  <2>1. CASE cycle' = cycle  BY <2>1 DEF CycleInv
  <2>2. CASE Rests \/ Goes \/ Reads \/ Leaves \/ Produces \/ Finalizes
    BY <2>1, <2>2 DEF Rests, Goes, Reads, Leaves, Produces, Finalizes, record
  <2>3. CASE Enters
    <3>1. PICK n \in Named, forced \in BOOLEAN :
            \E b : /\ Enter(n, forced, b)
                   /\ (stack = <<>> /\ b = <<>>) \/ \E g : Asks(g, n, forced, b)
      BY <2>3 DEF Enters, Asks
    <3>2. PICK b : /\ Enter(n, forced, b)
                   /\ (stack = <<>> /\ b = <<>>) \/ \E g : Asks(g, n, forced, b)
      BY <3>1
    <3>3. \/ cycle' = cycle
          \/ visit[n] = "visiting" /\ cycle' = ReportCycle(n, b)
      <4>1. /\ \A m \in Name : visit'[m] = visit[m]
                              \/ (m = n /\ visit[m] \in {"new", "skipped"} /\ visit'[m] = "visiting")
            /\ \/ stack' = b /\ ret' = "ok" /\ Done(n, forced) /\ UNCHANGED <<path, cycle>>
               \/ stack' = b /\ ret' = "err" /\ visit[n] = "failed" /\ UNCHANGED <<path, cycle>>
               \/ /\ stack' = b /\ ret' = "err" /\ visit[n] = "visiting" /\ path' = path
                  /\ cycle' = ReportCycle(n, b)
               \/ Opens(n, forced, b) /\ ret' = "none"
        BY <3>2, EnterIs
      <4> QED  BY <4>1 DEF Opens
    <3>4. CASE visit[n] = "visiting" /\ cycle' = ReportCycle(n, b)
      <4>1. stack # <<>>
        <5> DEFINE v == visit
                   r == runs
        <5>1. Visited(stack, v, r) /\ v[n] = "visiting" /\ n \in Name
          BY <3>4, NamedNames DEF VisitInv, TypeInv
        <5> HIDE DEF v, r
        <5>2. ASSUME stack = <<>> PROVE FALSE
          <6>1. Visited(<<>>, v, r)  BY <5>1, <5>2
          <6> QED  BY <5>1, <6>1, VisitedNil
        <5> QED  BY <5>2
      <4>2. PICK g : Asks(g, n, forced, b)  BY <3>2, <4>1
      <4> QED  BY <3>4, <4>2, CycleReported
    <3> QED  BY <2>1, <3>3, <3>4
  <2>4. CASE CallBody  BY <2>1, <2>4 DEF CallBody
  <2>5. CASE Visiting /\ ~CallBody
    <3>1. Ends  BY <2>5, EndsIs
    <3> QED  BY <2>1, <3>1 DEF Ends
  <2> QED  BY <2>2, <2>3, <2>4, <2>5, StepMoves DEF Moves
<1>2. \A n \in Named : n \in Named' /\ StaticEdges'[n] = StaticEdges[n]  BY EdgesStay
<1> DEFINE c == cycle'
           E == StaticEdges
           D == Named
           H == StaticEdges'
           B == Named'
<1>3. RealCycle(c, H, B)
  <2>1. RealCycle(c, E, D) /\ \A n \in D : n \in B /\ H[n] = E[n]  BY <1>1, <1>2
  <2> HIDE DEF c, E, D, H, B
  <2> QED  BY <2>1, RealStays
<1> QED  BY <1>3 DEF CycleInv

(* None is reported at first. *)
LEMMA CycleInit == ASSUME Init PROVE CycleInv
<1>1. cycle.names = <<>>  BY DEF Init
<1> QED  BY <1>1 DEF CycleInv, RealCycle

(* So the cycle last reported is always one. *)
LEMMA CycleInvariance == Spec => []CycleInv
<1>1. Init => CycleInv  BY CycleInit
<1>2. TypeInv /\ VisitInv /\ WorkInv /\ RouteInv /\ CycleInv /\ [Next]_vars => CycleInv'  BY CycleNext
<1> QED
  BY <1>1, <1>2, TypeInvariance, VisitInvariance, WorkInvariance, RouteInvariance, PTL DEF Spec

(* That is CyclesAreReal. *)
LEMMA RealGives == ASSUME TypeInv, CycleInv PROVE CyclesAreReal
<1> SUFFICES ASSUME NEW i \in 1 .. Len(cycle.names) - 1
             PROVE  \/ cycle.names[i + 1] \in DeclOf(cycle.names[i]).requires
                    \/ <<cycle.names[i], cycle.names[i + 1]>> \in cycle.along
  BY DEF CyclesAreReal
<1>1. /\ cycle.names[i] \in Named
      /\ RealStep(cycle.names[i], cycle.names[i + 1], cycle.along, StaticEdges)
  BY DEF CycleInv, RealCycle
<1>2. StaticEdges[cycle.names[i]] = DeclOf(cycle.names[i]).requires
  BY <1>1 DEF StaticEdges, Named
<1> QED  BY <1>1, <1>2 DEF RealStep

(* A cycle ensure_invoked reports is made of static requires and calls in    *)
(* progress, and the driver alone keeps the merged requires free of cycles.  *)
THEOREM CyclesExactCorrect == Spec => []CyclesExact
<1>1. TypeInv /\ CycleInv /\ EntryInv /\ AcyclicInv => CyclesExact
  BY RealGives, CaughtGives DEF CyclesExact
<1> QED  BY <1>1, TypeInvariance, CycleInvariance, EntryInvariance, AcyclicInvariance, PTL
=============================================================================
