---------------------------- MODULE RingsProofs ----------------------------
(***************************************************************************)
(* Proofs of the safety properties of Rings.tla, for all maps and every    *)
(* growth of the storage of m_Ways.                                        *)
(*                                                                         *)
(* The lists of process() keep their nodes because picking entries of a    *)
(* list keeps what they have (TotalPicked), and a ring is as long as the   *)
(* ways it is made of, which the stack of TrackRec's calls says (StackOf). *)
(*                                                                         *)
(* That the search overlooks nothing is an argument about parity.  At each *)
(* depth of the recursion the nodes collected so far lead from h to x.  If *)
(* they could be made a ring, some of the ways left over would meet evenly *)
(* at every node but x and h (Joinable); then one of them begins or ends   *)
(* at x, and without it the rest can be joined from its other end          *)
(* (JoinOne).  So a call that has failed for every way at x has shown that *)
(* there is no ring, and TriedOf says that this is so, at every depth, of  *)
(* the ways that the loop has passed.                                      *)
(*                                                                         *)
(* The parts before the invariant are about ways w, nodes N, marks M and   *)
(* a loop index f in general; the state comes in with the invariant.       *)
(***************************************************************************)
EXTENDS Rings, FiniteSetTheorems, SequenceTheorems, TLAPS

-----------------------------------------------------------------------------
(* Positions and their ranks *)

\* The numbers from 1 to n are n numbers.
LEMMA Interval ==
    ASSUME NEW n \in Nat
    PROVE  IsFiniteSet(1..n) /\ Cardinality(1..n) = n
<1>1. IsFiniteSet(1..n) /\ Cardinality(1..n) = IF 1 > n THEN 0 ELSE n - 1 + 1
    BY FS_Interval
<1>2. QED
    BY <1>1

\* The position in I of which there are k up to it.
Place(I, k) == CHOOSE i \in I : Rank(I, i) = k

\* The ranks of the positions in I are the numbers from 1 to how many they are.
LEMMA Ranks ==
    ASSUME NEW n \in Nat, NEW I \in SUBSET (1..n)
    PROVE  /\ IsFiniteSet(I) /\ Cardinality(I) \in Nat
           /\ \A i \in I : Rank(I, i) \in 1..Cardinality(I)
           /\ \A i, j \in I : Rank(I, i) = Rank(I, j) => i = j
           /\ \A k \in 1..Cardinality(I) : Place(I, k) \in I /\ Rank(I, Place(I, k)) = k
<1> DEFINE Below(i) == {j \in I : j <= i}
<1>1. IsFiniteSet(I) /\ Cardinality(I) \in Nat
    <2>1. IsFiniteSet(1..n)
        BY Interval
    <2>2. IsFiniteSet(I)
        BY <2>1, FS_Subset
    <2>3. QED
        BY <2>2, FS_CardinalityType
<1>2. \A i \in I : /\ IsFiniteSet(Below(i)) /\ Rank(I, i) \in Nat
                   /\ Rank(I, i) <= Cardinality(I)
    <2> TAKE i \in I
    <2>1. Below(i) \in SUBSET I
        OBVIOUS
    <2>2. IsFiniteSet(Below(i)) /\ Cardinality(Below(i)) <= Cardinality(I)
        BY <1>1, <2>1, FS_Subset
    <2>3. Cardinality(Below(i)) \in Nat
        BY <2>2, FS_CardinalityType
    <2>4. QED
        BY <2>2, <2>3 DEF Rank
<1>3. \A i \in I : Rank(I, i) # 0
    <2> TAKE i \in I
    <2>1. i \in Below(i)
        OBVIOUS
    <2>2. QED
        BY <2>1, <1>2, FS_EmptySet DEF Rank
<1>4. \A i \in I : Rank(I, i) \in 1..Cardinality(I)
    <2> TAKE i \in I
    <2>1. Rank(I, i) \in Nat /\ Rank(I, i) <= Cardinality(I) /\ Rank(I, i) # 0
        BY <1>2, <1>3
    <2> HIDE DEF Below
    <2>2. QED
        BY <1>1, <2>1
<1>5. ASSUME NEW i \in I, NEW j \in I, i < j
      PROVE  Rank(I, i) # Rank(I, j)
    <2>1. i \in Nat /\ j \in Nat
        OBVIOUS
    <2>2. Below(i) \in SUBSET Below(j)
        <3> SUFFICES ASSUME NEW k \in I, k <= i PROVE k <= j
            OBVIOUS
        <3>1. k \in Nat
            OBVIOUS
        <3>2. QED
            BY <3>1, <2>1, <1>5
    <2>3. j \in Below(j) /\ j \notin Below(i)
        BY <1>5, <2>1
    <2>4. Cardinality(Below(j)) # Cardinality(Below(i))
        BY <2>2, <2>3, <1>2, FS_Subset
    <2>5. QED
        BY <2>4 DEF Rank
<1>6. \A i, j \in I : Rank(I, i) = Rank(I, j) => i = j
    <2> TAKE i \in I, j \in I
    <2>1. i \in Nat /\ j \in Nat
        OBVIOUS
    <2>2. i < j \/ j < i \/ i = j
        BY <2>1
    <2>3. QED
        BY <2>2, <1>5
<1> DEFINE f == [i \in I |-> Rank(I, i)]
<1>7. f \in Injection(I, 1..Cardinality(I))
    BY <1>4, <1>6 DEF Injection, IsInjective
<1>8. IsFiniteSet(1..Cardinality(I)) /\ Cardinality(1..Cardinality(I)) = Cardinality(I)
    BY <1>1, Interval
<1>9. f \in Surjection(I, 1..Cardinality(I))
    BY <1>7, <1>8, FS_Injection
<1>10. \A k \in 1..Cardinality(I) : \E i \in I : Rank(I, i) = k
    BY <1>9 DEF Surjection
<1>11. \A k \in 1..Cardinality(I) : Place(I, k) \in I /\ Rank(I, Place(I, k)) = k
    BY <1>10 DEF Place
<1>12. QED
    BY <1>1, <1>4, <1>6, <1>11

\* What Pick returns: an element of s for each position of I.
LEMMA Picked ==
    ASSUME NEW S, NEW s \in Seq(S), NEW I \in SUBSET DOMAIN s
    PROVE  /\ Cardinality(I) \in Nat
           /\ Pick(s, I) \in Seq(S) /\ Len(Pick(s, I)) = Cardinality(I)
           /\ DOMAIN Pick(s, I) = 1..Cardinality(I)
           /\ \A k \in 1..Cardinality(I) :
                Place(I, k) \in I /\ Pick(s, I)[k] = s[Place(I, k)]
<1>1. DOMAIN s = 1..Len(s) /\ Len(s) \in Nat /\ \A i \in DOMAIN s : s[i] \in S
    OBVIOUS
<1>2. /\ Cardinality(I) \in Nat
      /\ \A k \in 1..Cardinality(I) : Place(I, k) \in I
    BY <1>1, Ranks
<1>3. Pick(s, I) = [k \in 1..Cardinality(I) |-> s[Place(I, k)]]
    BY DEF Pick, Place
<1>4. \A k \in 1..Cardinality(I) : s[Place(I, k)] \in S
    BY <1>1, <1>2
<1>5. QED
    BY <1>2, <1>3, <1>4

\* Whatever is picked comes from a position of I.
LEMMA OneOfPicked ==
    ASSUME NEW S, NEW s \in Seq(S), NEW I \in SUBSET DOMAIN s, NEW k \in DOMAIN Pick(s, I)
    PROVE  Pick(s, I)[k] \in {s[i] : i \in I}
<1>1. Place(I, k) \in I /\ Pick(s, I)[k] = s[Place(I, k)]
    BY Picked
<1>2. QED
    BY <1>1

-----------------------------------------------------------------------------
(* How many nodes the ways of a list have *)

\* The ways that a list of numbers names.
Of(ws, list) == [i \in DOMAIN list |-> ws[list[i]]]

\* The places of the nodes of the ways I, and how many there are.
Cells(w, I) == UNION {{i} \X DOMAIN w[i] : i \in I}

Total(w, I) == Cardinality(Cells(w, I))

\* One way has as many as it is long.
LEMMA CellsOfOne ==
    ASSUME NEW S, NEW w \in Seq(Seq(S)), NEW i \in DOMAIN w
    PROVE  IsFiniteSet(Cells(w, {i})) /\ Total(w, {i}) = Len(w[i])
<1>1. w[i] \in Seq(S) /\ DOMAIN w[i] = 1..Len(w[i]) /\ Len(w[i]) \in Nat
    OBVIOUS
<1>2. IsFiniteSet(DOMAIN w[i]) /\ Cardinality(DOMAIN w[i]) = Len(w[i])
    BY <1>1, Interval
<1>3. Cells(w, {i}) = {i} \X DOMAIN w[i]
    BY DEF Cells
<1>4. IsFiniteSet({i}) /\ Cardinality({i}) = 1
    BY FS_Singleton
<1>5. IsFiniteSet({i} \X DOMAIN w[i]) /\
      Cardinality({i} \X DOMAIN w[i]) = Cardinality({i}) * Cardinality(DOMAIN w[i])
    BY <1>2, <1>4, FS_Product
<1>6. Cardinality({i}) * Cardinality(DOMAIN w[i]) = Len(w[i])
    BY <1>1, <1>2, <1>4
<1>7. QED
    BY <1>3, <1>5, <1>6 DEF Total

\* They are finitely many.
LEMMA CellsFinite ==
    ASSUME NEW S, NEW w \in Seq(Seq(S)), NEW I \in SUBSET DOMAIN w
    PROVE  IsFiniteSet(Cells(w, I)) /\ Total(w, I) \in Nat
<1> DEFINE T == {{i} \X DOMAIN w[i] : i \in I}
           f == [i \in I |-> {i} \X DOMAIN w[i]]
<1>1. IsFiniteSet(I)
    <2>1. DOMAIN w = 1..Len(w) /\ Len(w) \in Nat
        OBVIOUS
    <2>2. IsFiniteSet(DOMAIN w)
        BY <2>1, Interval
    <2>3. QED
        BY <2>2, FS_Subset
<1>2. f \in Surjection(I, T)
    BY DEF Surjection
<1> HIDE DEF f
<1>3. IsFiniteSet(T)
    BY <1>1, <1>2, FS_Surjection
<1>4. \A i \in I : Cells(w, {i}) = {i} \X DOMAIN w[i]
    BY DEF Cells
<1>5. \A x \in T : IsFiniteSet(x)
    <2>1. \A i \in I : IsFiniteSet(Cells(w, {i}))
        BY CellsOfOne
    <2>2. QED
        BY <2>1, <1>4
<1>6. IsFiniteSet(UNION T)
    BY <1>3, <1>5, FS_UNION
<1>7. QED
    BY <1>6, FS_CardinalityType DEF Cells, Total

\* Different ways have different places.
LEMMA TotalOfTwo ==
    ASSUME NEW S, NEW w \in Seq(Seq(S)),
           NEW I \in SUBSET DOMAIN w, NEW J \in SUBSET DOMAIN w, I \cap J = {}
    PROVE  Total(w, I \cup J) = Total(w, I) + Total(w, J)
<1>1. IsFiniteSet(Cells(w, I)) /\ IsFiniteSet(Cells(w, J))
    BY CellsFinite
<1>2. Total(w, I) \in Nat /\ Total(w, J) \in Nat
    BY CellsFinite
<1>3. Cells(w, I \cup J) = Cells(w, I) \cup Cells(w, J)
    BY DEF Cells
<1>4. Cells(w, I) \cap Cells(w, J) = {}
    BY DEF Cells
<1>5. Cardinality(Cells(w, I) \cap Cells(w, J)) = 0
    BY <1>4, FS_EmptySet
<1>6. Cardinality(Cells(w, I) \cup Cells(w, J)) =
        Cardinality(Cells(w, I)) + Cardinality(Cells(w, J))
            - Cardinality(Cells(w, I) \cap Cells(w, J))
    BY <1>1, FS_Union
<1> DEFINE a == Cardinality(Cells(w, I))
           b == Cardinality(Cells(w, J))
<1>7. a \in Nat /\ b \in Nat
    BY <1>2 DEF Total
<1> HIDE DEF a, b
<1>8. Cardinality(Cells(w, I) \cup Cells(w, J)) = a + b
    BY <1>5, <1>6, <1>7 DEF a, b
<1>9. QED
    BY <1>3, <1>8 DEF Total, a, b

\* Picking keeps the nodes.
LEMMA TotalPicked ==
    ASSUME NEW S, NEW w \in Seq(Seq(S)), NEW I \in SUBSET DOMAIN w
    PROVE  Total(Pick(w, I), DOMAIN Pick(w, I)) = Total(w, I)
<1> DEFINE p == Pick(w, I)
           A == Cells(w, I)
           B == Cells(p, DOMAIN p)
           f == [x \in A |-> <<Rank(I, x[1]), x[2]>>]
<1>1. DOMAIN w = 1..Len(w) /\ Len(w) \in Nat
    OBVIOUS
<1>2. /\ \A i \in I : Rank(I, i) \in 1..Cardinality(I)
      /\ \A i, j \in I : Rank(I, i) = Rank(I, j) => i = j
      /\ \A k \in 1..Cardinality(I) : Place(I, k) \in I /\ Rank(I, Place(I, k)) = k
    BY <1>1, Ranks
<1>3. /\ DOMAIN p = 1..Cardinality(I)
      /\ \A k \in 1..Cardinality(I) : p[k] = w[Place(I, k)]
    BY Picked
<1>4. \A i \in I : p[Rank(I, i)] = w[i]
    BY <1>2, <1>3
<1> HIDE DEF p
<1>5. \A x \in A : x[1] \in I /\ x[2] \in DOMAIN w[x[1]] /\ x = <<x[1], x[2]>>
    BY DEF Cells
<1>6. \A i \in I : \A c \in DOMAIN w[i] : <<i, c>> \in A
    BY DEF Cells
<1>7. \A k \in DOMAIN p : \A c \in DOMAIN p[k] : <<k, c>> \in B
    BY DEF Cells
<1>8. \A y \in B : y[1] \in DOMAIN p /\ y[2] \in DOMAIN p[y[1]] /\ y = <<y[1], y[2]>>
    BY DEF Cells
<1> HIDE DEF A, B
<1>9. f \in [A -> B]
    BY <1>2, <1>3, <1>4, <1>5, <1>7
<1>10. ASSUME NEW x \in A, NEW y \in A, f[x] = f[y]
       PROVE  x = y
    <2>1. Rank(I, x[1]) = Rank(I, y[1]) /\ x[2] = y[2]
        BY <1>10
    <2>2. QED
        BY <2>1, <1>2, <1>5
<1>11. ASSUME NEW y \in B
       PROVE  \E x \in A : f[x] = y
    <2> DEFINE i == Place(I, y[1])
    <2>1. i \in I /\ Rank(I, i) = y[1] /\ p[y[1]] = w[i]
        BY <1>2, <1>3, <1>8
    <2> HIDE DEF i
    <2>2. <<i, y[2]>> \in A
        BY <2>1, <1>6, <1>8
    <2>3. f[<<i, y[2]>>] = <<y[1], y[2]>>
        BY <2>1, <2>2
    <2>4. QED
        BY <2>2, <2>3, <1>8
<1>12. f \in Bijection(A, B)
    BY <1>9, <1>10, <1>11 DEF Bijection, Injection, Surjection, IsInjective
<1> HIDE DEF f
<1>13. ExistsBijection(A, B)
    BY <1>12 DEF ExistsBijection
<1>14. IsFiniteSet(A)
    BY CellsFinite DEF A
<1>15. Cardinality(A) = Cardinality(B)
    BY <1>13, <1>14, FS_Bijection
<1>16. QED
    BY <1>15 DEF A, B, p, Total

\* A way more.
LEMMA TotalAppended ==
    ASSUME NEW S, NEW w \in Seq(Seq(S)), NEW x \in Seq(S)
    PROVE  Total(Append(w, x), DOMAIN Append(w, x)) = Total(w, DOMAIN w) + Len(x)
<1> DEFINE a == Append(w, x)
           n == Len(w)
<1>1. /\ a \in Seq(Seq(S)) /\ DOMAIN a = (1..n) \cup {n + 1} /\ a[n + 1] = x
      /\ \A i \in 1..n : a[i] = w[i]
      /\ DOMAIN w = 1..n /\ n \in Nat
    OBVIOUS
<1> HIDE DEF a, n
<1>2. Total(a, (1..n) \cup {n + 1}) = Total(a, 1..n) + Total(a, {n + 1})
    <2>1. (1..n) \in SUBSET DOMAIN a /\ {n + 1} \in SUBSET DOMAIN a /\ (1..n) \cap {n + 1} = {}
        BY <1>1
    <2>2. QED
        BY <1>1, <2>1, TotalOfTwo
<1>3. Total(a, {n + 1}) = Len(x)
    BY <1>1, CellsOfOne
<1>4. Cells(a, 1..n) = Cells(w, 1..n)
    BY <1>1 DEF Cells
<1>5. QED
    BY <1>1, <1>2, <1>3, <1>4 DEF a, Total

-----------------------------------------------------------------------------
(* Ways that are turned round and joined *)

\* What Reverse returns, and that it swaps the ends.
LEMMA Reversed ==
    ASSUME NEW S, NEW v \in Seq(S)
    PROVE  /\ Reverse(v) \in Seq(S) /\ Len(Reverse(v)) = Len(v)
           /\ DOMAIN Reverse(v) = 1..Len(v)
           /\ \A k \in 1..Len(v) : Reverse(v)[k] = v[(Len(v) - k) + 1]
           /\ v # << >> => Head(Reverse(v)) = Last(v) /\ Last(Reverse(v)) = Head(v)
<1>1. Len(v) \in Nat /\ DOMAIN v = 1..Len(v) /\ \A k \in 1..Len(v) : v[k] \in S
    OBVIOUS
<1>2. \A k \in 1..Len(v) : (Len(v) - k) + 1 \in 1..Len(v)
    BY <1>1
<1>3. Reverse(v) = [k \in 1..Len(v) |-> v[(Len(v) - k) + 1]]
    BY DEF Reverse
<1>4. Reverse(v) \in Seq(S) /\ Len(Reverse(v)) = Len(v)
    BY <1>1, <1>2, <1>3
<1>5. v # << >> => 1 \in 1..Len(v) /\ Len(v) \in 1..Len(v)
    BY <1>1
<1>6. v # << >> => Head(Reverse(v)) = Last(v) /\ Last(Reverse(v)) = Head(v)
    <2> SUFFICES ASSUME v # << >> PROVE Head(Reverse(v)) = Last(v) /\ Last(Reverse(v)) = Head(v)
        OBVIOUS
    <2>1. Reverse(v)[1] = v[Len(v)] /\ Reverse(v)[Len(v)] = v[1]
        BY <1>1, <1>3, <1>5
    <2>2. Head(v) = v[1] /\ Head(Reverse(v)) = Reverse(v)[1]
        BY <1>4, <1>5
    <2>3. QED
        BY <2>1, <2>2, <1>4 DEF Last
<1>7. QED
    BY <1>3, <1>4, <1>6

\* The nodes N and then way i, turned round if it has to be.
After(w, N, i) ==
    N \o (IF N # << >> /\ Head(w[i]) # Last(N) THEN Reverse(w[i]) ELSE w[i])

\* Way i goes on where N ends.
Touching(w, N, i) == N = << >> \/ Last(N) \in {Head(w[i]), Last(w[i])}

\* Elements and ends of a concatenation.
LEMMA Joint ==
    ASSUME NEW S, NEW N \in Seq(S), NEW v \in Seq(S)
    PROVE  /\ N \o v \in Seq(S) /\ Len(N \o v) = Len(N) + Len(v)
           /\ Len(N) \in Nat /\ Len(v) \in Nat
           /\ \A k \in 1..Len(N) : (N \o v)[k] = N[k]
           /\ \A k \in 1..Len(v) : (N \o v)[Len(N) + k] = v[k]
           /\ N # << >> => Head(N \o v) = Head(N)
           /\ N = << >> => N \o v = v
           /\ v # << >> => Last(N \o v) = Last(v)
<1>1. /\ N \o v \in Seq(S) /\ Len(N \o v) = Len(N) + Len(v)
      /\ Len(N) \in Nat /\ Len(v) \in Nat
    OBVIOUS
<1>2. \A k \in 1..Len(N) : (N \o v)[k] = N[k]
    OBVIOUS
<1>3. \A k \in 1..Len(v) : (N \o v)[Len(N) + k] = v[k]
    OBVIOUS
<1>4. N # << >> => Head(N \o v) = Head(N)
    <2> SUFFICES ASSUME N # << >> PROVE Head(N \o v) = Head(N)
        OBVIOUS
    <2>1. 1 \in 1..Len(N) /\ Len(N \o v) # 0
        BY <1>1
    <2>2. QED
        BY <2>1, <1>1, <1>2
<1>5. N = << >> => N \o v = v
    OBVIOUS
<1>6. v # << >> => Last(N \o v) = Last(v)
    <2> SUFFICES ASSUME v # << >> PROVE Last(N \o v) = Last(v)
        OBVIOUS
    <2>1. Len(v) \in 1..Len(v)
        BY <1>1
    <2>2. (N \o v)[Len(N) + Len(v)] = v[Len(v)]
        BY <2>1, <1>3
    <2>3. QED
        BY <2>2, <1>1 DEF Last
<1>7. QED
    BY <1>1, <1>2, <1>3, <1>4, <1>5, <1>6

\* What After returns has the nodes N first.
LEMMA AfterType ==
    ASSUME NEW S, NEW w \in Seq(Seq(S)), NEW N \in Seq(S), NEW i \in DOMAIN w
    PROVE  /\ After(w, N, i) \in Seq(S)
           /\ Len(After(w, N, i)) = Len(N) + Len(w[i])
           /\ \A k \in 1..Len(N) : After(w, N, i)[k] = N[k]
<1>1. w[i] \in Seq(S)
    OBVIOUS
<1>2. Reverse(w[i]) \in Seq(S) /\ Len(Reverse(w[i])) = Len(w[i])
    BY <1>1, Reversed
<1>3. PICK v \in Seq(S) : After(w, N, i) = N \o v /\ Len(v) = Len(w[i])
    BY <1>1, <1>2 DEF After
<1>4. /\ N \o v \in Seq(S) /\ Len(N \o v) = Len(N) + Len(v)
      /\ \A k \in 1..Len(N) : (N \o v)[k] = N[k]
    BY Joint
<1>5. QED
    BY <1>3, <1>4

\* It begins where N does and ends at the other end of way i.
LEMMA AfterEnds ==
    ASSUME NEW S, NEW w \in Seq(Seq(S)), NEW N \in Seq(S), NEW i \in DOMAIN w,
           w[i] # << >>, Touching(w, N, i)
    PROVE  /\ Head(After(w, N, i)) = IF N = << >> THEN Head(w[i]) ELSE Head(N)
           /\ Last(After(w, N, i)) = IF N = << >> \/ Head(w[i]) = Last(N)
                                     THEN Last(w[i]) ELSE Head(w[i])
<1>1. w[i] \in Seq(S)
    OBVIOUS
<1>2. /\ Reverse(w[i]) \in Seq(S) /\ Len(Reverse(w[i])) = Len(w[i])
      /\ Last(Reverse(w[i])) = Head(w[i])
    BY <1>1, Reversed
<1>3. Len(w[i]) # 0 /\ Reverse(w[i]) # << >>
    BY <1>1, <1>2
<1>4. CASE N = << >>
    <2>1. After(w, N, i) = w[i]
        BY <1>1, <1>4, Joint DEF After
    <2>2. QED
        BY <2>1, <1>4
<1>5. CASE N # << >> /\ Head(w[i]) = Last(N)
    <2>1. After(w, N, i) = N \o w[i]
        BY <1>5 DEF After
    <2>2. QED
        BY <2>1, <1>1, <1>5, Joint
<1>6. CASE N # << >> /\ Head(w[i]) # Last(N)
    <2>1. After(w, N, i) = N \o Reverse(w[i])
        BY <1>6 DEF After
    <2>2. QED
        BY <2>1, <1>2, <1>3, <1>6, Joint
<1>7. QED
    BY <1>4, <1>5, <1>6

-----------------------------------------------------------------------------
(* Walks along ways *)

\* Every segment of v is one of a way in W, or a joint.
RunsAlong(v, W) ==
    \A s \in Segments(v) : Cardinality(s) = 1 \/ \E m \in DOMAIN W : s \in Segments(W[m])

\* Undoing a step leaves a walk along the same ways.
LEMMA PrefixRuns ==
    ASSUME NEW S, NEW N \in Seq(S), NEW len \in 0..Len(N), NEW W, RunsAlong(N, W)
    PROVE  RunsAlong(SubSeq(N, 1, len), W)
<1> DEFINE p == SubSeq(N, 1, len)
<1>1. Len(p) = len /\ \A k \in 1..len : p[k] = N[k]
    OBVIOUS
<1> HIDE DEF p
<1>2. \A k \in 1..(len - 1) : k \in 1..(Len(N) - 1) /\ k \in 1..len /\ k + 1 \in 1..len
    OBVIOUS
<1>3. Segments(p) \subseteq Segments(N)
    BY <1>1, <1>2 DEF Segments
<1>4. QED
    BY <1>3 DEF RunsAlong, p

\* Turned round, a way has the same segments.
LEMMA ReversedSegments ==
    ASSUME NEW S, NEW v \in Seq(S)
    PROVE  Segments(Reverse(v)) \subseteq Segments(v)
<1>1. Len(v) \in Nat
    OBVIOUS
<1>2. Len(Reverse(v)) = Len(v) /\ \A k \in 1..Len(v) : Reverse(v)[k] = v[(Len(v) - k) + 1]
    BY Reversed
<1>3. SUFFICES ASSUME NEW k \in 1..(Len(v) - 1)
               PROVE  {Reverse(v)[k], Reverse(v)[k + 1]} \in Segments(v)
    BY <1>2 DEF Segments
<1> DEFINE j == Len(v) - k
<1>4. j \in 1..(Len(v) - 1) /\ k \in 1..Len(v) /\ k + 1 \in 1..Len(v)
      /\ (Len(v) - (k + 1)) + 1 = j
    BY <1>1
<1>5. Reverse(v)[k] = v[j + 1] /\ Reverse(v)[k + 1] = v[j]
    BY <1>2, <1>4
<1> HIDE DEF j
<1>6. {v[j], v[j + 1]} \in Segments(v)
    BY <1>4 DEF Segments
<1>7. {Reverse(v)[k], Reverse(v)[k + 1]} = {v[j], v[j + 1]}
    BY <1>5
<1>8. QED
    BY <1>6, <1>7

\* Where the ends of N and v are one node, N \o v runs where they do.
LEMMA JointRuns ==
    ASSUME NEW S, NEW N \in Seq(S), NEW v \in Seq(S), NEW W,
           N # << >> /\ v # << >> => Last(N) = Head(v),
           RunsAlong(N, W), RunsAlong(v, W)
    PROVE  RunsAlong(N \o v, W)
<1> DEFINE a == Len(N)
           b == Len(v)
           c == N \o v
<1>1. /\ a \in Nat /\ b \in Nat /\ Len(c) = a + b
      /\ \A k \in 1..a : c[k] = N[k]
      /\ \A k \in 1..b : c[a + k] = v[k]
    BY Joint
<1> HIDE DEF c
<1>2. ASSUME NEW k \in 1..((a + b) - 1)
      PROVE  {c[k], c[k + 1]} \in Segments(N) \cup Segments(v) \/ Cardinality({c[k], c[k + 1]}) = 1
    <2>1. CASE k < a
        <3>1. k \in 1..a /\ k + 1 \in 1..a /\ k \in 1..(a - 1)
            BY <2>1, <1>1
        <3>2. c[k] = N[k] /\ c[k + 1] = N[k + 1]
            BY <3>1, <1>1
        <3>3. QED
            BY <3>1, <3>2 DEF Segments
    <2>2. CASE k > a
        <3> DEFINE j == k - a
        <3>1. j \in 1..b /\ j + 1 \in 1..b /\ j \in 1..(b - 1) /\ a + j = k /\ a + (j + 1) = k + 1
            BY <2>2, <1>1
        <3> HIDE DEF j
        <3>2. c[a + j] = v[j] /\ c[a + (j + 1)] = v[j + 1]
            BY <3>1, <1>1
        <3>3. c[k] = v[j] /\ c[k + 1] = v[j + 1]
            BY <3>1, <3>2
        <3>4. QED
            BY <3>1, <3>3 DEF Segments
    <2>3. CASE k = a
        <3>1. k \in 1..a /\ 1 \in 1..b
            BY <2>3, <1>1
        <3>2. c[k] = N[a] /\ c[a + 1] = v[1]
            BY <3>1, <2>3, <1>1
        <3>3. N # << >> /\ v # << >>
            BY <3>1
        <3>4. N[a] = v[1]
            BY <3>3 DEF Last
        <3>5. {c[k], c[k + 1]} = {v[1]}
            BY <3>2, <3>4, <2>3
        <3>6. QED
            BY <3>5, FS_Singleton
    <2>4. QED
        BY <2>1, <2>2, <2>3, <1>1
<1>3. \A s \in Segments(c) : s \in Segments(N) \cup Segments(v) \/ Cardinality(s) = 1
    BY <1>1, <1>2 DEF Segments
<1>4. QED
    BY <1>3 DEF RunsAlong, c

\* A way that touches goes on with the walk.
LEMMA AfterRuns ==
    ASSUME NEW S, NEW w \in Seq(Seq(S)), NEW N \in Seq(S), NEW i \in DOMAIN w, NEW W,
           N = << >> \/ w[i] # << >>, Touching(w, N, i),
           RunsAlong(N, W), \E m \in DOMAIN W : w[i] = W[m]
    PROVE  RunsAlong(After(w, N, i), W)
<1>1. w[i] \in Seq(S)
    OBVIOUS
<1>2. RunsAlong(w[i], W)
    BY DEF RunsAlong
<1>3. RunsAlong(Reverse(w[i]), W) /\ Reverse(w[i]) \in Seq(S)
    BY <1>1, ReversedSegments, Reversed DEF RunsAlong
<1>4. CASE N = << >> \/ Head(w[i]) = Last(N)
    <2>1. After(w, N, i) = N \o w[i]
        BY <1>4 DEF After
    <2>2. QED
        BY <2>1, <1>1, <1>2, <1>4, JointRuns
<1>5. CASE N # << >> /\ Head(w[i]) # Last(N)
    <2>1. After(w, N, i) = N \o Reverse(w[i])
        BY <1>5 DEF After
    <2>2. Last(N) = Last(w[i]) /\ w[i] # << >>
        BY <1>5 DEF Touching
    <2>3. Last(N) = Head(Reverse(w[i]))
        BY <2>2, <1>1, Reversed
    <2>4. QED
        BY <2>1, <2>3, <1>3, JointRuns
<1>6. QED
    BY <1>4, <1>5

-----------------------------------------------------------------------------
(* TrackRec's calls *)

\* The nodes, the marked entries and the loop index at depth k, of calls that have
\* collected the nodes N, made the marks M and come to index f.
NodesAt(N, M, k) == IF k = Len(M) THEN N ELSE SubSeq(N, 1, M[k + 1].len)

UsedAt(M, k) == {M[j].entry : j \in 1..k}

FromAt(M, f, k) == IF k = Len(M) THEN f ELSE M[k + 1].entry

MarkOf(w) == [entry : DOMAIN w, len : Nat]

\* Every call has appended the way it marked to the nodes of its caller.
StackOf(w, N, M) ==
    /\ M \in Seq(MarkOf(w))
    /\ \A j, k \in 1..Len(M) : M[j].entry = M[k].entry => j = k
    /\ \A k \in 1..Len(M) : M[k].len <= Len(N)
    /\ \A j, k \in 1..Len(M) : j <= k => M[j].len <= M[k].len
    /\ NodesAt(N, M, 0) = << >>
    /\ \A k \in 1..Len(M) : NodesAt(N, M, k) = After(w, NodesAt(N, M, k - 1), M[k].entry)
    /\ \A k \in 0..Len(M) : Len(NodesAt(N, M, k)) = Total(w, UsedAt(M, k))

\* Sequences that agree up to n have the same prefix of that length.
LEMMA SamePrefix ==
    ASSUME NEW S, NEW s \in Seq(S), NEW t \in Seq(S), NEW n \in Nat,
           n <= Len(s), n <= Len(t), \A k \in 1..n : s[k] = t[k]
    PROVE  SubSeq(s, 1, n) = SubSeq(t, 1, n)
<1>1. /\ SubSeq(s, 1, n) \in Seq(S) /\ Len(SubSeq(s, 1, n)) = n
      /\ \A k \in 1..n : SubSeq(s, 1, n)[k] = s[k]
    OBVIOUS
<1>2. /\ SubSeq(t, 1, n) \in Seq(S) /\ Len(SubSeq(t, 1, n)) = n
      /\ \A k \in 1..n : SubSeq(t, 1, n)[k] = t[k]
    OBVIOUS
<1>3. QED
    BY <1>1, <1>2, SeqEqual

\* The fields of a mark.
LEMMA MarkFields ==
    ASSUME NEW w, NEW M \in Seq(MarkOf(w)), NEW k \in 1..Len(M)
    PROVE  M[k].entry \in DOMAIN w /\ M[k].len \in Nat
<1>1. M[k] \in MarkOf(w)
    OBVIOUS
<1>2. QED
    BY <1>1 DEF MarkOf

\* N2 and M2 are N and M, and entry i marked on top of them.
OneDeeper(N, M, i, N2, M2) ==
    /\ Len(M2) = Len(M) + 1
    /\ \A k \in 1..Len(M) : M2[k] = M[k]
    /\ M2[Len(M) + 1].entry = i /\ M2[Len(M) + 1].len = Len(N)
    /\ \A k \in 0..Len(M) : NodesAt(N2, M2, k) = NodesAt(N, M, k)
    /\ NodesAt(N2, M2, Len(M) + 1) = N2
    /\ \A k \in 0..Len(M) : UsedAt(M2, k) = UsedAt(M, k)
    /\ UsedAt(M2, Len(M) + 1) = UsedAt(M, Len(M)) \cup {i}

\* The recursive call leaves the depths below as they were.
LEMMA Pushed ==
    ASSUME NEW S, NEW w \in Seq(Seq(S)), NEW N \in Seq(S), NEW M, NEW i \in DOMAIN w,
           StackOf(w, N, M)
    PROVE  /\ Append(M, [entry |-> i, len |-> Len(N)]) \in Seq(MarkOf(w))
           /\ After(w, N, i) \in Seq(S)
           /\ OneDeeper(N, M, i, After(w, N, i), Append(M, [entry |-> i, len |-> Len(N)]))
<1> DEFINE d == Len(M)
           m == [entry |-> i, len |-> Len(N)]
<1>a. PICK N2 : N2 = After(w, N, i)
    OBVIOUS
<1>b. PICK M2 : M2 = Append(M, m)
    OBVIOUS
<1>1. m \in MarkOf(w) /\ m.entry = i /\ m.len = Len(N)
    BY DEF MarkOf
<1>2. M \in Seq(MarkOf(w)) /\ d \in Nat
    BY DEF StackOf
<1> HIDE DEF m
<1>3. /\ M2 \in Seq(MarkOf(w)) /\ Len(M2) = d + 1
      /\ \A k \in 1..d : M2[k] = M[k]
      /\ M2[d + 1] = m
    BY <1>1, <1>2, <1>b
<1>4. N2 \in Seq(S) /\ Len(N2) = Len(N) + Len(w[i]) /\ \A k \in 1..Len(N) : N2[k] = N[k]
    BY <1>a, AfterType
<1>5. Len(N) \in Nat /\ Len(w[i]) \in Nat
    OBVIOUS
<1>6. Len(N) <= Len(N2)
    BY <1>4, <1>5
<1>7. \A n \in 0..Len(N) : SubSeq(N2, 1, n) = SubSeq(N, 1, n)
    <2> TAKE n \in 0..Len(N)
    <2>1. n \in Nat /\ n <= Len(N) /\ n <= Len(N2) /\ \A k \in 1..n : N2[k] = N[k]
        BY <1>4, <1>5, <1>6
    <2>2. QED
        BY <2>1, <1>4, SamePrefix
<1>8. ASSUME NEW k \in 0..d
      PROVE  NodesAt(N2, M2, k) = NodesAt(N, M, k)
    <2>1. k # d + 1 /\ k \in Nat
        BY <1>2
    <2>2. NodesAt(N2, M2, k) = SubSeq(N2, 1, M2[k + 1].len)
        BY <2>1, <1>3 DEF NodesAt
    <2>3. CASE k = d
        <3>1. M2[k + 1].len = Len(N)
            BY <2>3, <1>1, <1>3
        <3>2. SubSeq(N2, 1, Len(N)) = SubSeq(N, 1, Len(N))
            BY <1>5, <1>7
        <3>3. SubSeq(N, 1, Len(N)) = N
            BY SubSeqFull
        <3>4. QED
            BY <2>2, <2>3, <3>1, <3>2, <3>3 DEF NodesAt
    <2>4. CASE k # d
        <3>1. k + 1 \in 1..d
            BY <2>1, <2>4, <1>2
        <3>2. M[k + 1].len \in Nat /\ M[k + 1].len <= Len(N)
            BY <3>1, <1>2, MarkFields DEF StackOf
        <3>3. SubSeq(N2, 1, M[k + 1].len) = SubSeq(N, 1, M[k + 1].len)
            <4>1. PICK n : n = M[k + 1].len
                OBVIOUS
            <4>2. n \in 0..Len(N)
                BY <3>2, <4>1, <1>5
            <4>3. QED
                BY <4>1, <4>2, <1>7
        <3>4. M2[k + 1] = M[k + 1]
            BY <3>1, <1>3
        <3>5. QED
            BY <2>2, <2>4, <3>3, <3>4 DEF NodesAt
    <2>5. QED
        BY <2>3, <2>4
<1>9. NodesAt(N2, M2, d + 1) = N2
    BY <1>3 DEF NodesAt
<1>10. ASSUME NEW k \in 0..d
       PROVE  UsedAt(M2, k) = UsedAt(M, k)
    <2>1. \A j \in 1..k : M2[j] = M[j]
        BY <1>2, <1>3
    <2>2. QED
        BY <2>1 DEF UsedAt
<1>11. UsedAt(M2, d + 1) = UsedAt(M, d) \cup {i}
    <2>1. 1..(d + 1) = (1..d) \cup {d + 1}
        BY <1>2
    <2>2. UsedAt(M2, d + 1) = UsedAt(M2, d) \cup {M2[d + 1].entry}
        BY <2>1 DEF UsedAt
    <2>3. UsedAt(M2, d) = UsedAt(M, d)
        BY <1>2, <1>10
    <2>4. QED
        BY <2>2, <2>3, <1>1, <1>3
<1>12. OneDeeper(N, M, i, N2, M2)
    BY <1>1, <1>3, <1>8, <1>9, <1>10, <1>11 DEF OneDeeper
<1>13. QED
    BY <1>a, <1>b, <1>3, <1>4, <1>12 DEF m

\* What is marked is an entry of the list.
LEMMA UsedSubset ==
    ASSUME NEW w, NEW M \in Seq(MarkOf(w)), NEW k \in 0..Len(M)
    PROVE  UsedAt(M, k) \in SUBSET DOMAIN w
<1>1. \A j \in 1..k : M[j] \in MarkOf(w)
    OBVIOUS
<1>2. QED
    BY <1>1 DEF UsedAt, MarkOf

\* The recursive call keeps StackOf.
LEMMA PushStack ==
    ASSUME NEW S, NEW w \in Seq(Seq(S)), NEW N \in Seq(S), NEW M, NEW i \in DOMAIN w,
           StackOf(w, N, M), i \notin UsedAt(M, Len(M))
    PROVE  StackOf(w, After(w, N, i), Append(M, [entry |-> i, len |-> Len(N)]))
<1> DEFINE d == Len(M)
<1>1. PICK N2 : N2 = After(w, N, i)
    OBVIOUS
<1>2. PICK M2 : M2 = Append(M, [entry |-> i, len |-> Len(N)])
    OBVIOUS
<1>a. M2 \in Seq(MarkOf(w)) /\ N2 \in Seq(S) /\ OneDeeper(N, M, i, N2, M2)
    BY <1>1, <1>2, Pushed
<1>3. /\ d \in Nat /\ Len(M2) = d + 1
      /\ \A k \in 1..d : M2[k] = M[k]
      /\ M2[d + 1].entry = i /\ M2[d + 1].len = Len(N)
      /\ \A k \in 0..d : NodesAt(N2, M2, k) = NodesAt(N, M, k)
      /\ NodesAt(N2, M2, d + 1) = N2
      /\ \A k \in 0..d : UsedAt(M2, k) = UsedAt(M, k)
      /\ UsedAt(M2, d + 1) = UsedAt(M, d) \cup {i}
    BY <1>a DEF OneDeeper, StackOf
<1>4. Len(N2) = Len(N) + Len(w[i]) /\ Len(N) \in Nat /\ Len(w[i]) \in Nat
    <2>1. Len(N2) = Len(N) + Len(w[i])
        BY <1>1, AfterType
    <2>2. QED
        BY <2>1
<1>5. \A k \in 1..(d + 1) : k \in 1..d \/ k = d + 1
    BY <1>3
<1>6. \A j, k \in 1..(d + 1) : M2[j].entry = M2[k].entry => j = k
    <2>1. \A j, k \in 1..d : M2[j].entry = M2[k].entry => j = k
        BY <1>3 DEF StackOf
    <2>2. \A j \in 1..d : M2[j].entry # i
        BY <1>3 DEF UsedAt
    <2>3. QED
        BY <2>1, <2>2, <1>3, <1>5
<1>7. \A k \in 1..d : M[k].len \in Nat /\ M[k].len <= Len(N)
    BY MarkFields DEF StackOf
<1>8. \A k \in 1..(d + 1) : M2[k].len <= Len(N2)
    <2> TAKE k \in 1..(d + 1)
    <2>1. CASE k \in 1..d
        <3>1. M2[k].len \in Nat /\ M2[k].len <= Len(N)
            BY <2>1, <1>3, <1>7
        <3>2. Len(N) <= Len(N2) /\ Len(N2) \in Nat
            BY <1>4
        <3>3. PICK a \in Nat, b \in Nat, c \in Nat :
                 a = M2[k].len /\ b = Len(N) /\ c = Len(N2)
            BY <3>1, <3>2, <1>4
        <3>4. a <= b /\ b <= c
            BY <3>1, <3>2, <3>3
        <3>5. a <= c
            BY <3>4
        <3>6. QED
            BY <3>3, <3>5
    <2>2. CASE k = d + 1
        BY <2>2, <1>3, <1>4
    <2>3. QED
        BY <2>1, <2>2, <1>5
<1>9. \A j, k \in 1..(d + 1) : j <= k => M2[j].len <= M2[k].len
    <2>1. \A j, k \in 1..d : j <= k => M2[j].len <= M2[k].len
        BY <1>3 DEF StackOf
    <2>2. \A j \in 1..(d + 1) : M2[j].len <= M2[d + 1].len
        <3> TAKE j \in 1..(d + 1)
        <3>1. j \in 1..d => M2[j].len <= Len(N)
            BY <1>3, <1>7
        <3>2. j = d + 1 => M2[j].len <= Len(N)
            BY <1>3, <1>4
        <3>3. QED
            BY <3>1, <3>2, <1>3, <1>5
    <2>3. \A k \in 1..d : ~(d + 1 <= k)
        BY <1>3
    <2>4. QED
        BY <2>1, <2>2, <2>3, <1>5
<1>10. NodesAt(N2, M2, 0) = << >>
    BY <1>3 DEF StackOf
<1>11. ASSUME NEW k \in 1..(d + 1)
       PROVE  NodesAt(N2, M2, k) = After(w, NodesAt(N2, M2, k - 1), M2[k].entry)
    <2>1. CASE k \in 1..d
        <3>1. k \in 0..d /\ k - 1 \in 0..d
            BY <2>1, <1>3
        <3>2. NodesAt(N, M, k) = After(w, NodesAt(N, M, k - 1), M[k].entry)
            BY <2>1 DEF StackOf
        <3>3. QED
            BY <2>1, <3>1, <3>2, <1>3
    <2>2. CASE k = d + 1
        <3>1. d \in 0..d /\ k - 1 = d
            BY <2>2, <1>3
        <3>2. NodesAt(N, M, d) = N
            BY DEF NodesAt
        <3>3. QED
            BY <2>2, <3>1, <3>2, <1>1, <1>3
    <2>3. QED
        BY <2>1, <2>2, <1>5
<1>12. ASSUME NEW k \in 0..(d + 1)
       PROVE  Len(NodesAt(N2, M2, k)) = Total(w, UsedAt(M2, k))
    <2>1. CASE k \in 0..d
        BY <2>1, <1>3 DEF StackOf
    <2>2. CASE k = d + 1
        <3>1. Len(N) = Total(w, UsedAt(M, d))
            <4>1. d \in 0..d
                BY <1>3
            <4>2. Len(NodesAt(N, M, d)) = Total(w, UsedAt(M, d))
                BY <4>1 DEF StackOf
            <4>3. QED
                BY <4>2 DEF NodesAt
        <3>2. UsedAt(M, d) \in SUBSET DOMAIN w
            BY <1>3, UsedSubset DEF StackOf
        <3>3. Total(w, UsedAt(M, d) \cup {i}) = Total(w, UsedAt(M, d)) + Total(w, {i})
            BY <3>2, TotalOfTwo
        <3>4. Total(w, {i}) = Len(w[i])
            BY CellsOfOne
        <3>5. QED
            BY <2>2, <3>1, <3>3, <3>4, <1>3, <1>4
    <2>3. k \in 0..d \/ k = d + 1
        BY <1>3
    <2>4. QED
        BY <2>1, <2>2, <2>3
<1>13. StackOf(w, N2, M2)
    BY <1>a, <1>3, <1>6, <1>8, <1>9, <1>10, <1>11, <1>12 DEF StackOf
<1>14. QED
    BY <1>1, <1>2, <1>13

\* N2 and M2 are what was there before the last mark.
OneLess(N, M, N2, M2) ==
    /\ Len(M2) = Len(M) - 1
    /\ \A k \in 1..(Len(M) - 1) : M2[k] = M[k]
    /\ \A k \in 0..(Len(M) - 1) : NodesAt(N2, M2, k) = NodesAt(N, M, k)
    /\ \A k \in 0..(Len(M) - 1) : UsedAt(M2, k) = UsedAt(M, k)
    /\ UsedAt(M, Len(M)) = UsedAt(M, Len(M) - 1) \cup {Last(M).entry}
    /\ Last(M).entry \notin UsedAt(M, Len(M) - 1)

\* A call that returns false leaves the depths below as they were.
LEMMA Popped ==
    ASSUME NEW S, NEW w \in Seq(Seq(S)), NEW N \in Seq(S), NEW M, StackOf(w, N, M), M # << >>
    PROVE  /\ Front(M) \in Seq(MarkOf(w))
           /\ Last(M).entry \in DOMAIN w /\ Last(M).len \in 0..Len(N)
           /\ SubSeq(N, 1, Last(M).len) \in Seq(S)
           /\ OneLess(N, M, SubSeq(N, 1, Last(M).len), Front(M))
<1> DEFINE d == Len(M)
<1>1. PICK N2 : N2 = SubSeq(N, 1, M[d].len)
    OBVIOUS
<1>2. PICK M2 : M2 = SubSeq(M, 1, d - 1)
    OBVIOUS
<1>3. M \in Seq(MarkOf(w)) /\ d \in Nat \ {0} /\ d \in 1..d /\ d - 1 \in Nat
    BY DEF StackOf
<1>4. /\ M2 \in Seq(MarkOf(w)) /\ Len(M2) = d - 1
      /\ \A k \in 1..(d - 1) : M2[k] = M[k]
    <2>1. \A k \in 1..(d - 1) : M[k] \in MarkOf(w)
        BY <1>3
    <2>2. PICK c \in Nat : c = d - 1
        BY <1>3
    <2>3. /\ SubSeq(M, 1, c) \in Seq(MarkOf(w)) /\ Len(SubSeq(M, 1, c)) = c
          /\ \A k \in 1..c : SubSeq(M, 1, c)[k] = M[k]
        BY <2>1, <2>2
    <2>4. QED
        BY <2>2, <2>3, <1>2
<1>5. PICK n : n = M[d].len
    OBVIOUS
<1>6. M[d].entry \in DOMAIN w /\ n \in Nat /\ n <= Len(N) /\ Len(N) \in Nat
    BY <1>3, <1>5, MarkFields DEF StackOf
<1>7. N2 \in Seq(S) /\ Len(N2) = n /\ \A k \in 1..n : N2[k] = N[k]
    BY <1>1, <1>5, <1>6
<1>8. \A m \in 0..n : SubSeq(N2, 1, m) = SubSeq(N, 1, m)
    <2> TAKE m \in 0..n
    <2>1. m \in Nat /\ m <= Len(N) /\ m <= Len(N2) /\ \A k \in 1..m : N2[k] = N[k]
        BY <1>6, <1>7
    <2>2. QED
        BY <2>1, <1>7, SamePrefix
<1>9. ASSUME NEW k \in 0..(d - 1)
      PROVE  NodesAt(N2, M2, k) = NodesAt(N, M, k)
    <2>1. NodesAt(N, M, k) = SubSeq(N, 1, M[k + 1].len)
        <3>1. k # d
            BY <1>3
        <3>2. QED
            BY <3>1 DEF NodesAt
    <2>2. CASE k = d - 1
        <3>1. k + 1 = d
            BY <2>2, <1>3
        <3>2. QED
            BY <2>1, <2>2, <3>1, <1>1, <1>4 DEF NodesAt
    <2>3. CASE k # d - 1
        <3>1. k + 1 \in 1..(d - 1) /\ k + 1 \in 1..d /\ k + 1 <= d
            BY <2>3, <1>3
        <3>2. PICK m : m = M[k + 1].len
            OBVIOUS
        <3>3. m \in Nat /\ m <= n
            BY <3>1, <3>2, <1>3, <1>5, MarkFields DEF StackOf
        <3>4. m \in 0..n
            BY <3>3, <1>6
        <3>5. NodesAt(N2, M2, k) = SubSeq(N2, 1, M2[k + 1].len)
            BY <2>3, <1>4 DEF NodesAt
        <3>6. M2[k + 1].len = m
            BY <3>1, <3>2, <1>4
        <3>7. QED
            BY <2>1, <3>2, <3>4, <3>5, <3>6, <1>8
    <2>4. QED
        BY <2>2, <2>3
<1>10. ASSUME NEW k \in 0..(d - 1)
       PROVE  UsedAt(M2, k) = UsedAt(M, k)
    <2>1. \A j \in 1..k : M2[j] = M[j]
        BY <1>3, <1>4
    <2>2. QED
        BY <2>1 DEF UsedAt
<1>11. UsedAt(M, d) = UsedAt(M, d - 1) \cup {M[d].entry}
    <2>1. 1..d = (1..(d - 1)) \cup {d}
        BY <1>3
    <2>2. QED
        BY <2>1 DEF UsedAt
<1>12. M[d].entry \notin UsedAt(M, d - 1)
    <2>1. \A j \in 1..(d - 1) : j \in 1..d /\ j # d
        BY <1>3
    <2>2. \A j \in 1..(d - 1) : M[j].entry # M[d].entry
        BY <2>1, <1>3 DEF StackOf
    <2>3. QED
        BY <2>2 DEF UsedAt
<1>13. OneLess(N, M, N2, M2)
    BY <1>4, <1>9, <1>10, <1>11, <1>12 DEF OneLess, Last
<1>14. n \in 0..Len(N)
    BY <1>6
<1>15. QED
    BY <1>1, <1>2, <1>4, <1>5, <1>6, <1>7, <1>13, <1>14 DEF Last, Front

\* Its caller undoing the mark keeps StackOf.
LEMMA PopStack ==
    ASSUME NEW S, NEW w \in Seq(Seq(S)), NEW N \in Seq(S), NEW M, StackOf(w, N, M), M # << >>
    PROVE  StackOf(w, SubSeq(N, 1, Last(M).len), Front(M))
<1> DEFINE d == Len(M)
<1>1. PICK N2 : N2 = SubSeq(N, 1, Last(M).len)
    OBVIOUS
<1>2. PICK M2 : M2 = Front(M)
    OBVIOUS
<1>3. M2 \in Seq(MarkOf(w)) /\ OneLess(N, M, N2, M2) /\ Last(M).len \in 0..Len(N)
    BY <1>1, <1>2, Popped
<1>4. M \in Seq(MarkOf(w)) /\ d \in Nat \ {0} /\ d \in 1..d /\ d - 1 \in Nat
      /\ \A k \in 1..(d - 1) : k \in 1..d /\ k <= d /\ k \in 0..(d - 1) /\ k - 1 \in 0..(d - 1)
    BY DEF StackOf
<1>5. /\ Len(M2) = d - 1
      /\ \A k \in 1..(d - 1) : M2[k] = M[k]
      /\ \A k \in 0..(d - 1) : NodesAt(N2, M2, k) = NodesAt(N, M, k)
      /\ \A k \in 0..(d - 1) : UsedAt(M2, k) = UsedAt(M, k)
    BY <1>3 DEF OneLess
<1>6. Len(N2) = M[d].len
    BY <1>1, <1>3 DEF Last
<1>7. \A j, k \in 1..(d - 1) : M2[j].entry = M2[k].entry => j = k
    BY <1>4, <1>5 DEF StackOf
<1>8. \A k \in 1..(d - 1) : M2[k].len <= Len(N2)
    BY <1>4, <1>5, <1>6 DEF StackOf
<1>9. \A j, k \in 1..(d - 1) : j <= k => M2[j].len <= M2[k].len
    BY <1>4, <1>5 DEF StackOf
<1>10. NodesAt(N2, M2, 0) = << >>
    <2>1. 0 \in 0..(d - 1)
        BY <1>4
    <2>2. QED
        BY <2>1, <1>5 DEF StackOf
<1>11. \A k \in 1..(d - 1) : NodesAt(N2, M2, k) = After(w, NodesAt(N2, M2, k - 1), M2[k].entry)
    <2> TAKE k \in 1..(d - 1)
    <2>1. NodesAt(N, M, k) = After(w, NodesAt(N, M, k - 1), M[k].entry)
        BY <1>4 DEF StackOf
    <2>2. QED
        BY <2>1, <1>4, <1>5
<1>12. \A k \in 0..(d - 1) : Len(NodesAt(N2, M2, k)) = Total(w, UsedAt(M2, k))
    <2> TAKE k \in 0..(d - 1)
    <2>1. k \in 0..d
        BY <1>4
    <2>2. Len(NodesAt(N, M, k)) = Total(w, UsedAt(M, k))
        BY <2>1 DEF StackOf
    <2>3. QED
        BY <2>2, <1>5
<1>13. StackOf(w, N2, M2)
    BY <1>3, <1>5, <1>7, <1>8, <1>9, <1>10, <1>11, <1>12 DEF StackOf
<1>14. QED
    BY <1>1, <1>2, <1>13

-----------------------------------------------------------------------------
(* The search overlooks nothing *)

\* The ways of two nodes at least.
ProperOf(w) == {i \in DOMAIN w : Len(w[i]) > 1}

\* As Degree in Rings.tla, of the ways w.
Deg(w, R, n) ==
    Cardinality({i \in R : Head(w[i]) = n}) + Cardinality({i \in R : Last(w[i]) = n})

\* The ways R meet at n in an even number.
Even(w, R, n) == Deg(w, R, n) % 2 = 0

\* Some of the ways not in U meet evenly but for x and h: joined one after the other
\* they lead from x to h.
Joinable(w, U, x, h) ==
    \E R \in SUBSET (ProperOf(w) \ U) : \A n \in Nodes :
        Even(w, R, n) <=> ((n = x) <=> (n = h))

\* No ring comes of way i after the nodes N, which are those of the ways U.
Fails(w, N, U, i) == ~Joinable(w, U \cup {i}, Last(After(w, N, i)), Head(After(w, N, i)))

\* At every depth no ring comes of the ways the loop has passed.
TriedOf(w, N, M, f) ==
    \A k \in 0..Len(M) : \A i \in ProperOf(w) \ UsedAt(M, k) :
        i < FromAt(M, f, k) /\ Touching(w, NodesAt(N, M, k), i) =>
            Fails(w, NodesAt(N, M, k), UsedAt(M, k), i)

\* One less is odd where it was even.
LEMMA Parity ==
    ASSUME NEW a \in Nat, NEW b \in Nat
    PROVE  /\ a > 0 => (((a - 1) + b) % 2 = 0 <=> (a + b) % 2 # 0)
           /\ b > 0 => ((a + (b - 1)) % 2 = 0 <=> (a + b) % 2 # 0)
OBVIOUS

\* A way the less: the parity changes at its ends.
LEMMA OneWayLess ==
    ASSUME NEW w, NEW R, IsFiniteSet(R), NEW j \in R, Head(w[j]) # Last(w[j]), NEW n
    PROVE  Even(w, R \ {j}, n) <=> (Even(w, R, n) <=> n \notin {Head(w[j]), Last(w[j])})
<1> DEFINE A == {i \in R : Head(w[i]) = n}
           B == {i \in R : Last(w[i]) = n}
           A2 == {i \in R \ {j} : Head(w[i]) = n}
           B2 == {i \in R \ {j} : Last(w[i]) = n}
<1>1. IsFiniteSet(A) /\ IsFiniteSet(B)
    BY FS_Subset
<1>2. A2 = A \ {j} /\ B2 = B \ {j}
    OBVIOUS
<1>3. (j \in A <=> n = Head(w[j])) /\ (j \in B <=> n = Last(w[j]))
    OBVIOUS
<1>4. Deg(w, R, n) = Cardinality(A) + Cardinality(B)
      /\ Deg(w, R \ {j}, n) = Cardinality(A2) + Cardinality(B2)
    BY DEF Deg
<1> HIDE DEF A, B, A2, B2
<1>5. PICK a, b : a = Cardinality(A) /\ b = Cardinality(B)
    OBVIOUS
<1>6. a \in Nat /\ b \in Nat
    BY <1>1, <1>5, FS_CardinalityType
<1>7. /\ Cardinality(A2) = IF j \in A THEN a - 1 ELSE a
      /\ Cardinality(B2) = IF j \in B THEN b - 1 ELSE b
    BY <1>1, <1>2, <1>5, FS_RemoveElement
<1>8. (j \in A => a > 0) /\ (j \in B => b > 0)
    <2>1. (a = 0 => A = {}) /\ (b = 0 => B = {})
        BY <1>1, <1>5, FS_EmptySet
    <2>2. QED
        BY <2>1, <1>6
<1>9. CASE n = Head(w[j])
    <2>1. Deg(w, R \ {j}, n) = (a - 1) + b /\ a > 0 /\ Deg(w, R, n) = a + b
        BY <1>9, <1>3, <1>4, <1>5, <1>7, <1>8
    <2>2. QED
        BY <2>1, <1>6, <1>9, Parity DEF Even
<1>10. CASE n = Last(w[j])
    <2>1. Deg(w, R \ {j}, n) = a + (b - 1) /\ b > 0 /\ Deg(w, R, n) = a + b
        BY <1>10, <1>3, <1>4, <1>5, <1>7, <1>8
    <2>2. QED
        BY <2>1, <1>6, <1>10, Parity DEF Even
<1>11. CASE n \notin {Head(w[j]), Last(w[j])}
    <2>1. Deg(w, R \ {j}, n) = Deg(w, R, n)
        BY <1>11, <1>3, <1>4, <1>5, <1>7
    <2>2. QED
        BY <2>1, <1>11 DEF Even
<1>12. QED
    BY <1>9, <1>10, <1>11

\* No way among those that are looked at is closed.
AllOpen(w) == \A i \in DOMAIN w : IsOpen(w[i])

\* Such a way, when it is open, has two different ends.
LEMMA ProperEnds ==
    ASSUME NEW w \in Seq(Seq(Nodes)), AllOpen(w), NEW i \in ProperOf(w)
    PROVE  /\ i \in DOMAIN w /\ w[i] \in Seq(Nodes) /\ w[i] # << >>
           /\ Head(w[i]) \in Nodes /\ Last(w[i]) \in Nodes /\ Head(w[i]) # Last(w[i])
<1>1. i \in DOMAIN w /\ w[i] \in Seq(Nodes) /\ Len(w[i]) > 1 /\ Len(w[i]) \in Nat
    BY DEF ProperOf
<1>2. w[i] # << >> /\ Len(w[i]) \in 1..Len(w[i])
    BY <1>1
<1>3. Head(w[i]) \in Nodes /\ Last(w[i]) \in Nodes
    BY <1>1, <1>2 DEF Last
<1>4. Head(w[i]) # Last(w[i])
    BY <1>1 DEF AllOpen, IsOpen, IsClosed
<1>5. QED
    BY <1>1, <1>2, <1>3, <1>4

\* There are finitely many of them.
LEMMA ProperFinite ==
    ASSUME NEW w \in Seq(Seq(Nodes)), NEW R \in SUBSET ProperOf(w)
    PROVE  IsFiniteSet(R)
<1>1. DOMAIN w = 1..Len(w) /\ Len(w) \in Nat
    OBVIOUS
<1>2. IsFiniteSet(DOMAIN w)
    BY <1>1, Interval
<1>3. QED
    BY <1>2, FS_Subset DEF ProperOf

\* What can be joined has a way to begin with.
LEMMA JoinOne ==
    ASSUME NEW w \in Seq(Seq(Nodes)), AllOpen(w), NEW U, NEW x \in Nodes, NEW h \in Nodes,
           x # h, Joinable(w, U, x, h)
    PROVE  \E j \in ProperOf(w) \ U :
             \/ Head(w[j]) = x /\ Joinable(w, U \cup {j}, Last(w[j]), h)
             \/ Last(w[j]) = x /\ Joinable(w, U \cup {j}, Head(w[j]), h)
<1>1. PICK R \in SUBSET (ProperOf(w) \ U) :
        \A n \in Nodes : Even(w, R, n) <=> ((n = x) <=> (n = h))
    BY DEF Joinable
<1>2. IsFiniteSet(R)
    BY ProperFinite
<1>3. PICK j \in R : x \in {Head(w[j]), Last(w[j])}
    <2> SUFFICES ASSUME \A j \in R : x \notin {Head(w[j]), Last(w[j])} PROVE FALSE
        OBVIOUS
    <2>1. {i \in R : Head(w[i]) = x} = {} /\ {i \in R : Last(w[i]) = x} = {}
        OBVIOUS
    <2>2. Deg(w, R, x) = 0
        <3>1. /\ Cardinality({i \in R : Head(w[i]) = x}) = 0
              /\ Cardinality({i \in R : Last(w[i]) = x}) = 0
            BY <2>1, FS_EmptySet
        <3>2. QED
            BY <3>1 DEF Deg
    <2>3. Even(w, R, x)
        BY <2>2 DEF Even
    <2>4. QED
        BY <2>3, <1>1
<1>4. j \in ProperOf(w) \ U
    OBVIOUS
<1>5. Head(w[j]) # Last(w[j])
    BY <1>4, ProperEnds
<1>6. \A n \in Nodes :
        Even(w, R \ {j}, n) <=> (Even(w, R, n) <=> n \notin {Head(w[j]), Last(w[j])})
    BY <1>2, <1>5, OneWayLess
<1>7. (R \ {j}) \in SUBSET (ProperOf(w) \ (U \cup {j}))
    OBVIOUS
<1>8. CASE Head(w[j]) = x
    <2>1. \A n \in Nodes : Even(w, R \ {j}, n) <=> ((n = Last(w[j])) <=> (n = h))
        BY <1>8, <1>1, <1>5, <1>6
    <2>2. Joinable(w, U \cup {j}, Last(w[j]), h)
        BY <2>1, <1>7 DEF Joinable
    <2>3. QED
        BY <2>2, <1>4, <1>8
<1>9. CASE Last(w[j]) = x
    <2>1. \A n \in Nodes : Even(w, R \ {j}, n) <=> ((n = Head(w[j])) <=> (n = h))
        BY <1>9, <1>1, <1>5, <1>6
    <2>2. Joinable(w, U \cup {j}, Head(w[j]), h)
        BY <2>1, <1>7 DEF Joinable
    <2>3. QED
        BY <2>2, <1>4, <1>9
<1>10. QED
    BY <1>3, <1>8, <1>9

\* The recursive call keeps TriedOf: what the caller's loop passed did not touch.
LEMMA PushTried ==
    ASSUME NEW w \in Seq(Seq(Nodes)), NEW N \in Seq(Nodes), NEW M, NEW f \in Nat,
           NEW i \in DOMAIN w, StackOf(w, N, M), TriedOf(w, N, M, f),
           \A j \in ProperOf(w) \ UsedAt(M, Len(M)) : f <= j /\ j < i => ~Touching(w, N, j)
    PROVE  TriedOf(w, After(w, N, i), Append(M, [entry |-> i, len |-> Len(N)]), 1)
<1> DEFINE d == Len(M)
<1>1. PICK N2 : N2 = After(w, N, i)
    OBVIOUS
<1>2. PICK M2 : M2 = Append(M, [entry |-> i, len |-> Len(N)])
    OBVIOUS
<1>3. OneDeeper(N, M, i, N2, M2)
    BY <1>1, <1>2, Pushed
<1>4. d \in Nat /\ Len(M2) = d + 1 /\ \A j \in ProperOf(w) : j \in Nat /\ 1 <= j
    BY <1>3 DEF StackOf, OneDeeper, ProperOf
<1>5. SUFFICES ASSUME NEW k \in 0..(d + 1), NEW j \in ProperOf(w) \ UsedAt(M2, k),
                      j < FromAt(M2, 1, k), Touching(w, NodesAt(N2, M2, k), j)
               PROVE  Fails(w, NodesAt(N2, M2, k), UsedAt(M2, k), j)
    BY <1>1, <1>2, <1>4 DEF TriedOf
<1>6. CASE k = d + 1
    <2>1. FromAt(M2, 1, k) = 1
        BY <1>4, <1>6 DEF FromAt
    <2>2. j \in Nat /\ 1 <= j
        BY <1>4
    <2>3. QED
        BY <2>1, <2>2, <1>5
<1>7. CASE k \in 0..d
    <2>1. NodesAt(N2, M2, k) = NodesAt(N, M, k) /\ UsedAt(M2, k) = UsedAt(M, k)
        BY <1>3, <1>7 DEF OneDeeper
    <2>2. FromAt(M2, 1, k) = M2[k + 1].entry
        BY <1>4, <1>7 DEF FromAt
    <2>3. CASE k = d
        <3>1. j < i
            BY <2>2, <2>3, <1>3, <1>5 DEF OneDeeper
        <3>2. NodesAt(N, M, k) = N /\ FromAt(M, f, k) = f
            BY <2>3 DEF NodesAt, FromAt
        <3>3. Touching(w, N, j) /\ j \in ProperOf(w) \ UsedAt(M, Len(M))
            BY <2>1, <2>3, <3>2, <1>5
        <3>4. ~(f <= j)
            BY <3>1, <3>3
        <3>5. j < f
            BY <3>4, <1>4
        <3>6. QED
            BY <2>1, <3>2, <3>3, <3>5, <1>7 DEF TriedOf
    <2>4. CASE k # d
        <3>1. k + 1 \in 1..d
            BY <2>4, <1>4, <1>7
        <3>2. FromAt(M2, 1, k) = FromAt(M, f, k)
            BY <2>2, <2>4, <3>1, <1>3 DEF OneDeeper, FromAt
        <3>3. QED
            BY <2>1, <3>2, <1>5, <1>7 DEF TriedOf
    <2>5. QED
        BY <2>3, <2>4
<1>8. QED
    BY <1>4, <1>6, <1>7

\* The innermost call has tried every way: no ring comes of what it was called for.
LEMMA NothingComes ==
    ASSUME NEW w \in Seq(Seq(Nodes)), AllOpen(w), NEW N \in Seq(Nodes), NEW U, NEW f \in Nat,
           N # << >>, Head(N) # Last(N),
           \A j \in ProperOf(w) \ U : Touching(w, N, j) => j < f /\ Fails(w, N, U, j)
    PROVE  ~Joinable(w, U, Last(N), Head(N))
<1> SUFFICES ASSUME Joinable(w, U, Last(N), Head(N)) PROVE FALSE
    OBVIOUS
<1>1. Last(N) \in Nodes /\ Head(N) \in Nodes
    <2>1. Len(N) \in 1..Len(N)
        OBVIOUS
    <2>2. QED
        BY <2>1 DEF Last
<1>2. PICK j \in ProperOf(w) \ U :
             \/ Head(w[j]) = Last(N) /\ Joinable(w, U \cup {j}, Last(w[j]), Head(N))
             \/ Last(w[j]) = Last(N) /\ Joinable(w, U \cup {j}, Head(w[j]), Head(N))
    BY <1>1, JoinOne
<1>3. j \in DOMAIN w /\ w[j] # << >> /\ Head(w[j]) # Last(w[j])
    BY ProperEnds
<1>4. Touching(w, N, j)
    BY <1>2 DEF Touching
<1>5. /\ Head(After(w, N, j)) = Head(N)
      /\ Last(After(w, N, j)) = IF Head(w[j]) = Last(N) THEN Last(w[j]) ELSE Head(w[j])
    BY <1>3, <1>4, AfterEnds
<1>6. Joinable(w, U \cup {j}, Last(After(w, N, j)), Head(After(w, N, j)))
    BY <1>2, <1>3, <1>5
<1>7. QED
    BY <1>4, <1>6 DEF Fails

\* A call that returns false has shown that no ring comes of its caller's mark.
LEMMA PopTried ==
    ASSUME NEW w \in Seq(Seq(Nodes)), AllOpen(w), NEW N \in Seq(Nodes), NEW M, NEW f \in Nat,
           StackOf(w, N, M), M # << >>, TriedOf(w, N, M, f), IsOpen(N),
           \A j \in ProperOf(w) \ UsedAt(M, Len(M)) : f <= j => ~Touching(w, N, j)
    PROVE  TriedOf(w, SubSeq(N, 1, Last(M).len), Front(M), Last(M).entry + 1)
<1> DEFINE d == Len(M)
           e == Last(M).entry
<1>1. PICK N2 : N2 = SubSeq(N, 1, Last(M).len)
    OBVIOUS
<1>2. PICK M2 : M2 = Front(M)
    OBVIOUS
<1>3. OneLess(N, M, N2, M2) /\ e \in DOMAIN w
    BY <1>1, <1>2, Popped
<1>4. /\ d \in Nat \ {0} /\ Len(M2) = d - 1 /\ d - 1 \in 0..d /\ d \in 0..d /\ d \in 1..d
      /\ e \in Nat /\ M[d].entry = e
      /\ \A j \in ProperOf(w) : j \in Nat
      /\ \A k \in 0..(d - 1) : k \in 0..d
    <2>1. M \in Seq(MarkOf(w)) /\ d \in Nat \ {0} /\ Len(M2) = d - 1
        BY <1>3 DEF StackOf, OneLess
    <2>2. e \in Nat /\ \A j \in ProperOf(w) : j \in Nat
        BY <1>3 DEF ProperOf
    <2>3. QED
        BY <2>1, <2>2 DEF Last
<1>5. SUFFICES ASSUME NEW k \in 0..(d - 1), NEW j \in ProperOf(w) \ UsedAt(M2, k),
                      j < FromAt(M2, e + 1, k), Touching(w, NodesAt(N2, M2, k), j)
               PROVE  Fails(w, NodesAt(N2, M2, k), UsedAt(M2, k), j)
    BY <1>1, <1>2, <1>4 DEF TriedOf
<1>6. NodesAt(N2, M2, k) = NodesAt(N, M, k) /\ UsedAt(M2, k) = UsedAt(M, k) /\ k \in 0..d
    BY <1>3, <1>4 DEF OneLess
<1>7. CASE k # d - 1
    <2>1. k + 1 \in 1..(d - 1) /\ k # d
        BY <1>4, <1>7
    <2>2. FromAt(M2, e + 1, k) = FromAt(M, f, k)
        BY <2>1, <1>3, <1>4, <1>7 DEF FromAt, OneLess
    <2>3. QED
        BY <2>2, <1>5, <1>6 DEF TriedOf
<1>8. CASE k = d - 1 /\ j # e
    <2>1. FromAt(M2, e + 1, k) = e + 1 /\ FromAt(M, f, k) = e
        <3>1. k # d /\ k + 1 = d
            BY <1>4, <1>8
        <3>2. QED
            BY <3>1, <1>4, <1>8 DEF FromAt
    <2>2. j < e
        BY <2>1, <1>4, <1>5, <1>8
    <2>3. QED
        BY <2>1, <2>2, <1>5, <1>6 DEF TriedOf
<1>9. CASE k = d - 1 /\ j = e
    <2>1. NodesAt(N, M, d) = N /\ FromAt(M, f, d) = f
        BY DEF NodesAt, FromAt
    <2>2. N = After(w, NodesAt(N, M, k), e)
        BY <2>1, <1>4, <1>9 DEF StackOf
    <2>3. UsedAt(M, d) = UsedAt(M, k) \cup {e}
        BY <1>3, <1>9 DEF OneLess
    <2>4. NodesAt(N, M, k) \in Seq(Nodes)
        <3>1. k # d /\ k + 1 = d
            BY <1>4, <1>9
        <3>2. NodesAt(N, M, k) = N2
            BY <3>1, <1>1 DEF NodesAt, Last
        <3>3. QED
            BY <3>2, <1>1, Popped
    <2>5. Len(N) = Len(NodesAt(N, M, k)) + Len(w[e]) /\ Len(w[e]) > 1
        <3>1. PICK P \in Seq(Nodes) : P = NodesAt(N, M, k)
            BY <2>4
        <3>2. PICK i \in DOMAIN w : i = e
            BY <1>3
        <3>3. Len(After(w, P, i)) = Len(P) + Len(w[i])
            BY AfterType
        <3>4. QED
            BY <3>1, <3>2, <3>3, <2>2, <1>9 DEF ProperOf
    <2>6. Len(N) > 1 /\ N # << >>
        <3>1. Len(NodesAt(N, M, k)) \in Nat /\ Len(w[e]) \in Nat
            BY <2>4, <1>3
        <3>2. Len(N) > 1
            BY <3>1, <2>5
        <3>3. QED
            BY <3>2
    <2>7. Head(N) # Last(N)
        BY <2>6 DEF IsOpen, IsClosed
    <2>8. \A i \in ProperOf(w) \ UsedAt(M, d) :
            Touching(w, N, i) => i < f /\ Fails(w, N, UsedAt(M, d), i)
        <3> SUFFICES ASSUME NEW i \in ProperOf(w) \ UsedAt(M, d), Touching(w, N, i)
                     PROVE  i < f /\ Fails(w, N, UsedAt(M, d), i)
            OBVIOUS
        <3>1. ~(f <= i)
            OBVIOUS
        <3>2. i < f
            BY <3>1, <1>4
        <3>3. QED
            BY <3>2, <2>1, <1>4 DEF TriedOf
    <2>9. ~Joinable(w, UsedAt(M, d), Last(N), Head(N))
        BY <2>6, <2>7, <2>8, NothingComes
    <2>10. QED
        BY <2>2, <2>3, <2>9, <1>6, <1>9 DEF Fails
<1>10. QED
    BY <1>7, <1>8, <1>9

\* The outermost call has tried every way: no ring can be made of them.
LEMMA NoRing ==
    ASSUME NEW w \in Seq(Seq(Nodes)), AllOpen(w), NEW f \in Nat,
           TriedOf(w, << >>, << >>, f), \A j \in ProperOf(w) : j < f
    PROVE  ~\E R \in SUBSET ProperOf(w) : R # {} /\ \A n \in Nodes : Even(w, R, n)
<1> SUFFICES ASSUME NEW R \in SUBSET ProperOf(w), R # {}, \A n \in Nodes : Even(w, R, n)
             PROVE  FALSE
    OBVIOUS
<1>1. PICK i \in R : TRUE
    OBVIOUS
<1>2. i \in DOMAIN w /\ w[i] # << >> /\ Head(w[i]) # Last(w[i])
    BY ProperEnds
<1>3. UsedAt(<< >>, 0) = {} /\ NodesAt(<< >>, << >>, 0) = << >> /\ FromAt(<< >>, f, 0) = f
    BY DEF UsedAt, NodesAt, FromAt
<1>4. Fails(w, << >>, {}, i)
    <2>1. Touching(w, << >>, i) /\ 0 \in 0..Len(<< >>) /\ i \in ProperOf(w) \ {} /\ i < f
        BY DEF Touching
    <2>2. QED
        BY <2>1, <1>3 DEF TriedOf
<1>5. Head(After(w, << >>, i)) = Head(w[i]) /\ Last(After(w, << >>, i)) = Last(w[i])
    <2>1. << >> \in Seq(Nodes) /\ Touching(w, << >>, i)
        BY DEF Touching
    <2>2. QED
        BY <2>1, <1>2, AfterEnds
<1>6. IsFiniteSet(R)
    BY ProperFinite
<1>7. \A n \in Nodes : Even(w, R \ {i}, n) <=> n \notin {Head(w[i]), Last(w[i])}
    BY <1>2, <1>6, OneWayLess
<1>8. \A n \in Nodes : Even(w, R \ {i}, n) <=> ((n = Last(w[i])) <=> (n = Head(w[i])))
    BY <1>2, <1>7
<1>9. (R \ {i}) \in SUBSET (ProperOf(w) \ ({} \cup {i}))
    OBVIOUS
<1>10. Joinable(w, {} \cup {i}, Last(w[i]), Head(w[i]))
    BY <1>8, <1>9 DEF Joinable
<1>11. QED
    BY <1>4, <1>5, <1>10 DEF Fails

-----------------------------------------------------------------------------
(* The lists of process() *)

\* ws are the ways, mem the members, cl and op the two lists made of them.
ListsOf(ws, mem, cl, op) ==
    /\ \A k \in DOMAIN cl : /\ IsClosed(ws[cl[k]])
                            /\ cl[k] \in ToSet(mem) \/ RunsAlong(ws[cl[k]], Of(ws, mem))
    /\ \A k \in DOMAIN op : op[k] \in ToSet(mem) /\ IsOpen(ws[op[k]])
    /\ Total(Of(ws, cl), DOMAIN cl) + Total(Of(ws, op), DOMAIN op)
         = Total(Of(ws, mem), DOMAIN mem)

\* The ways of a list, one by one.
LEMMA WaysOf ==
    ASSUME NEW S, NEW ws \in Seq(S), NEW list \in Seq(DOMAIN ws)
    PROVE  /\ Of(ws, list) \in Seq(S) /\ DOMAIN Of(ws, list) = DOMAIN list
           /\ Len(Of(ws, list)) = Len(list)
           /\ \A k \in DOMAIN list : list[k] \in DOMAIN ws /\ Of(ws, list)[k] = ws[list[k]]
<1>1. /\ DOMAIN list = 1..Len(list) /\ Len(list) \in Nat
      /\ \A k \in DOMAIN list : list[k] \in DOMAIN ws
    OBVIOUS
<1>2. \A r \in DOMAIN ws : ws[r] \in S
    OBVIOUS
<1>3. QED
    BY <1>1, <1>2 DEF Of

\* Picking from a list picks from its ways.
LEMMA OfPicked ==
    ASSUME NEW S, NEW ws \in Seq(S), NEW list \in Seq(DOMAIN ws), NEW I \in SUBSET DOMAIN list
    PROVE  Of(ws, Pick(list, I)) = Pick(Of(ws, list), I)
<1>1. I \in SUBSET DOMAIN Of(ws, list) /\ Of(ws, list) \in Seq(S)
    BY WaysOf
<1>2. /\ DOMAIN Pick(list, I) = 1..Cardinality(I)
      /\ \A k \in 1..Cardinality(I) : Place(I, k) \in I /\ Pick(list, I)[k] = list[Place(I, k)]
    BY Picked
<1>3. Pick(Of(ws, list), I) = [k \in 1..Cardinality(I) |-> Of(ws, list)[Place(I, k)]]
    BY DEF Pick, Place
<1>4. \A k \in 1..Cardinality(I) : Of(ws, list)[Place(I, k)] = ws[Pick(list, I)[k]]
    BY <1>2, WaysOf
<1>5. QED
    BY <1>2, <1>3, <1>4 DEF Of

\* The members are divided into closed and open ways.
LEMMA DividedLists ==
    ASSUME NEW ws \in Seq(Seq(Nodes)), NEW mem \in Seq(DOMAIN ws), NEW C, NEW O,
           C \cup O = DOMAIN mem, C \cap O = {},
           \A i \in C : IsClosed(ws[mem[i]]), \A i \in O : IsOpen(ws[mem[i]])
    PROVE  /\ Pick(mem, C) \in Seq(DOMAIN ws) /\ Pick(mem, O) \in Seq(DOMAIN ws)
           /\ ListsOf(ws, mem, Pick(mem, C), Pick(mem, O))
<1> DEFINE w == Of(ws, mem)
<1>1. w \in Seq(Seq(Nodes)) /\ DOMAIN w = DOMAIN mem
    BY WaysOf
<1>2. C \in SUBSET DOMAIN mem /\ O \in SUBSET DOMAIN mem 
    OBVIOUS
<1>3. Pick(mem, C) \in Seq(DOMAIN ws) /\ Pick(mem, O) \in Seq(DOMAIN ws)
    BY <1>2, Picked
<1>4. \A k \in DOMAIN Pick(mem, C) : /\ IsClosed(ws[Pick(mem, C)[k]])
                                     /\ Pick(mem, C)[k] \in ToSet(mem)
    <2> TAKE k \in DOMAIN Pick(mem, C)
    <2>1. PICK i \in C : Pick(mem, C)[k] = mem[i]
        BY <1>2, OneOfPicked
    <2>2. QED
        BY <2>1 DEF ToSet
<1>5. \A k \in DOMAIN Pick(mem, O) : /\ IsOpen(ws[Pick(mem, O)[k]])
                                     /\ Pick(mem, O)[k] \in ToSet(mem)
    <2> TAKE k \in DOMAIN Pick(mem, O)
    <2>1. PICK i \in O : Pick(mem, O)[k] = mem[i]
        BY <1>2, OneOfPicked
    <2>2. QED
        BY <2>1 DEF ToSet
<1>6. Total(Of(ws, Pick(mem, C)), DOMAIN Pick(mem, C)) = Total(w, C)
    <2>1. Of(ws, Pick(mem, C)) = Pick(w, C)
        BY <1>2, OfPicked
    <2>2. DOMAIN Of(ws, Pick(mem, C)) = DOMAIN Pick(mem, C)
        BY <1>3, WaysOf
    <2>3. Total(Pick(w, C), DOMAIN Pick(w, C)) = Total(w, C)
        BY <1>1, <1>2, TotalPicked
    <2>4. QED
        BY <2>1, <2>2, <2>3
<1>7. Total(Of(ws, Pick(mem, O)), DOMAIN Pick(mem, O)) = Total(w, O)
    <2>1. Of(ws, Pick(mem, O)) = Pick(w, O)
        BY <1>2, OfPicked
    <2>2. DOMAIN Of(ws, Pick(mem, O)) = DOMAIN Pick(mem, O)
        BY <1>3, WaysOf
    <2>3. Total(Pick(w, O), DOMAIN Pick(w, O)) = Total(w, O)
        BY <1>1, <1>2, TotalPicked
    <2>4. QED
        BY <2>1, <2>2, <2>3
<1>8. Total(w, DOMAIN mem) = Total(w, C) + Total(w, O)
    BY <1>1, <1>2, TotalOfTwo
<1>9. QED
    BY <1>3, <1>4, <1>5, <1>6, <1>7, <1>8 DEF ListsOf

\* A list names the same ways when a new one is appended to m_Ways.
LEMMA OfAppended ==
    ASSUME NEW S, NEW ws \in Seq(S), NEW x \in S, NEW list \in Seq(DOMAIN ws)
    PROVE  /\ list \in Seq(DOMAIN Append(ws, x))
           /\ Of(Append(ws, x), list) = Of(ws, list)
           /\ \A r \in DOMAIN ws : Append(ws, x)[r] = ws[r]
           /\ DOMAIN ws \in SUBSET DOMAIN Append(ws, x)
           /\ Len(ws) + 1 \in DOMAIN Append(ws, x) /\ Append(ws, x)[Len(ws) + 1] = x
           /\ Len(ws) + 1 \notin DOMAIN ws
<1>1. /\ DOMAIN ws = 1..Len(ws) /\ Len(ws) \in Nat
      /\ DOMAIN Append(ws, x) = 1..(Len(ws) + 1)
      /\ \A r \in DOMAIN ws : Append(ws, x)[r] = ws[r]
      /\ Append(ws, x)[Len(ws) + 1] = x
    OBVIOUS
<1>2. DOMAIN ws \in SUBSET DOMAIN Append(ws, x)
    BY <1>1
<1>3. list \in Seq(DOMAIN Append(ws, x))
    BY <1>2, SeqMonotonic
<1>4. \A k \in DOMAIN list : list[k] \in DOMAIN ws
    OBVIOUS
<1>5. Of(Append(ws, x), list) = Of(ws, list)
    BY <1>1, <1>4 DEF Of
<1>6. Len(ws) + 1 \in DOMAIN Append(ws, x) /\ Len(ws) + 1 \notin DOMAIN ws
    BY <1>1
<1>7. QED
    BY <1>1, <1>2, <1>3, <1>5, <1>6

\* A ring N of the open ways U becomes a way of its own.
LEMMA RingLists ==
    ASSUME NEW ws \in Seq(Seq(Nodes)), NEW mem \in Seq(DOMAIN ws),
           NEW cl \in Seq(DOMAIN ws), NEW op \in Seq(DOMAIN ws), ListsOf(ws, mem, cl, op),
           NEW N \in Seq(Nodes), IsClosed(N), RunsAlong(N, Of(ws, mem)),
           NEW U \in SUBSET DOMAIN op, Len(N) = Total(Of(ws, op), U)
    PROVE  /\ Append(cl, Len(ws) + 1) \in Seq(DOMAIN Append(ws, N))
           /\ Pick(op, DOMAIN op \ U) \in Seq(DOMAIN Append(ws, N))
           /\ ListsOf(Append(ws, N), mem, Append(cl, Len(ws) + 1), Pick(op, DOMAIN op \ U))
           /\ \E k \in DOMAIN Append(cl, Len(ws) + 1) : Append(cl, Len(ws) + 1)[k] \notin ToSet(mem)
<1> DEFINE V == DOMAIN op \ U
           w == Of(ws, op)
<1>a. V \in SUBSET DOMAIN op
    OBVIOUS
<1>b. DOMAIN op = U \cup V /\ U \cap V = {}
    OBVIOUS
<1> HIDE DEF V
<1>1. PICK r : r = Len(ws) + 1
    OBVIOUS
<1>2. PICK ws2 : ws2 = Append(ws, N)
    OBVIOUS
<1>3. PICK cl2 : cl2 = Append(cl, r)
    OBVIOUS
<1>4. PICK op2 : op2 = Pick(op, V)
    OBVIOUS
<1>5. /\ ws2 \in Seq(Seq(Nodes)) /\ DOMAIN ws \in SUBSET DOMAIN ws2
      /\ r \in DOMAIN ws2 /\ ws2[r] = N /\ r \notin DOMAIN ws
      /\ \A q \in DOMAIN ws : ws2[q] = ws[q]
      /\ \A list \in Seq(DOMAIN ws) : list \in Seq(DOMAIN ws2) /\ Of(ws2, list) = Of(ws, list)
    <2>1. ws2 \in Seq(Seq(Nodes))
        BY <1>2
    <2>2. QED
        BY <2>1, <1>1, <1>2, OfAppended
<1>6. /\ cl2 \in Seq(DOMAIN ws2) /\ Len(cl2) = Len(cl) + 1 /\ cl2[Len(cl) + 1] = r
      /\ \A k \in DOMAIN cl : cl2[k] = cl[k]
      /\ \A k \in DOMAIN cl2 : k \in DOMAIN cl \/ k = Len(cl) + 1
      /\ Len(cl) + 1 \in DOMAIN cl2
    <2>1. cl \in Seq(DOMAIN ws2)
        BY <1>5
    <2>2. r \in DOMAIN ws2
        BY <1>5
    <2>3. /\ cl2 \in Seq(DOMAIN ws2)
          /\ Len(cl2) = Len(cl) + 1 /\ Len(cl) \in Nat
        BY <2>1, <2>2, <1>3
    <2>4. DOMAIN cl = 1..Len(cl) /\ DOMAIN cl2 = 1..(Len(cl) + 1)
        BY <2>1, <2>3
    <2>5. cl2[Len(cl) + 1] = r /\ \A k \in DOMAIN cl : cl2[k] = cl[k]
        BY <2>1, <2>2, <2>4, <1>3
    <2>6. \A k \in 1..(Len(cl) + 1) : k \in 1..Len(cl) \/ k = Len(cl) + 1
        BY <2>3
    <2>7. Len(cl) + 1 \in 1..(Len(cl) + 1)
        BY <2>3
    <2>8. QED
        BY <2>3, <2>4, <2>5, <2>6, <2>7
<1>7. /\ op2 \in Seq(DOMAIN ws)
      /\ \A k \in DOMAIN op2 : \E q \in V : op2[k] = op[q]
    <2>1. op2 \in Seq(DOMAIN ws)
        BY <1>a, <1>4, Picked
    <2>2. \A k \in DOMAIN op2 : \E q \in V : op2[k] = op[q]
        <3> TAKE k \in DOMAIN op2
        <3>1. Pick(op, V)[k] \in {op[q] : q \in V}
            BY <1>a, <1>4, OneOfPicked
        <3>2. QED
            BY <3>1, <1>4
    <2>3. QED
        BY <2>1, <2>2
<1>8. \A k \in DOMAIN mem : mem[k] \in DOMAIN ws
    OBVIOUS
<1>9. r \notin ToSet(mem)
    BY <1>5, <1>8 DEF ToSet
<1>10. ASSUME NEW k \in DOMAIN cl2
       PROVE  /\ IsClosed(ws2[cl2[k]])
              /\ cl2[k] \in ToSet(mem) \/ RunsAlong(ws2[cl2[k]], Of(ws2, mem))
    <2>1. Of(ws2, mem) = Of(ws, mem)
        BY <1>5
    <2>2. CASE k = Len(cl) + 1
        BY <2>1, <2>2, <1>5, <1>6
    <2>3. CASE k \in DOMAIN cl
        <3>1. cl[k] \in DOMAIN ws /\ cl2[k] = cl[k]
            BY <2>3, <1>6
        <3>2. ws2[cl2[k]] = ws[cl[k]]
            BY <3>1, <1>5
        <3>3. QED
            BY <2>1, <2>3, <3>1, <3>2 DEF ListsOf
    <2>4. QED
        BY <2>2, <2>3, <1>6
<1>11. ASSUME NEW k \in DOMAIN op2
       PROVE  op2[k] \in ToSet(mem) /\ IsOpen(ws2[op2[k]])
    <2>1. PICK q \in DOMAIN op : op2[k] = op[q]
        BY <1>a, <1>7
    <2>2. op[q] \in DOMAIN ws
        OBVIOUS
    <2>3. ws2[op2[k]] = ws[op[q]]
        BY <2>1, <2>2, <1>5
    <2>4. QED
        BY <2>1, <2>3 DEF ListsOf
<1>12. Total(Of(ws2, cl2), DOMAIN cl2) = Total(Of(ws, cl), DOMAIN cl) + Len(N)
    <2>1. Of(ws, cl) \in Seq(Seq(Nodes)) /\ DOMAIN Of(ws, cl) = DOMAIN cl /\ Len(Of(ws, cl)) = Len(cl)
          /\ \A k \in DOMAIN cl : cl[k] \in DOMAIN ws /\ Of(ws, cl)[k] = ws[cl[k]]
        BY WaysOf
    <2>2. PICK a : a = Append(Of(ws, cl), N)
        OBVIOUS
    <2>3. /\ DOMAIN a = 1..(Len(cl) + 1) /\ a[Len(cl) + 1] = N
          /\ \A k \in 1..Len(cl) : a[k] = Of(ws, cl)[k]
        BY <2>1, <2>2
    <2>4. DOMAIN cl2 = 1..(Len(cl) + 1) /\ DOMAIN cl = 1..Len(cl)
        BY <1>6
    <2>5. \A k \in DOMAIN cl2 : ws2[cl2[k]] = a[k]
        <3> TAKE k \in DOMAIN cl2
        <3>1. CASE k = Len(cl) + 1
            BY <3>1, <2>3, <1>5, <1>6
        <3>2. CASE k \in DOMAIN cl
            BY <3>2, <2>1, <2>3, <2>4, <1>5, <1>6
        <3>3. QED
            BY <3>1, <3>2, <1>6
    <2>6. Of(ws2, cl2) = a
        <3>1. a \in Seq(Seq(Nodes))
            BY <2>1, <2>2
        <3>2. a = [k \in 1..(Len(cl) + 1) |-> a[k]]
            BY <3>1, <2>3
        <3>3. QED
            BY <3>2, <2>4, <2>5 DEF Of
    <2>7. Total(a, DOMAIN a) = Total(Of(ws, cl), DOMAIN Of(ws, cl)) + Len(N)
        BY <2>1, <2>2, TotalAppended
    <2>8. QED
        BY <2>1, <2>3, <2>4, <2>6, <2>7
<1>13. w \in Seq(Seq(Nodes)) /\ DOMAIN w = DOMAIN op
    BY WaysOf
<1>14. Total(Of(ws2, op2), DOMAIN op2) = Total(w, V)
    <2>1. Of(ws2, op2) = Of(ws, op2) /\ DOMAIN Of(ws, op2) = DOMAIN op2
        BY <1>5, <1>7, WaysOf
    <2>2. Of(ws, op2) = Pick(w, V)
        BY <1>a, <1>4, OfPicked
    <2>3. Total(Pick(w, V), DOMAIN Pick(w, V)) = Total(w, V)
        BY <1>a, <1>13, TotalPicked
    <2>4. QED
        BY <2>1, <2>2, <2>3
<1> HIDE DEF w
<1>15. Total(w, DOMAIN op) = Total(w, U) + Total(w, V)
    <2>1. DOMAIN op = U \cup V /\ U \cap V = {} /\ U \in SUBSET DOMAIN w /\ V \in SUBSET DOMAIN w
        BY <1>a, <1>b, <1>13
    <2>2. Total(w, U \cup V) = Total(w, U) + Total(w, V)
        BY <2>1, <1>13, TotalOfTwo
    <2>3. QED
        BY <2>1, <2>2
<1>16. Total(w, U) \in Nat /\ Total(w, V) \in Nat /\ Total(Of(ws, cl), DOMAIN cl) \in Nat
    <2>1. Of(ws, cl) \in Seq(Seq(Nodes)) /\ DOMAIN Of(ws, cl) = DOMAIN cl
        BY WaysOf
    <2>2. U \in SUBSET DOMAIN w /\ V \in SUBSET DOMAIN w
        BY <1>a, <1>13
    <2>3. QED
        BY <2>1, <2>2, <1>13, CellsFinite
<1>17. (Total(Of(ws, cl), DOMAIN cl) + Total(w, U)) + Total(w, V)
         = Total(Of(ws, cl), DOMAIN cl) + (Total(w, U) + Total(w, V))
    BY <1>16
<1>18. Total(Of(ws2, cl2), DOMAIN cl2) + Total(Of(ws2, op2), DOMAIN op2)
         = Total(Of(ws2, mem), DOMAIN mem)
    BY <1>5, <1>12, <1>14, <1>15, <1>17 DEF ListsOf, w
<1>19. ListsOf(ws2, mem, cl2, op2)
    BY <1>10, <1>11, <1>18 DEF ListsOf
<1>20. op2 \in Seq(DOMAIN ws2) /\ \E k \in DOMAIN cl2 : cl2[k] \notin ToSet(mem)
    BY <1>5, <1>6, <1>7, <1>9
<1>21. QED
    BY <1>1, <1>2, <1>3, <1>4, <1>6, <1>19, <1>20 DEF V

-----------------------------------------------------------------------------
(* The invariant *)

\* What LoadData appends to m_Buildings, m_Waters and m_Landuses.
Polygons(ws) ==
    [kind : {"building", "water", "landuse"}, outer : Seq(DOMAIN ws), inner : Seq(DOMAIN ws)]

\* The shape of the state: whatever names a way names one that is there.
TypeOK ==
    /\ ways \in Seq(Seq(Nodes)) /\ room \in Nat
    /\ relations \in Seq(Seq(Children(ways)))
    /\ outer \in Seq(DOMAIN ways) /\ inner \in Seq(DOMAIN ways)
    /\ polygons \in Seq(Polygons(ways))
    /\ role \in {"outer", "inner"} /\ stale \in BOOLEAN
    /\ closed \in Seq(DOMAIN ways) /\ open \in Seq(DOMAIN ways)
    /\ nodes \in Seq(Nodes) /\ from \in Nat
    /\ pc \in {"read", "process", "while", "track", "finish", "done", "undefined"}
    /\ pc \notin {"read", "done"} => polygons # << >>

\* The members have been divided into the two lists.
Divided == pc \in {"while", "track", "finish", "undefined"}

\* The two lists are made of the members.
Lists == Divided => ListsOf(ways, Members, closed, open)

\* Only a ring that was made moves the storage.
MovedByRing == Divided /\ stale => \E k \in DOMAIN closed : closed[k] \notin ToSet(Members)

\* The ways into the undefined: the stale pointer, or front() of a way without nodes.
UndefinedWhy ==
    pc = "undefined" => open # << >> /\ (stale \/ \E i \in DOMAIN open : Way(i) = << >>)

\* The ways of the open list.
OpenWays == Of(ways, open)

\* The search: its stack, where its nodes run, and what it has tried.
Search ==
    pc = "track" =>
        /\ StackOf(OpenWays, nodes, marks) /\ used = UsedAt(marks, Len(marks))
        /\ RunsAlong(nodes, Of(ways, Members))
        /\ TriedOf(OpenWays, nodes, marks, from)

\* The inductive invariant.
IInv == TypeOK /\ Lists /\ MovedByRing /\ UndefinedWhy /\ Search /\ NothingLeftToJoin

-----------------------------------------------------------------------------
(* Types *)

\* The members have numbers of ways.
LEMMA MembersType ==
    ASSUME TypeOK, polygons # << >>
    PROVE  Members \in Seq(DOMAIN ways)
<1>1. polygons \in Seq(Polygons(ways)) /\ Len(polygons) \in 1..Len(polygons)
    BY DEF TypeOK
<1>2. polygons[Len(polygons)] \in Polygons(ways)
    BY <1>1
<1>3. QED
    BY <1>2 DEF Members, Polygons, TypeOK

\* The step to the next child.
LEMMA NextOf ==
    ASSUME NEW S, NEW s \in Seq(Seq(S)), s # << >>
    PROVE  /\ Tail(s) \in Seq(Seq(S)) /\ Head(s) \in Seq(S)
           /\ Head(s) # << >> => Head(Head(s)) \in S /\ <<Tail(Head(s))>> \o Tail(s) \in Seq(Seq(S))
<1>1. Tail(s) \in Seq(Seq(S)) /\ Head(s) \in Seq(S)
    OBVIOUS
<1>2. ASSUME Head(s) # << >>
      PROVE  Head(Head(s)) \in S /\ Tail(Head(s)) \in Seq(S)
    BY <1>1, <1>2
<1>3. ASSUME Head(s) # << >>
      PROVE  <<Tail(Head(s))>> \o Tail(s) \in Seq(Seq(S))
    <2>1. <<Tail(Head(s))>> \in Seq(Seq(S))
        BY <1>2, <1>3
    <2>2. QED
        BY <2>1, <1>1
<1>4. QED
    BY <1>1, <1>2, <1>3

\* The ways that are picked from a map's references have nodes that the map has.
LEMMA KnownType ==
    ASSUME NEW refs \in Seq(Nodes \cup {Unknown})
    PROVE  KnownNodes(refs) \in Seq(Nodes)
<1> DEFINE I == {i \in DOMAIN refs : refs[i] \in Nodes}
           p == Pick(refs, I)
<1>1. I \in SUBSET DOMAIN refs
    OBVIOUS
<1>2. p \in Seq(Nodes \cup {Unknown})
    BY <1>1, Picked
<1>3. \A k \in DOMAIN p : p[k] \in {refs[i] : i \in I}
    BY <1>1, OneOfPicked
<1>4. \A k \in DOMAIN p : p[k] \in Nodes
    BY <1>3
<1> HIDE DEF p
<1>5. p \in Seq(Nodes)
    <2>1. Len(p) \in Nat /\ DOMAIN p = 1..Len(p) /\ p = [k \in 1..Len(p) |-> p[k]]
        BY <1>2
    <2>2. QED
        BY <2>1, <1>4
<1>6. QED
    BY <1>5 DEF p, KnownNodes

\* The invariant holds when the file has been opened.
LEMMA InitInv == Init => IInv
<1> SUFFICES ASSUME Init PROVE IInv
    OBVIOUS
<1>1. PICK d \in Documents : /\ relations = d.relations
                             /\ ways = [i \in DOMAIN d.ways |-> KnownNodes(d.ways[i])]
    BY DEF Init
<1>2. d.ways \in Seq(Seq(Nodes \cup {Unknown})) /\ d.relations \in Seq(Seq(Children(d.ways)))
    BY DocumentsAssumption
<1>3. ways \in Seq(Seq(Nodes)) /\ DOMAIN ways = DOMAIN d.ways
    <2>1. \A i \in DOMAIN d.ways : KnownNodes(d.ways[i]) \in Seq(Nodes)
        <3> TAKE i \in DOMAIN d.ways
        <3>1. d.ways[i] \in Seq(Nodes \cup {Unknown})
            BY <1>2
        <3>2. QED
            BY <3>1, KnownType
    <2>2. Len(d.ways) \in Nat /\ DOMAIN d.ways = 1..Len(d.ways)
        BY <1>2
    <2>3. QED
        BY <2>1, <2>2, <1>1
<1>4. relations \in Seq(Seq(Children(ways)))
    BY <1>1, <1>2, <1>3 DEF Children
<1>5. TypeOK
    <2>1. room \in Nat
        BY RoomAssumption DEF Init
    <2>2. /\ outer = << >> /\ inner = << >> /\ polygons = << >> /\ role = "outer" /\ stale = FALSE
          /\ closed = << >> /\ open = << >> /\ nodes = << >> /\ from = 1 /\ pc = "read"
        BY DEF Init
    <2>3. outer \in Seq(DOMAIN ways) /\ inner \in Seq(DOMAIN ways)
          /\ closed \in Seq(DOMAIN ways) /\ open \in Seq(DOMAIN ways)
        BY <2>2
    <2>4. polygons \in Seq(Polygons(ways)) /\ nodes \in Seq(Nodes)
        BY <2>2
    <2>5. QED
        BY <1>3, <1>4, <2>1, <2>2, <2>3, <2>4 DEF TypeOK
<1>6. pc = "read"
    BY DEF Init
<1>7. QED
    BY <1>5, <1>6 DEF IInv, Lists, MovedByRing, UndefinedWhy, Search, NothingLeftToJoin, Divided

-----------------------------------------------------------------------------
(* The steps of LoadData *)

\* Before the members are divided there is only the shape to keep.
LEMMA Undivided ==
    ASSUME TypeOK', pc' \in {"read", "process", "done"}
    PROVE  IInv'
BY DEF IInv, Lists, MovedByRing, UndefinedWhy, Search, NothingLeftToJoin, Divided

\* What the step to the next child or relation leaves.
LEMMA Advanced ==
    ASSUME TypeOK, relations # << >>
    PROVE  /\ Tail(relations) \in Seq(Seq(Children(ways)))
           /\ Head(relations) # << >> =>
                /\ Child \in Children(ways)
                /\ <<Tail(Head(relations))>> \o Tail(relations) \in Seq(Seq(Children(ways)))
<1>1. relations \in Seq(Seq(Children(ways)))
    BY DEF TypeOK
<1>2. QED
    BY <1>1, NextOf DEF Child

\* A member that is known names a way.
LEMMA ChildRef ==
    ASSUME Child \in Children(ways), Child.name = "member", Child.ref # Unknown
    PROVE  Child.ref \in DOMAIN ways
BY DEF Children

\* A member goes to one of the two lists.
LEMMA ReadMemberStep == IInv /\ ReadMember => IInv'
<1> SUFFICES ASSUME IInv, ReadMember PROVE IInv'
    OBVIOUS
<1>1. TypeOK /\ relations # << >> /\ Head(relations) # << >> /\ pc = "read"
    BY DEF IInv, ReadMember, Reading
<1>2. relations' \in Seq(Seq(Children(ways))) /\ Child \in Children(ways)
    BY <1>1, Advanced DEF ReadMember, NextChild
<1>3. Child.ref # Unknown => Child.ref \in DOMAIN ways
    BY <1>2, ChildRef DEF ReadMember
<1>4. outer \in Seq(DOMAIN ways) /\ inner \in Seq(DOMAIN ways)
    BY <1>1 DEF TypeOK
<1>5. outer' \in Seq(DOMAIN ways) /\ inner' \in Seq(DOMAIN ways)
    <2>1. CASE outer' = outer /\ inner' = inner
        BY <2>1, <1>4
    <2>2. CASE Child.ref # Unknown /\ outer' = Append(outer, Child.ref) /\ inner' = inner
        BY <2>2, <1>3, <1>4
    <2>3. CASE Child.ref # Unknown /\ inner' = Append(inner, Child.ref) /\ outer' = outer
        BY <2>3, <1>3, <1>4
    <2>4. QED
        BY <2>1, <2>2, <2>3 DEF ReadMember
<1>6. UNCHANGED <<wayVars, polygons, ringVars, trackVars, pc>>
    BY DEF ReadMember
<1>7. TypeOK'
    BY <1>1, <1>2, <1>5, <1>6 DEF TypeOK, wayVars, ringVars, trackVars
<1>8. QED
    BY <1>1, <1>6, <1>7, Undivided

\* A tag that commits the members read so far.
LEMMA ReadAreaStep == IInv /\ ReadArea => IInv'
<1> SUFFICES ASSUME IInv, ReadArea PROVE IInv'
    OBVIOUS
<1>1. TypeOK /\ relations # << >>
    BY DEF IInv, ReadArea, Reading
<1> DEFINE p == [kind |-> Child.name, outer |-> outer, inner |-> inner]
<1>2. relations' \in Seq(Seq(Children(ways)))
    BY <1>1, Advanced DEF ReadArea, NextRelation
<1>3. p \in Polygons(ways)
    <2>1. Child.name \in {"building", "water", "landuse"}
        BY DEF ReadArea
    <2>2. QED
        BY <2>1, <1>1 DEF TypeOK, Polygons
<1>4. polygons' = Append(polygons, p)
    BY DEF ReadArea
<1> HIDE DEF p
<1>5. polygons' \in Seq(Polygons(ways)) /\ polygons' # << >>
    <2>1. polygons \in Seq(Polygons(ways))
        BY <1>1 DEF TypeOK
    <2>2. QED
        BY <2>1, <1>3, <1>4, AppendProperties
<1>6. /\ outer' = << >> /\ inner' = << >> /\ role' = "outer" /\ pc' \in {"read", "process"}
      /\ UNCHANGED <<wayVars, stale, closed, open, trackVars>>
    BY DEF ReadArea, NextRelation
<1>7. outer' \in Seq(DOMAIN ways) /\ inner' \in Seq(DOMAIN ways)
    BY <1>6
<1>8. TypeOK'
    BY <1>1, <1>2, <1>5, <1>6, <1>7 DEF TypeOK, wayVars, trackVars
<1>9. QED
    BY <1>6, <1>8, Undivided

\* What passes over a child, a relation, or ends the file.
LEMMA ReadOtherStep == IInv /\ (ReadOtherTag \/ EndOfRelation \/ EndOfFile) => IInv'
<1> SUFFICES ASSUME IInv, ReadOtherTag \/ EndOfRelation \/ EndOfFile PROVE IInv'
    OBVIOUS
<1>1. TypeOK
    BY DEF IInv
<1>2. /\ relations' \in Seq(Seq(Children(ways)))
      /\ outer' \in {outer, << >>} /\ inner' \in {inner, << >>}
    <2>1. CASE ReadOtherTag
        <3>1. relations # << >> /\ Head(relations) # << >>
            BY <2>1 DEF ReadOtherTag, Reading
        <3>2. QED
            BY <3>1, <2>1, <1>1, Advanced DEF ReadOtherTag, NextChild, NextRelation
    <2>2. CASE EndOfRelation
        BY <2>2, <1>1, Advanced DEF EndOfRelation, NextRelation
    <2>3. CASE EndOfFile
        BY <2>3, <1>1 DEF EndOfFile, readVars, TypeOK
    <2>4. QED
        BY <2>1, <2>2, <2>3
<1>3. outer' \in Seq(DOMAIN ways) /\ inner' \in Seq(DOMAIN ways)
    <2>1. outer \in Seq(DOMAIN ways) /\ inner \in Seq(DOMAIN ways)
        BY <1>1 DEF TypeOK
    <2>2. << >> \in Seq(DOMAIN ways)
        OBVIOUS
    <2>3. outer' \in {outer, << >>} /\ inner' \in {inner, << >>}
        BY <1>2
    <2>4. QED
        BY <2>1, <2>2, <2>3, Zenon
<1>4. /\ UNCHANGED <<wayVars, polygons, ringVars, trackVars>>
      /\ pc' \in {"read", "done"}
    BY DEF ReadOtherTag, Reading, EndOfRelation, EndOfFile
<1>5. TypeOK'
    BY <1>1, <1>2, <1>3, <1>4 DEF TypeOK, wayVars, ringVars, trackVars
<1>6. QED
    BY <1>4, <1>5, Undivided

-----------------------------------------------------------------------------
(* The steps of BuildRings *)

\* The members are divided into closed and open ones.
LEMMA ProcessStep == IInv /\ Process => IInv'
<1> SUFFICES ASSUME IInv, Process PROVE IInv'
    OBVIOUS
<1>1. TypeOK /\ pc = "process" /\ pc' = "while" /\ stale' = FALSE
    BY DEF IInv, Process
<1>2. polygons # << >> /\ Members \in Seq(DOMAIN ways) /\ ways \in Seq(Seq(Nodes))
    BY <1>1, MembersType DEF TypeOK
<1>3. PICK mem \in Seq(DOMAIN ways) : mem = Members
    BY <1>2
<1>4. PICK C : C = {i \in DOMAIN mem : IsClosed(ways[mem[i]])}
    OBVIOUS
<1>5. PICK O : O = {i \in DOMAIN mem : IsOpen(ways[mem[i]])}
    OBVIOUS
<1>6. closed' = Pick(mem, C) /\ open' = Pick(mem, O)
    BY <1>3, <1>4, <1>5 DEF Process
<1>7. /\ C \cup O = DOMAIN mem /\ C \cap O = {}
      /\ \A i \in C : IsClosed(ways[mem[i]])
      /\ \A i \in O : IsOpen(ways[mem[i]])
    BY <1>4, <1>5 DEF IsOpen
<1>8. /\ closed' \in Seq(DOMAIN ways) /\ open' \in Seq(DOMAIN ways)
      /\ ListsOf(ways, mem, closed', open')
    BY <1>2, <1>6, <1>7, DividedLists
<1>9. UNCHANGED <<readVars, wayVars, polygons, role, trackVars>>
    BY DEF Process
<1>10. Members' = mem /\ ways' = ways
    BY <1>3, <1>9 DEF Members, wayVars
<1>11. TypeOK'
    BY <1>1, <1>2, <1>8, <1>9 DEF TypeOK, readVars, wayVars, trackVars
<1>12. Lists'
    BY <1>8, <1>10 DEF Lists
<1>13. QED
    BY <1>1, <1>11, <1>12 DEF IInv, MovedByRing, UndefinedWhy, Search, NothingLeftToJoin

\* A search that begins.
LEMMA SearchBegins ==
    ASSUME NEW w \in Seq(Seq(Nodes)), NEW W
    PROVE  /\ StackOf(w, << >>, << >>) /\ UsedAt(<< >>, Len(<< >>)) = {}
           /\ RunsAlong(<< >>, W) /\ TriedOf(w, << >>, << >>, 1)
<1>1. Len(<< >>) = 0 /\ UsedAt(<< >>, 0) = {} /\ NodesAt(<< >>, << >>, 0) = << >>
      /\ FromAt(<< >>, 1, 0) = 1
    BY DEF UsedAt, NodesAt, FromAt
<1>2. Total(w, {}) = 0
    <2>1. Cells(w, {}) = {}
        BY DEF Cells
    <2>2. QED
        BY <2>1, FS_EmptySet DEF Total
<1>3. \A k \in 0..Len(<< >>) : k = 0
    BY <1>1
<1>4. StackOf(w, << >>, << >>)
    <2>1. << >> \in Seq(MarkOf(w)) /\ \A k \in 1..Len(<< >>) : FALSE
        BY <1>1
    <2>2. QED
        BY <2>1, <1>1, <1>2, <1>3 DEF StackOf
<1>5. RunsAlong(<< >>, W)
    <2>1. \A k \in 1..(Len(<< >>) - 1) : FALSE
        BY <1>1
    <2>2. Segments(<< >>) = {}
        BY <2>1 DEF Segments
    <2>3. QED
        BY <2>2 DEF RunsAlong
<1>6. TriedOf(w, << >>, << >>, 1)
    <2>1. \A j \in ProperOf(w) : j \in Nat /\ ~(j < 1)
        BY DEF ProperOf
    <2>2. QED
        BY <2>1, <1>1, <1>3 DEF TriedOf
<1>7. QED
    BY <1>1, <1>4, <1>5, <1>6

\* The head of the loop begins a search, ends the loop, or uses a stale pointer.
LEMMA WhileStep == IInv /\ While => IInv'
<1> SUFFICES ASSUME IInv, While PROVE IInv'
    OBVIOUS
<1>1. /\ TypeOK /\ Lists /\ MovedByRing /\ pc = "while"
      /\ nodes' = << >> /\ used' = {} /\ marks' = << >> /\ from' = 1
      /\ pc' = IF open = << >> THEN "finish" ELSE IF stale THEN "undefined" ELSE "track"
      /\ UNCHANGED <<readVars, wayVars, polygons, ringVars>>
    BY DEF IInv, While
<1>2. Members' = Members /\ ways' = ways /\ closed' = closed /\ open' = open /\ stale' = stale
    BY <1>1 DEF Members, wayVars, ringVars
<1>3. TypeOK'
    <2>1. nodes' \in Seq(Nodes) /\ from' \in Nat
        BY <1>1
    <2>2. polygons # << >>
        BY <1>1 DEF TypeOK
    <2>3. QED
        BY <2>1, <2>2, <1>1 DEF TypeOK, readVars, wayVars, ringVars
<1>4. Lists' /\ MovedByRing'
    BY <1>1, <1>2 DEF Lists, MovedByRing, Divided
<1>5. UndefinedWhy'
    BY <1>1, <1>2 DEF UndefinedWhy
<1>6. Search'
    <2>1. OpenWays \in Seq(Seq(Nodes)) /\ OpenWays' = OpenWays
        BY <1>1, <1>2, WaysOf DEF OpenWays, TypeOK
    <2>2. /\ StackOf(OpenWays, << >>, << >>) /\ UsedAt(<< >>, Len(<< >>)) = {}
          /\ RunsAlong(<< >>, Of(ways, Members)) /\ TriedOf(OpenWays, << >>, << >>, 1)
        BY <2>1, SearchBegins
    <2>3. QED
        BY <2>1, <2>2, <1>1, <1>2 DEF Search
<1>7. NothingLeftToJoin'
    <2>1. SUFFICES ASSUME pc' = "finish" PROVE ~RingPossible'
        BY DEF NothingLeftToJoin
    <2>2. open' = << >>
        BY <2>1, <1>1, <1>2
    <2>3. DOMAIN open' = {}
        BY <2>2
    <2>4. QED
        BY <2>3 DEF RingPossible
<1>8. QED
    BY <1>3, <1>4, <1>5, <1>6, <1>7 DEF IInv

\* The polygon gets the closed ways.
LEMMA FinishStep == IInv /\ Finish => IInv'
<1> SUFFICES ASSUME IInv, Finish PROVE IInv'
    OBVIOUS
<1>1. /\ TypeOK /\ pc = "finish" /\ polygons # << >>
      /\ polygons' = [polygons EXCEPT ![Len(polygons)][role] = closed]
      /\ role' = "inner" /\ pc' = IF role = "outer" THEN "process" ELSE "read"
      /\ UNCHANGED <<readVars, wayVars, stale, closed, open, trackVars>>
    BY DEF IInv, Finish, TypeOK
<1>2. polygons \in Seq(Polygons(ways)) /\ Len(polygons) \in 1..Len(polygons)
      /\ closed \in Seq(DOMAIN ways) /\ role \in {"outer", "inner"}
    BY <1>1 DEF TypeOK
<1> DEFINE p == [polygons[Len(polygons)] EXCEPT ![role] = closed]
<1>3. p \in Polygons(ways)
    <2>1. polygons[Len(polygons)] \in Polygons(ways)
        BY <1>2
    <2>2. CASE role = "outer"
        BY <2>1, <2>2, <1>2 DEF Polygons
    <2>3. CASE role = "inner"
        BY <2>1, <2>3, <1>2 DEF Polygons
    <2>4. QED
        BY <2>2, <2>3, <1>2
<1>4. polygons' = [polygons EXCEPT ![Len(polygons)] = p]
    BY <1>1
<1> HIDE DEF p
<1>5. polygons' \in Seq(Polygons(ways)) /\ Len(polygons') = Len(polygons)
    BY <1>2, <1>3, <1>4
<1>6. polygons' # << >>
    BY <1>2, <1>5
<1>7. TypeOK'
    BY <1>1, <1>5, <1>6 DEF TypeOK, readVars, wayVars, trackVars
<1>8. QED
    BY <1>1, <1>7, Undivided

-----------------------------------------------------------------------------
(* The steps of TrackRec *)

\* What a step of the search finds.
LEMMA Searching ==
    ASSUME IInv, pc = "track"
    PROVE  /\ TypeOK /\ Search /\ Lists /\ MovedByRing
           /\ ways \in Seq(Seq(Nodes)) /\ Members \in Seq(DOMAIN ways)
           /\ OpenWays \in Seq(Seq(Nodes)) /\ DOMAIN OpenWays = DOMAIN open
           /\ DOMAIN open = 1..Len(open) /\ Len(open) \in Nat
           /\ \A i \in DOMAIN open : Way(i) = OpenWays[i]
           /\ nodes \in Seq(Nodes) /\ from \in Nat
           /\ ListsOf(ways, Members, closed, open) /\ AllOpen(OpenWays)
<1>1. TypeOK /\ Search /\ Lists /\ MovedByRing
    BY DEF IInv
<1>2. /\ ways \in Seq(Seq(Nodes)) /\ open \in Seq(DOMAIN ways)
      /\ nodes \in Seq(Nodes) /\ from \in Nat /\ polygons # << >>
    BY <1>1 DEF TypeOK
<1>3. Members \in Seq(DOMAIN ways)
    BY <1>1, <1>2, MembersType
<1>4. /\ OpenWays \in Seq(Seq(Nodes)) /\ DOMAIN OpenWays = DOMAIN open
      /\ \A i \in DOMAIN open : OpenWays[i] = ways[open[i]]
    BY <1>2, WaysOf DEF OpenWays
<1>5. ListsOf(ways, Members, closed, open)
    BY <1>1 DEF Lists, Divided
<1>6. AllOpen(OpenWays)
    BY <1>4, <1>5 DEF AllOpen, ListsOf
<1>7. DOMAIN open = 1..Len(open) /\ Len(open) \in Nat
    BY <1>2
<1>8. \A i \in DOMAIN open : Way(i) = OpenWays[i]
    BY <1>4 DEF Way
<1>9. QED
    BY <1>1, <1>2, <1>3, <1>4, <1>5, <1>6, <1>7, <1>8

\* The loop passes over an entry that is not marked because it does not touch.
LEMMA PassedOver ==
    ASSUME IInv, pc = "track", NEW j \in ProperOf(OpenWays), j \notin used, ~Stops(j)
    PROVE  ~Touching(OpenWays, nodes, j)
<1>1. j \in DOMAIN open /\ Way(j) = OpenWays[j] /\ OpenWays[j] # << >>
    BY Searching, ProperEnds DEF ProperOf
<1>2. nodes # << >> /\ ~Touches(j)
    BY DEF Stops
<1>3. QED
    BY <1>1, <1>2 DEF Touching, Touches

\* An open way is one of the members.
LEMMA OpenIsMember ==
    ASSUME IInv, pc = "track", NEW i \in DOMAIN open
    PROVE  \E m \in DOMAIN Of(ways, Members) : OpenWays[i] = Of(ways, Members)[m]
<1>1. open[i] \in ToSet(Members) /\ OpenWays[i] = ways[open[i]]
    BY Searching DEF ListsOf, Way
<1>2. PICK m \in DOMAIN Members : open[i] = Members[m]
    BY <1>1 DEF ToSet
<1>3. QED
    BY <1>1, <1>2 DEF Of

\* The loop marks an entry and calls itself.
LEMMA MarkStep == ASSUME IInv, NEW i \in DOMAIN open, Mark(i) PROVE IInv'
<1> DEFINE m == [entry |-> i, len |-> Len(nodes)]
<1>1. /\ pc = "track" /\ ~IsClosed(nodes) /\ i \in from..Len(open) /\ Stops(i)
      /\ \A j \in from..(i - 1) : ~Stops(j)
      /\ nodes = << >> \/ Way(i) # << >>
      /\ nodes' = Joined(i) /\ used' = used \cup {i} /\ marks' = Append(marks, m) /\ from' = 1
      /\ UNCHANGED <<readVars, wayVars, polygons, ringVars, pc>>
    BY DEF Mark, ComesTo
<1>2. PICK w \in Seq(Seq(Nodes)) : w = OpenWays
    BY <1>1, Searching
<1>3. PICK N \in Seq(Nodes) : N = nodes
    BY <1>1, Searching
<1>4. PICK M : M = marks
    OBVIOUS
<1>5. PICK f \in Nat : f = from
    BY <1>1, Searching
<1>6. PICK W : W = Of(ways, Members)
    OBVIOUS
<1>7. /\ StackOf(w, N, M) /\ used = UsedAt(M, Len(M)) /\ RunsAlong(N, W) /\ TriedOf(w, N, M, f)
      /\ i \in DOMAIN w /\ Way(i) = w[i]
    BY <1>1, <1>2, <1>3, <1>4, <1>5, <1>6, Searching DEF Search
<1>8. i \notin UsedAt(M, Len(M)) /\ Touching(w, N, i)
    BY <1>1, <1>3, <1>7 DEF Stops, Touches, Touching
<1>9. nodes' = After(w, N, i)
    BY <1>1, <1>3, <1>7 DEF Joined, After
<1>10. marks' = Append(M, [entry |-> i, len |-> Len(N)])
    BY <1>1, <1>3, <1>4
<1>11. \A j \in ProperOf(w) \ UsedAt(M, Len(M)) : f <= j /\ j < i => ~Touching(w, N, j)
    <2> SUFFICES ASSUME NEW j \in ProperOf(w) \ UsedAt(M, Len(M)), f <= j, j < i
                 PROVE  ~Touching(w, N, j)
        OBVIOUS
    <2>1. j \in Nat /\ i \in Nat
        BY <1>7 DEF ProperOf
    <2>2. j \in f..(i - 1)
        BY <2>1
    <2>3. ~Stops(j) /\ j \notin used /\ j \in ProperOf(OpenWays)
        BY <2>2, <1>1, <1>2, <1>5, <1>7
    <2>4. QED
        BY <2>3, <1>1, <1>2, <1>3, PassedOver
<1>12. /\ StackOf(w, nodes', marks') /\ TriedOf(w, nodes', marks', from')
       /\ nodes' \in Seq(Nodes) /\ used' = UsedAt(marks', Len(marks'))
    <2>1. /\ nodes' \in Seq(Nodes) /\ OneDeeper(N, M, i, nodes', marks')
        BY <1>7, <1>9, <1>10, Pushed
    <2>2. StackOf(w, nodes', marks')
        BY <1>7, <1>8, <1>9, <1>10, PushStack
    <2>3. TriedOf(w, nodes', marks', from')
        BY <1>1, <1>7, <1>9, <1>10, <1>11, PushTried
    <2>4. QED
        BY <2>1, <2>2, <2>3, <1>1, <1>7 DEF OneDeeper
<1>13. RunsAlong(nodes', W)
    <2>1. N = << >> \/ w[i] # << >>
        BY <1>1, <1>3, <1>7
    <2>2. \E k \in DOMAIN W : w[i] = W[k]
        BY <1>1, <1>2, <1>6, OpenIsMember
    <2>3. RunsAlong(After(w, N, i), W)
        BY <2>1, <2>2, <1>7, <1>8, AfterRuns
    <2>4. QED
        BY <2>3, <1>9
<1>14. OpenWays' = w /\ Of(ways, Members)' = W /\ Members' = Members
    BY <1>1, <1>2, <1>6 DEF OpenWays, Members, wayVars, ringVars
<1>15. TypeOK'
    <2>1. TypeOK
        BY DEF IInv
    <2>2. QED
        BY <2>1, <1>1, <1>12 DEF TypeOK, readVars, wayVars, ringVars
<1>16. Lists' /\ MovedByRing' /\ pc' = "track"
    BY <1>1, <1>14 DEF IInv, Lists, MovedByRing, Divided, wayVars, ringVars
<1>17. Search'
    BY <1>12, <1>13, <1>14 DEF Search
<1>18. QED
    BY <1>15, <1>16, <1>17 DEF IInv, UndefinedWhy, NothingLeftToJoin

\* front() of a way without nodes.
LEMMA FrontOfNothingStep == ASSUME IInv, NEW i \in DOMAIN open, FrontOfNothing(i) PROVE IInv'
<1>1. /\ pc = "track" /\ pc' = "undefined" /\ Way(i) = << >>
      /\ UNCHANGED <<readVars, wayVars, polygons, ringVars, trackVars>>
    BY DEF FrontOfNothing, ComesTo
<1>2. TypeOK /\ Lists /\ MovedByRing
    BY DEF IInv
<1>3. TypeOK'
    BY <1>1, <1>2 DEF TypeOK, readVars, wayVars, ringVars, trackVars
<1>4. Members' = Members
    BY <1>1 DEF Members, ringVars
<1>5. Lists' /\ MovedByRing'
    BY <1>1, <1>2, <1>4 DEF Lists, MovedByRing, Divided, wayVars, ringVars
<1>6. UndefinedWhy'
    <2>1. ways' = ways /\ open' = open /\ open # << >>
        BY <1>1 DEF wayVars, ringVars
    <2>2. QED
        BY <2>1, <1>1 DEF UndefinedWhy, Way
<1>7. QED
    BY <1>1, <1>3, <1>5, <1>6 DEF IInv, Search, NothingLeftToJoin

\* When the loop is done, none of the ways left touches the nodes.
LEMMA AllPassed ==
    ASSUME IInv, Exhausted
    PROVE  \A j \in ProperOf(OpenWays) \ used : from <= j => ~Touching(OpenWays, nodes, j)
<1> SUFFICES ASSUME NEW j \in ProperOf(OpenWays) \ used, from <= j
             PROVE  ~Touching(OpenWays, nodes, j)
    OBVIOUS
<1>1. pc = "track" /\ \A i \in from..Len(open) : ~Stops(i)
    BY DEF Exhausted
<1>2. j \in 1..Len(open) /\ from \in Nat /\ Len(open) \in Nat
    BY <1>1, Searching DEF ProperOf
<1>3. j \in from..Len(open)
    BY <1>2
<1>4. QED
    BY <1>1, <1>3, PassedOver

\* A call returns false and its caller undoes the mark.
LEMMA GiveBackStep == IInv /\ GiveBack => IInv'
<1> SUFFICES ASSUME IInv, GiveBack PROVE IInv'
    OBVIOUS
<1>1. /\ pc = "track" /\ ~IsClosed(nodes) /\ Exhausted /\ marks # << >>
      /\ nodes' = SubSeq(nodes, 1, Last(marks).len)
      /\ used' = used \ {Last(marks).entry}
      /\ from' = Last(marks).entry + 1 /\ marks' = Front(marks)
      /\ UNCHANGED <<readVars, wayVars, polygons, ringVars, pc>>
    BY DEF GiveBack, Exhausted
<1>2. PICK w \in Seq(Seq(Nodes)) : w = OpenWays
    BY <1>1, Searching
<1>3. PICK N \in Seq(Nodes) : N = nodes
    BY <1>1, Searching
<1>4. PICK M : M = marks
    OBVIOUS
<1>5. PICK f \in Nat : f = from
    BY <1>1, Searching
<1>6. PICK W : W = Of(ways, Members)
    OBVIOUS
<1>7. /\ StackOf(w, N, M) /\ used = UsedAt(M, Len(M)) /\ RunsAlong(N, W) /\ TriedOf(w, N, M, f)
      /\ AllOpen(w) /\ M # << >> /\ IsOpen(N)
    BY <1>1, <1>2, <1>3, <1>4, <1>5, <1>6, Searching DEF Search, IsOpen
<1>8. \A j \in ProperOf(w) \ UsedAt(M, Len(M)) : f <= j => ~Touching(w, N, j)
    BY <1>1, <1>2, <1>3, <1>5, <1>7, AllPassed
<1>9. /\ nodes' = SubSeq(N, 1, Last(M).len) /\ marks' = Front(M) /\ from' = Last(M).entry + 1
      /\ used' = UsedAt(M, Len(M)) \ {Last(M).entry}
    BY <1>1, <1>3, <1>4, <1>7
<1>10. /\ Last(M).entry \in DOMAIN w /\ Last(M).len \in 0..Len(N)
       /\ nodes' \in Seq(Nodes) /\ OneLess(N, M, nodes', marks')
    BY <1>7, <1>9, Popped
<1>11. used' = UsedAt(marks', Len(marks'))
    <2>1. M \in Seq(MarkOf(w)) /\ Len(M) \in Nat \ {0}
        BY <1>7 DEF StackOf
    <2>2. Len(M) - 1 \in 0..(Len(M) - 1)
        BY <2>1
    <2>3. Len(marks') = Len(M) - 1 /\ UsedAt(marks', Len(M) - 1) = UsedAt(M, Len(M) - 1)
        BY <2>2, <1>10 DEF OneLess
    <2>4. /\ UsedAt(M, Len(M)) = UsedAt(M, Len(M) - 1) \cup {Last(M).entry}
          /\ Last(M).entry \notin UsedAt(M, Len(M) - 1)
        BY <1>10 DEF OneLess
    <2>5. QED
        BY <2>3, <2>4, <1>9
<1>12. StackOf(w, nodes', marks') /\ TriedOf(w, nodes', marks', from')
    <2>1. StackOf(w, nodes', marks')
        BY <1>7, <1>9, PopStack
    <2>2. TriedOf(w, nodes', marks', from')
        BY <1>7, <1>8, <1>9, PopTried
    <2>3. QED
        BY <2>1, <2>2
<1>13. RunsAlong(nodes', W)
    BY <1>7, <1>9, <1>10, PrefixRuns
<1>14. OpenWays' = w /\ Of(ways, Members)' = W /\ Members' = Members
    BY <1>1, <1>2, <1>6 DEF OpenWays, Members, wayVars, ringVars
<1>15. TypeOK'
    <2>1. TypeOK
        BY DEF IInv
    <2>2. from' \in Nat
        BY <1>9, <1>10
    <2>3. QED
        BY <2>1, <2>2, <1>1, <1>10 DEF TypeOK, readVars, wayVars, ringVars
<1>16. Lists' /\ MovedByRing' /\ pc' = "track"
    BY <1>1, <1>14 DEF IInv, Lists, MovedByRing, Divided, wayVars, ringVars
<1>17. Search'
    BY <1>11, <1>12, <1>13, <1>14 DEF Search
<1>18. QED
    BY <1>15, <1>16, <1>17 DEF IInv, UndefinedWhy, NothingLeftToJoin

\* RingPossible is about nothing but the open ways.
LEMMA PossibleRing ==
    ASSUME open \in Seq(DOMAIN ways), ways \in Seq(Seq(Nodes)), RingPossible
    PROVE  \E R \in SUBSET ProperOf(OpenWays) : R # {} /\ \A n \in Nodes : Even(OpenWays, R, n)
<1>1. DOMAIN OpenWays = DOMAIN open /\ \A i \in DOMAIN open : Way(i) = OpenWays[i]
    BY WaysOf DEF OpenWays, Way
<1>2. PICK R \in SUBSET {i \in DOMAIN open : Len(Way(i)) > 1} :
        R # {} /\ \A n \in Nodes : Degree(R, n) % 2 = 0
    BY DEF RingPossible
<1>3. R \in SUBSET ProperOf(OpenWays) /\ \A i \in R : Way(i) = OpenWays[i]
    BY <1>1 DEF ProperOf
<1>4. ASSUME NEW n \in Nodes PROVE Degree(R, n) = Deg(OpenWays, R, n)
    <2>1. /\ {i \in R : Head(Way(i)) = n} = {i \in R : Head(OpenWays[i]) = n}
          /\ {i \in R : Last(Way(i)) = n} = {i \in R : Last(OpenWays[i]) = n}
        BY <1>3
    <2>2. QED
        BY <2>1 DEF Degree, Deg
<1>5. QED
    BY <1>2, <1>3, <1>4 DEF Even

\* The outermost call returns false.
LEMMA GiveUpStep == IInv /\ GiveUp => IInv'
<1> SUFFICES ASSUME IInv, GiveUp PROVE IInv'
    OBVIOUS
<1>1. /\ pc = "track" /\ Exhausted /\ marks = << >> /\ pc' = "finish"
      /\ UNCHANGED <<readVars, wayVars, polygons, ringVars, trackVars>>
    BY DEF GiveUp, Exhausted
<1>2. TypeOK /\ Lists /\ MovedByRing
    BY DEF IInv
<1>3. TypeOK'
    BY <1>1, <1>2 DEF TypeOK, readVars, wayVars, ringVars, trackVars
<1>4. Members' = Members /\ ways' = ways /\ open' = open
    BY <1>1 DEF Members, wayVars, ringVars
<1>5. Lists' /\ MovedByRing'
    BY <1>1, <1>2, <1>4 DEF Lists, MovedByRing, Divided, wayVars, ringVars
<1>6. PICK w \in Seq(Seq(Nodes)) : w = OpenWays
    BY <1>1, Searching
<1>7. PICK f \in Nat : f = from
    BY <1>1, Searching
<1>8. nodes = << >> /\ used = {} /\ TriedOf(w, << >>, << >>, f) /\ AllOpen(w)
    <2>1. StackOf(w, nodes, marks) /\ used = UsedAt(marks, Len(marks)) /\ TriedOf(w, nodes, marks, f)
        BY <1>1, <1>6, <1>7, Searching DEF Search
    <2>2. Len(marks) = 0
        BY <1>1
    <2>3. nodes = << >>
        BY <2>1, <2>2 DEF StackOf, NodesAt
    <2>4. used = {}
        BY <2>1, <2>2 DEF UsedAt
    <2>5. QED
        BY <2>1, <2>3, <2>4, <1>1, <1>6, Searching
<1>9. \A j \in ProperOf(w) : j < f
    <2> TAKE j \in ProperOf(w)
    <2>1. Touching(w, nodes, j)
        BY <1>8 DEF Touching
    <2>2. ~(f <= j) /\ j \in Nat
        BY <2>1, <1>1, <1>6, <1>7, <1>8, AllPassed DEF ProperOf
    <2>3. QED
        BY <2>2
<1>10. ~\E R \in SUBSET ProperOf(w) : R # {} /\ \A n \in Nodes : Even(w, R, n)
    BY <1>8, <1>9, NoRing
<1>11. ~RingPossible
    BY <1>2, <1>6, <1>10, PossibleRing DEF TypeOK
<1>12. RingPossible' <=> RingPossible
    BY <1>4 DEF RingPossible, Degree, Way
<1>13. NothingLeftToJoin'
    BY <1>11, <1>12 DEF NothingLeftToJoin
<1>14. QED
    BY <1>1, <1>3, <1>5, <1>13 DEF IInv, Search, UndefinedWhy

\* A way more: whatever named ways still does.
LEMMA Grown ==
    ASSUME NEW S, NEW ws \in Seq(S), NEW x \in S
    PROVE  /\ Seq(DOMAIN ws) \in SUBSET Seq(DOMAIN Append(ws, x))
           /\ Seq(Polygons(ws)) \in SUBSET Seq(Polygons(Append(ws, x)))
           /\ Seq(Seq(Children(ws))) \in SUBSET Seq(Seq(Children(Append(ws, x))))
<1>1. PICK ws2 : ws2 = Append(ws, x)
    OBVIOUS
<1>2. DOMAIN ws \in SUBSET DOMAIN ws2
    <2>1. DOMAIN ws = 1..Len(ws) /\ DOMAIN ws2 = 1..(Len(ws) + 1) /\ Len(ws) \in Nat
        BY <1>1
    <2>2. QED
        BY <2>1
<1>3. Seq(DOMAIN ws) \in SUBSET Seq(DOMAIN ws2)
    BY <1>2, SeqMonotonic
<1>4. Polygons(ws) \in SUBSET Polygons(ws2)
    BY <1>3 DEF Polygons
<1>5. Children(ws) \in SUBSET Children(ws2)
    BY <1>2 DEF Children
<1>6. Seq(Polygons(ws)) \in SUBSET Seq(Polygons(ws2))
    BY <1>4, SeqMonotonic
<1>7. Seq(Children(ws)) \in SUBSET Seq(Children(ws2))
    BY <1>5, SeqMonotonic
<1>8. Seq(Seq(Children(ws))) \in SUBSET Seq(Seq(Children(ws2)))
    BY <1>7, SeqMonotonic
<1>9. QED
    BY <1>1, <1>3, <1>6, <1>8

\* All calls return true.
LEMMA RingFoundStep == IInv /\ RingFound => IInv'
<1> SUFFICES ASSUME IInv, RingFound PROVE IInv'
    OBVIOUS
<1>1. /\ pc = "track" /\ IsClosed(nodes) /\ pc' = "while"
      /\ open' = Pick(open, DOMAIN open \ used) /\ closed' = Append(closed, Len(ways) + 1)
      /\ ways' = Append(ways, nodes)
      /\ UNCHANGED <<readVars, polygons, role, trackVars>>
    BY DEF RingFound, AppendWay
<1>2. TypeOK /\ room \in Nat /\ stale \in BOOLEAN
    BY DEF IInv, TypeOK
<1>3. room' \in Nat /\ stale' \in BOOLEAN
    <2>1. room > 0 => room - 1 \in Nat
        BY <1>2
    <2>2. CASE room > 0 /\ room' = room - 1 /\ UNCHANGED stale
        BY <2>1, <2>2, <1>2
    <2>3. CASE room' \in 0..MaxRoom /\ stale' = TRUE
        BY <2>3, RoomAssumption
    <2>4. QED
        BY <2>2, <2>3 DEF RingFound, AppendWay
<1>4. PICK ws \in Seq(Seq(Nodes)) : ws = ways
    BY <1>1, Searching
<1>5. PICK mem \in Seq(DOMAIN ws) : mem = Members
    BY <1>1, <1>4, Searching
<1>6. PICK N \in Seq(Nodes) : N = nodes
    BY <1>1, Searching
<1>7. PICK U : U = used
    OBVIOUS
<1>8. PICK cl, op : cl = closed /\ op = open
    OBVIOUS
<1>9. cl \in Seq(DOMAIN ws) /\ op \in Seq(DOMAIN ws)
    BY <1>2, <1>4, <1>8 DEF TypeOK
<1>10. ListsOf(ws, mem, cl, op) /\ IsClosed(N) /\ RunsAlong(N, Of(ws, mem))
    BY <1>1, <1>4, <1>5, <1>6, <1>8, Searching DEF Search
<1>11. U \in SUBSET DOMAIN op /\ Len(N) = Total(Of(ws, op), U)
    <2>1. PICK M : M = marks
        OBVIOUS
    <2>2. PICK w : w = OpenWays
        OBVIOUS
    <2>3. StackOf(w, N, M) /\ U = UsedAt(M, Len(M)) /\ DOMAIN w = DOMAIN op /\ w = Of(ws, op)
        BY <2>1, <2>2, <1>1, <1>4, <1>6, <1>7, <1>8, Searching DEF Search, OpenWays
    <2>4. M \in Seq(MarkOf(w)) /\ Len(M) \in 0..Len(M)
        BY <2>3 DEF StackOf
    <2>5. U \in SUBSET DOMAIN w
        BY <2>3, <2>4, UsedSubset
    <2>6. Len(N) = Total(w, U)
        BY <2>3, <2>4 DEF StackOf, NodesAt
    <2>7. QED
        BY <2>3, <2>5, <2>6
<1>12. PICK ws2 : ws2 = Append(ws, N)
    OBVIOUS
<1>13. ways' = ws2 /\ closed' = Append(cl, Len(ws) + 1) /\ open' = Pick(op, DOMAIN op \ U)
    BY <1>1, <1>4, <1>6, <1>7, <1>8, <1>12
<1>14. /\ closed' \in Seq(DOMAIN ws2) /\ open' \in Seq(DOMAIN ws2)
       /\ ListsOf(ws2, mem, closed', open')
       /\ \E k \in DOMAIN closed' : closed'[k] \notin ToSet(mem)
    BY <1>9, <1>10, <1>11, <1>12, <1>13, RingLists
<1>15. Members' = mem
    BY <1>1, <1>5 DEF Members
<1>16. TypeOK'
    <2>1. ws2 \in Seq(Seq(Nodes))
        BY <1>12
    <2>2. /\ Seq(DOMAIN ws) \in SUBSET Seq(DOMAIN ws2)
          /\ Seq(Polygons(ws)) \in SUBSET Seq(Polygons(ws2))
          /\ Seq(Seq(Children(ws))) \in SUBSET Seq(Seq(Children(ws2)))
        BY <1>12, Grown
    <2>3. /\ relations' \in Seq(Seq(Children(ws2))) /\ polygons' \in Seq(Polygons(ws2))
          /\ outer' \in Seq(DOMAIN ws2) /\ inner' \in Seq(DOMAIN ws2)
        BY <2>2, <1>1, <1>2, <1>4 DEF TypeOK, readVars
    <2>4. polygons # << >>
        BY <1>1, <1>2 DEF TypeOK
    <2>5. QED
        BY <2>1, <2>3, <2>4, <1>1, <1>2, <1>3, <1>13, <1>14 DEF TypeOK, trackVars
<1>17. Lists' /\ MovedByRing'
    BY <1>13, <1>14, <1>15 DEF Lists, MovedByRing
<1>18. QED
    BY <1>1, <1>16, <1>17 DEF IInv, UndefinedWhy, Search, NothingLeftToJoin

-----------------------------------------------------------------------------
(* The theorems *)

\* The invariant is about vars only.
LEMMA StutterStep == IInv /\ UNCHANGED vars => IInv'
<1> SUFFICES ASSUME IInv, UNCHANGED vars PROVE IInv'
    OBVIOUS
<1> USE DEF vars, readVars, wayVars, ringVars, trackVars
<1>1. Members' = Members /\ OpenWays' = OpenWays
    BY DEF Members, OpenWays
<1>2. TypeOK'
    BY DEF IInv, TypeOK
<1>3. Lists' /\ MovedByRing'
    BY <1>1 DEF IInv, Lists, MovedByRing, Divided
<1>4. UndefinedWhy'
    BY DEF IInv, UndefinedWhy, Way
<1>5. Search'
    BY <1>1 DEF IInv, Search
<1>6. NothingLeftToJoin'
    BY DEF IInv, NothingLeftToJoin, RingPossible, Degree, Way
<1>7. QED
    BY <1>2, <1>3, <1>4, <1>5, <1>6 DEF IInv

\* Every step of the reader keeps the invariant.
LEMMA NextInv == IInv /\ [Next]_vars => IInv'
<1> SUFFICES ASSUME IInv, [Next]_vars PROVE IInv'
    OBVIOUS
<1>1. CASE LoadData
    BY <1>1, ReadMemberStep, ReadAreaStep, ReadOtherStep DEF LoadData
<1>2. CASE Process \/ While \/ Finish
    BY <1>2, ProcessStep, WhileStep, FinishStep
<1>3. CASE TrackRec
    <2>1. ASSUME NEW i \in DOMAIN open, Mark(i) \/ FrontOfNothing(i) PROVE IInv'
        BY <2>1, MarkStep, FrontOfNothingStep
    <2>2. QED
        BY <2>1, <1>3, GiveBackStep, GiveUpStep, RingFoundStep DEF TrackRec
<1>4. CASE UNCHANGED vars
    BY <1>4, StutterStep
<1>5. QED
    BY <1>1, <1>2, <1>3, <1>4 DEF Next, BuildRings

\* For all maps, all growth of the storage of m_Ways: the lists, the search and the
\* pointer are as IInv says whenever LoadData and BuildRings take a step.
THEOREM RingInvariance == Spec => []IInv
<1>1. Init => IInv
    BY InitInv
<1>2. IInv /\ [Next]_vars => IInv'
    BY NextInv
<1>3. QED
    BY <1>1, <1>2, PTL DEF Spec

\* Every number of a way that a relation, a polygon or a list of process() holds is
\* the number of a way of m_Ways, also after m_Ways has grown.
THEOREM RingTypes == Spec => []TypeOK
<1>1. IInv => TypeOK
    BY DEF IInv
<1>2. QED
    BY <1>1, RingInvariance, PTL

\* The search of TrackRec, with its backtracking, overlooks no ring: when process()
\* breaks, no non-empty set of the ways left over meets evenly at every node.
THEOREM NothingOverlooked == Spec => []NothingLeftToJoin
<1>1. IInv => NothingLeftToJoin
    BY DEF IInv
<1>2. QED
    BY <1>1, RingInvariance, PTL

\* The stale pointer of process() is used only where the same list of members has
\* made a ring before.
THEOREM OneRing == Spec => []OneRingIsSafe
<1>1. IInv => OneRingIsSafe
    <2> SUFFICES ASSUME IInv, pc = "undefined", \A i \in DOMAIN open : Way(i) # << >>
                 PROVE  open # << >> /\ \E r \in ToSet(closed) : r \notin ToSet(Members)
        BY DEF OneRingIsSafe
    <2>1. open # << >> /\ stale
        BY DEF IInv, UndefinedWhy
    <2>2. PICK k \in DOMAIN closed : closed[k] \notin ToSet(Members)
        BY <2>1 DEF IInv, MovedByRing, Divided
    <2>3. closed[k] \in ToSet(closed)
        BY DEF ToSet
    <2>4. QED
        BY <2>1, <2>2, <2>3
<1>2. QED
    BY <1>1, RingInvariance, PTL

\* What process() leaves in a polygon are closed ways, made of the members' segments,
\* and no node of a member is used twice or lost on the way.
THEOREM RingsAreOfMembers == Spec => RingsOfMembers
<1> DEFINE Made == pc = "finish" =>
         /\ \A r \in ToSet(closed) :
              /\ IsClosed(ways[r])
              /\ r \in ToSet(Members) \/ \A s \in Segments(ways[r]) :
                   Cardinality(s) = 1 \/ \E w \in ToSet(Members) : s \in Segments(ways[w])
         /\ NodesIn(closed) + NodesIn(open) = NodesIn(Members)
<1>1. IInv => Made
    <2> SUFFICES ASSUME IInv, pc = "finish" PROVE Made
        OBVIOUS
    <2>1. ListsOf(ways, Members, closed, open)
        BY DEF IInv, Lists, Divided
    <2>2. ASSUME NEW r \in ToSet(closed)
          PROVE  /\ IsClosed(ways[r])
                 /\ r \in ToSet(Members) \/ \A s \in Segments(ways[r]) :
                      Cardinality(s) = 1 \/ \E w \in ToSet(Members) : s \in Segments(ways[w])
        <3>1. PICK k \in DOMAIN closed : r = closed[k]
            BY DEF ToSet
        <3>2. IsClosed(ways[r]) /\ (r \in ToSet(Members) \/ RunsAlong(ways[r], Of(ways, Members)))
            BY <2>1, <3>1 DEF ListsOf
        <3>3. ASSUME NEW m \in DOMAIN Of(ways, Members)
              PROVE  \E w \in ToSet(Members) : Of(ways, Members)[m] = ways[w]
            BY DEF Of, ToSet
        <3>4. QED
            BY <3>2, <3>3 DEF RunsAlong
    <2>3. ASSUME NEW list PROVE NodesIn(list) = Total(Of(ways, list), DOMAIN list)
        <3>1. Cells(Of(ways, list), DOMAIN list) = Places(list, DOMAIN list)
            BY DEF Cells, Places, Of
        <3>2. QED
            BY <3>1 DEF NodesIn, Total
    <2>4. NodesIn(closed) + NodesIn(open) = NodesIn(Members)
        BY <2>1, <2>3 DEF ListsOf
    <2>5. QED
        BY <2>2, <2>4
<1> HIDE DEF Made
<1>2. [][Made]_vars => RingsOfMembers
    BY DEF RingsOfMembers, Made
<1>3. QED
    BY <1>1, <1>2, RingInvariance, PTL
=============================================================================
