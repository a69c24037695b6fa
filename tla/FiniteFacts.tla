----------------------------- MODULE FiniteFacts -----------------------------
(***************************************************************************)
(* Sums and greatest elements of finite sets, for the proofs of the        *)
(* modules that count bytes and number what they accept.  Total(w, S) is   *)
(* the sum of w[x] over S, in the form the folds of the community modules  *)
(* expand to.                                                              *)
(*                                                                         *)
(* Inductions over finite sets are by minimal counterexample: the subsets  *)
(* of S that violate a claim would include a smallest one.                 *)
(***************************************************************************)
EXTENDS Integers, FiniteSets, FiniteSetsExt, Functions, FiniteSetTheorems,
        WellFoundedInduction, TLAPS

Chosen(s) == CHOOSE x \in s : TRUE

Table(w, S) ==
    CHOOSE t : t = [s \in SUBSET S |->
                        IF s = {} THEN 0 ELSE w[Chosen(s)] + t[s \ {Chosen(s)}]]

Total(w, S) == Table(w, S)[S]

\* t has the sums of all subsets of S.
IsTable(t, w, S) ==
    t = [s \in SUBSET S |-> IF s = {} THEN 0 ELSE w[Chosen(s)] + t[s \ {Chosen(s)}]]

-----------------------------------------------------------------------------
(* Smallest sets, least and greatest numbers                               *)

\* A family of subsets of a finite set has a smallest member.
LEMMA SmallestSet ==
    ASSUME NEW S, IsFiniteSet(S), NEW F, \A T \in F : T \subseteq S, F # {}
    PROVE  \E T \in F : \A U \in F : U \subseteq T => U = T
<1>1. IsWellFoundedOn(StrictSubsetOrdering(S), SUBSET S)
  BY FS_StrictSubsetOrderingWellFounded, FS_FiniteSubsetsOfFinite
<1>2. PICK T \in F : \A U \in F : <<U, T>> \notin StrictSubsetOrdering(S)
  BY <1>1, WFMin
<1>3. \A U \in F : U \subseteq T => U = T
  <2> SUFFICES ASSUME NEW U \in F, U \subseteq T, U # T PROVE FALSE
    OBVIOUS
  <2>1. <<U, T>> \in (SUBSET S) \X (SUBSET S)
    OBVIOUS
  <2>2. <<U, T>> \in StrictSubsetOrdering(S)
    BY <2>1 DEF StrictSubsetOrdering
  <2> QED BY <1>2, <2>2
<1> QED BY <1>3

\* A set of naturals that is not empty has a least element.
LEMMA LeastNatural ==
    ASSUME NEW N, \A n \in N : n \in Nat, N # {}
    PROVE  \E n \in N : \A m \in N : n <= m
<1>1. PICK n \in N : \A m \in N : <<m, n>> \notin OpToRel(<, Nat)
  BY NatLessThanWellFounded, WFMin, Zenon
<1>2. \A m \in N : n <= m
  <2> SUFFICES ASSUME NEW m \in N, m < n PROVE FALSE
    BY N \subseteq Nat
  <2>1. <<m, n>> \in OpToRel(<, Nat)
    BY N \subseteq Nat DEF OpToRel
  <2> QED BY <1>1, <2>1
<1> QED BY <1>2

\* A finite set of naturals has a greatest element, which is what Max chooses.
LEMMA GreatestNatural ==
    ASSUME NEW N, \A n \in N : n \in Nat, IsFiniteSet(N), N # {}
    PROVE  Max(N) \in N /\ \A n \in N : n <= Max(N)
<1> DEFINE Above(n) == {m \in N : n <= m}
           F == {Above(n) : n \in N}
<1>0. F # {} /\ \A T \in F : T \subseteq N
  OBVIOUS
<1>1. PICK T \in F : \A U \in F : U \subseteq T => U = T
  <2> HIDE DEF F
  <2> QED BY <1>0, SmallestSet
<1>2. PICK x \in N : T = Above(x)
  OBVIOUS
<1>3. ASSUME NEW n \in N PROVE n <= x
  <2>1. SUFFICES ASSUME x < n PROVE FALSE
    BY N \subseteq Nat
  <2>2. n \in Nat /\ x \in Nat /\ \A m \in N : m \in Nat
    OBVIOUS
  <2>3. Above(n) \subseteq Above(x) /\ x \in Above(x) /\ x \notin Above(n)
    <3>1. \A m \in N : n <= m => x <= m
      BY <2>1, <2>2
    <3>2. x <= x /\ ~ (n <= x)
      BY <2>1, <2>2
    <3> QED BY <3>1, <3>2
  <2>4. Above(n) \in F
    OBVIOUS
  <2> HIDE DEF Above, F
  <2> QED BY <1>1, <1>2, <2>3, <2>4
<1> QED BY <1>3 DEF Max

\* Adding an element adds one at most.
LEMMA OneMore ==
    ASSUME NEW S, IsFiniteSet(S), NEW x
    PROVE  /\ IsFiniteSet(S \cup {x}) /\ Cardinality(S \cup {x}) \in Nat
           /\ Cardinality(S \cup {x}) <= Cardinality(S) + 1
<1>1. /\ IsFiniteSet(S \cup {x}) /\ Cardinality(S) \in Nat
      /\ Cardinality(S \cup {x}) = IF x \in S THEN Cardinality(S) ELSE Cardinality(S) + 1
  BY FS_AddElement, FS_CardinalityType
<1> QED BY <1>1

\* The values of a function on a finite set.
LEMMA FiniteImage ==
    ASSUME NEW S, IsFiniteSet(S), NEW f
    PROVE  IsFiniteSet({f[x] : x \in S})
<1> DEFINE T == {f[x] : x \in S}
<1>1. [x \in S |-> f[x]] \in Surjection(S, T)
  BY DEF Surjection
<1> QED BY <1>1, FS_Surjection

-----------------------------------------------------------------------------
(* Sums                                                                    *)

LEMMA ChosenIsMember == ASSUME NEW s, s # {} PROVE Chosen(s) \in s
BY DEF Chosen

\* The table of a finite set exists.  It is filled by size.
LEMMA TableExists ==
    ASSUME NEW S, IsFiniteSet(S), NEW w, \A x \in S : w[x] \in Nat
    PROVE  IsTable(Table(w, S), w, S) /\ Table(w, S) \in [SUBSET S -> Nat]
<1> DEFINE Entry(t, s) == IF s = {} THEN 0 ELSE w[Chosen(s)] + t[s \ {Chosen(s)}]
           Filled(t, n) == \A s \in SUBSET S : Cardinality(s) <= n => t[s] = Entry(t, s)
           Missing == {n \in Nat : ~ \E t \in [SUBSET S -> Nat] : Filled(t, n)}
<1>1. \A s \in SUBSET S : IsFiniteSet(s) /\ Cardinality(s) \in Nat /\ Cardinality(s) <= Cardinality(S)
  BY FS_Subset, FS_CardinalityType
<1>2. \A s \in SUBSET S : s # {} =>
          /\ Chosen(s) \in s /\ s \ {Chosen(s)} \in SUBSET S
          /\ Cardinality(s \ {Chosen(s)}) = Cardinality(s) - 1
          /\ Cardinality(s) # 0
  BY <1>1, ChosenIsMember, FS_RemoveElement, FS_EmptySet
<1>3. Missing = {}
  <2> SUFFICES ASSUME Missing # {} PROVE FALSE
    OBVIOUS
  <2>1. PICK n \in Missing : \A m \in Missing : n <= m
    BY LeastNatural
  <2>2. n # 0
    <3>1. [s \in SUBSET S |-> 0] \in [SUBSET S -> Nat]
      OBVIOUS
    <3>2. \A s \in SUBSET S : Cardinality(s) <= 0 => s = {}
      BY <1>1, FS_EmptySet
    <3>3. Filled([s \in SUBSET S |-> 0], 0)
      BY <3>2
    <3>4. 0 \notin Missing
      BY <3>1, <3>3
    <3> QED BY <3>4
  <2>3. n - 1 \in Nat /\ n - 1 \notin Missing
    <3>1. n \in Nat
      OBVIOUS
    <3>2. n - 1 \in Nat /\ ~ (n <= n - 1)
      BY <2>2, <3>1
    <3> HIDE DEF Missing
    <3> QED BY <2>1, <3>2
  <2>4. PICK t \in [SUBSET S -> Nat] : Filled(t, n - 1)
    BY <2>3
  <2> DEFINE u == [s \in SUBSET S |-> Entry(t, s)]
  <2>5. u \in [SUBSET S -> Nat]
    <3>1. ASSUME NEW s \in SUBSET S PROVE Entry(t, s) \in Nat
      <4>1. CASE s = {}
        BY <4>1
      <4>2. CASE s # {}
        BY <4>2, <1>2, w[Chosen(s)] \in Nat, t[s \ {Chosen(s)}] \in Nat
      <4> QED BY <4>1, <4>2
    <3> QED BY <3>1
  <2>6. Filled(u, n)
    <3> SUFFICES ASSUME NEW s \in SUBSET S, Cardinality(s) <= n PROVE u[s] = Entry(u, s)
      OBVIOUS
    <3>1. CASE s = {}
      BY <3>1
    <3>2. CASE s # {}
      <4> DEFINE r == s \ {Chosen(s)}
      <4>1. r \in SUBSET S /\ Cardinality(r) <= n - 1
        BY <3>2, <1>1, <1>2
      <4>2. t[r] = Entry(t, r) /\ u[r] = Entry(t, r)
        BY <2>4, <4>1
      <4> QED BY <3>2, <4>2
    <3> QED BY <3>1, <3>2
  <2>7. n \notin Missing
    BY <2>5, <2>6
  <2> QED BY <2>1, <2>7
<1>4. Cardinality(S) \in Nat
  BY <1>1
<1>5. PICK t \in [SUBSET S -> Nat] : Filled(t, Cardinality(S))
  BY <1>3, <1>4
<1>6. IsTable(t, w, S)
  BY <1>1, <1>5 DEF IsTable
<1>7. IsTable(Table(w, S), w, S)
  BY <1>6 DEF IsTable, Table
<1>8. Table(w, S) = t
  <2> DEFINE T == Table(w, S)
             F == {s \in SUBSET S : T[s] # t[s]}
  <2>1. SUFFICES F = {}
    <3>1. \A s \in SUBSET S : T[s] = t[s]
      BY <2>1
    <3>2. DOMAIN T = SUBSET S /\ T = [s \in DOMAIN T |-> T[s]]
      BY <1>7 DEF IsTable
    <3> QED BY <3>1, <3>2
  <2> SUFFICES ASSUME F # {} PROVE FALSE
    OBVIOUS
  <2>2. PICK s \in F : \A r \in F : r \subseteq s => r = s
    <3>1. \A s \in F : s \subseteq S
      OBVIOUS
    <3> HIDE DEF F
    <3> QED BY <3>1, SmallestSet
  <2>3. T[s] = Entry(T, s) /\ t[s] = Entry(t, s)
    BY <1>6, <1>7 DEF IsTable
  <2>4. s # {}
    BY <2>2, <2>3
  <2>5. s \ {Chosen(s)} \notin F
    BY <2>2, <2>4, ChosenIsMember
  <2> QED BY <2>2, <2>3, <2>4, <2>5
<1> QED BY <1>7, <1>8

\* Two tables agree on the sets they both have.
LEMMA TablesAgree ==
    ASSUME NEW S, IsFiniteSet(S), NEW T, NEW t, NEW u, NEW v, NEW w,
           IsTable(t, v, S), IsTable(u, w, T), S \subseteq T,
           \A x \in S : v[x] = w[x]
    PROVE  \A s \in SUBSET S : t[s] = u[s]
<1> DEFINE F == {s \in SUBSET S : t[s] # u[s]}
<1>1. \A s \in F : s \subseteq S
  OBVIOUS
<1> SUFFICES ASSUME F # {} PROVE FALSE
  OBVIOUS
<1>2. PICK s \in F : \A r \in F : r \subseteq s => r = s
  <2> HIDE DEF F
  <2> QED BY <1>1, SmallestSet
<1>3. /\ t[s] = IF s = {} THEN 0 ELSE v[Chosen(s)] + t[s \ {Chosen(s)}]
      /\ u[s] = IF s = {} THEN 0 ELSE w[Chosen(s)] + u[s \ {Chosen(s)}]
  BY <1>1 DEF IsTable
<1>4. s # {}
  BY <1>3
<1>5. Chosen(s) \in s /\ s \ {Chosen(s)} \notin F
  BY <1>2, <1>4, ChosenIsMember
<1> QED BY <1>3, <1>4, <1>5

\* What Total computes, one element after the other.
LEMMA TotalChosen ==
    ASSUME NEW S, IsFiniteSet(S), NEW w, \A x \in S : w[x] \in Nat
    PROVE  /\ Total(w, S) \in Nat
           /\ S = {} => Total(w, S) = 0
           /\ S # {} => Total(w, S) = w[Chosen(S)] + Total(w, S \ {Chosen(S)})
<1>1. IsTable(Table(w, S), w, S) /\ Table(w, S) \in [SUBSET S -> Nat]
  BY TableExists
<1>2. Table(w, S)[S] = IF S = {} THEN 0 ELSE w[Chosen(S)] + Table(w, S)[S \ {Chosen(S)}]
  BY <1>1 DEF IsTable
<1>3. ASSUME S # {}
      PROVE  Table(w, S)[S \ {Chosen(S)}] = Total(w, S \ {Chosen(S)})
  <2> DEFINE R == S \ {Chosen(S)}
  <2>1. R \subseteq S /\ IsFiniteSet(R) /\ \A x \in R : w[x] \in Nat
    BY FS_Subset
  <2>2. IsTable(Table(w, R), w, R)
    BY <2>1, TableExists
  <2> HIDE DEF R
  <2>3. Table(w, R)[R] = Table(w, S)[R]
    BY <1>1, <2>1, <2>2, TablesAgree
  <2> QED BY <2>3 DEF Total, R
<1> QED BY <1>1, <1>2, <1>3 DEF Total

\* The sum only depends on the values over the set.
LEMMA TotalAgrees ==
    ASSUME NEW S, IsFiniteSet(S), NEW v, NEW w,
           \A x \in S : v[x] = w[x] /\ w[x] \in Nat
    PROVE  Total(v, S) = Total(w, S)
<1>1. IsTable(Table(v, S), v, S) /\ IsTable(Table(w, S), w, S)
  BY TableExists
<1>2. Table(v, S)[S] = Table(w, S)[S]
  BY <1>1, TablesAgree
<1> QED BY <1>2 DEF Total

\* Any element may be counted first.
LEMMA TotalRemove ==
    ASSUME NEW S, IsFiniteSet(S), NEW w, \A x \in S : w[x] \in Nat, NEW e \in S
    PROVE  Total(w, S) = w[e] + Total(w, S \ {e})
<1> DEFINE Splits(s) == \A x \in s : Total(w, s) = w[x] + Total(w, s \ {x})
           F == {s \in SUBSET S : ~ Splits(s)}
<1>1. \A s \in F : s \subseteq S
  OBVIOUS
<1>2. \A s \in SUBSET S : IsFiniteSet(s) /\ \A x \in s : w[x] \in Nat
  BY FS_Subset
<1>3. \A s \in SUBSET S :
          /\ Total(w, s) \in Nat
          /\ s # {} => Chosen(s) \in s /\ Total(w, s) = w[Chosen(s)] + Total(w, s \ {Chosen(s)})
  BY <1>2, TotalChosen, ChosenIsMember
<1>4. F = {}
  <2> SUFFICES ASSUME F # {} PROVE FALSE
    OBVIOUS
  <2>1. PICK s \in F : \A r \in F : r \subseteq s => r = s
    <3> HIDE DEF F
    <3> QED BY <1>1, SmallestSet
  <2>2. PICK x \in s : Total(w, s) # w[x] + Total(w, s \ {x})
    OBVIOUS
  <2> DEFINE c == Chosen(s)
  <2>3. s \subseteq S /\ s # {} /\ c \in s /\ Total(w, s) = w[c] + Total(w, s \ {c})
    BY <1>1, <1>3, <2>2
  <2>4. x # c
    BY <2>2, <2>3
  <2>5. s \ {c} \notin F /\ s \ {x} \notin F
    BY <2>1, <2>2, <2>3
  <2>6. /\ Total(w, s \ {c}) = w[x] + Total(w, (s \ {c}) \ {x})
        /\ Total(w, s \ {x}) = w[c] + Total(w, (s \ {x}) \ {c})
    BY <2>2, <2>3, <2>4, <2>5
  <2>7. (s \ {c}) \ {x} = (s \ {x}) \ {c}
    OBVIOUS
  <2>8. w[x] \in Nat /\ w[c] \in Nat /\ Total(w, (s \ {x}) \ {c}) \in Nat
    BY <1>2, <1>3, <2>3
  <2> DEFINE rest == Total(w, (s \ {x}) \ {c})
  <2>9. /\ Total(w, s) = w[c] + (w[x] + rest)
        /\ Total(w, s \ {x}) = w[c] + rest
    BY <2>3, <2>6, <2>7
  <2>10. w[c] + (w[x] + rest) = w[x] + (w[c] + rest)
    <3> HIDE DEF c, rest
    <3> QED BY <2>8 DEF rest
  <2> QED BY <2>2, <2>9, <2>10
<1> QED BY <1>4

\* A sum over more elements, of greater values, is greater.
LEMMA TotalMonotone ==
    ASSUME NEW S, IsFiniteSet(S), NEW T \in SUBSET S, NEW v, NEW w,
           \A x \in S : w[x] \in Nat,
           \A x \in T : v[x] \in Nat /\ v[x] <= w[x]
    PROVE  Total(v, T) <= Total(w, S)
<1> DEFINE F == {s \in SUBSET S : ~ (Total(v, T \cap s) <= Total(w, s))}
<1>1. \A s \in F : s \subseteq S
  OBVIOUS
<1>2. \A s \in SUBSET S :
          /\ IsFiniteSet(s) /\ IsFiniteSet(T \cap s)
          /\ Total(w, s) \in Nat /\ Total(v, T \cap s) \in Nat
  <2> SUFFICES ASSUME NEW s \in SUBSET S
               PROVE  /\ IsFiniteSet(s) /\ IsFiniteSet(T \cap s)
                      /\ Total(w, s) \in Nat /\ Total(v, T \cap s) \in Nat
    OBVIOUS
  <2>1. IsFiniteSet(s) /\ IsFiniteSet(T \cap s)
    BY FS_Subset, T \cap s \in SUBSET S
  <2> QED BY <2>1, TotalChosen
<1>3. F = {}
  <2> SUFFICES ASSUME F # {} PROVE FALSE
    OBVIOUS
  <2>1. PICK s \in F : \A r \in F : r \subseteq s => r = s
    <3> HIDE DEF F
    <3> QED BY <1>1, SmallestSet
  <2>2. s # {}
    <3> SUFFICES ASSUME s = {} PROVE FALSE
      OBVIOUS
    <3>1. Total(v, T \cap s) = 0 /\ Total(w, s) = 0
      BY <1>2, TotalChosen, T \cap s = {}
    <3> QED BY <3>1
  <2>3. PICK e \in s : TRUE
    BY <2>2
  <2>4. s \ {e} \notin F /\ s \ {e} \in SUBSET S
    BY <2>1
  <2>5. Total(v, T \cap (s \ {e})) <= Total(w, s \ {e})
    BY <2>4
  <2>6. Total(w, s) = w[e] + Total(w, s \ {e}) /\ w[e] \in Nat
    <3>1. s \in SUBSET S /\ IsFiniteSet(s) /\ \A x \in s : w[x] \in Nat
      BY <1>1, <1>2
    <3> QED BY <3>1, TotalRemove
  <2>7. CASE e \in T
    <3>1. /\ T \cap (s \ {e}) = (T \cap s) \ {e}
          /\ e \in T \cap s /\ IsFiniteSet(T \cap s)
          /\ \A x \in T \cap s : v[x] \in Nat
      BY <1>1, <1>2, <2>7
    <3>2. Total(v, T \cap s) = v[e] + Total(v, (T \cap s) \ {e})
      BY <3>1, TotalRemove
    <3>3. v[e] \in Nat /\ v[e] <= w[e]
      BY <2>7
    <3>4. /\ Total(v, T \cap (s \ {e})) \in Nat /\ Total(w, s \ {e}) \in Nat
          /\ ~ (Total(v, T \cap s) <= Total(w, s))
      BY <1>2, <2>4
    <3> QED BY <2>5, <2>6, <3>1, <3>2, <3>3, <3>4
  <2>8. CASE e \notin T
    <3>1. T \cap (s \ {e}) = T \cap s
      BY <2>8
    <3>2. /\ Total(v, T \cap s) \in Nat /\ Total(w, s \ {e}) \in Nat
          /\ ~ (Total(v, T \cap s) <= Total(w, s))
      BY <1>2, <2>4
    <3>3. Total(v, T \cap s) <= Total(w, s \ {e})
      BY <2>5, <3>1
    <3> HIDE DEF F
    <3> QED BY <2>6, <3>2, <3>3
  <2> QED BY <2>7, <2>8
<1>4. Total(v, T \cap S) <= Total(w, S)
  BY <1>3
<1> QED BY <1>4, T \cap S = T

\* What one element adds to a sum, when the others do not grow and those that
\* are new count for nothing, bounds what the sum grows by.
LEMMA TotalGrowth ==
    ASSUME NEW S, IsFiniteSet(S), NEW T \in SUBSET S, NEW e \in S, NEW v, NEW w, NEW growth \in Nat,
           \A x \in S : v[x] \in Nat,
           \A x \in T : w[x] \in Nat,
           \A x \in S \ {e} : v[x] <= IF x \in T THEN w[x] ELSE 0,
           v[e] <= growth + IF e \in T THEN w[e] ELSE 0
    PROVE  Total(v, S) <= Total(w, T) + growth
<1> DEFINE R == S \ {e}
           Q == T \ {e}
<1>1. IsFiniteSet(R) /\ IsFiniteSet(Q) /\ IsFiniteSet(T)
  BY FS_Subset
<1>2. Total(v, S) = v[e] + Total(v, R)
  BY TotalRemove
<1>3. Total(v, R) <= Total(w, Q)
  <2> DEFINE F == {s \in SUBSET R : ~ (Total(v, s) <= Total(w, s \cap Q))}
  <2>1. \A s \in F : s \subseteq R
    OBVIOUS
  <2>2. \A s \in SUBSET R :
            /\ IsFiniteSet(s) /\ IsFiniteSet(s \cap Q)
            /\ \A x \in s : v[x] \in Nat
            /\ \A x \in s \cap Q : w[x] \in Nat
            /\ Total(v, s) \in Nat /\ Total(w, s \cap Q) \in Nat
    <3> SUFFICES ASSUME NEW s \in SUBSET R
                 PROVE  /\ IsFiniteSet(s) /\ IsFiniteSet(s \cap Q)
                        /\ \A x \in s : v[x] \in Nat
                        /\ \A x \in s \cap Q : w[x] \in Nat
                        /\ Total(v, s) \in Nat /\ Total(w, s \cap Q) \in Nat
      OBVIOUS
    <3>1. IsFiniteSet(s) /\ IsFiniteSet(s \cap Q)
      BY <1>1, FS_Subset, s \cap Q \in SUBSET R
    <3> QED BY <3>1, TotalChosen
  <2>3. F = {}
    <3> SUFFICES ASSUME F # {} PROVE FALSE
      OBVIOUS
    <3>1. PICK s \in F : \A r \in F : r \subseteq s => r = s
      <4> HIDE DEF F
      <4> QED BY <1>1, <2>1, SmallestSet
    <3>2. s # {}
      <4> SUFFICES ASSUME s = {} PROVE FALSE
        OBVIOUS
      <4>1. Total(v, s) = 0 /\ Total(w, s \cap Q) = 0
        BY <2>2, TotalChosen, s \cap Q = {}
      <4> QED BY <4>1
    <3>3. PICK x \in s : TRUE
      BY <3>2
    <3>4. s \ {x} \notin F /\ s \ {x} \in SUBSET R /\ s \in SUBSET R
      BY <3>1
    <3>5. /\ Total(v, s \ {x}) <= Total(w, (s \ {x}) \cap Q)
          /\ ~ (Total(v, s) <= Total(w, s \cap Q))
      BY <3>4
    <3>6. Total(v, s) = v[x] + Total(v, s \ {x})
      BY <2>2, <3>4, TotalRemove
    <3>7. /\ Total(v, s \ {x}) \in Nat /\ Total(w, (s \ {x}) \cap Q) \in Nat /\ v[x] \in Nat
          /\ v[x] <= IF x \in Q THEN w[x] ELSE 0
      BY <2>2, <3>4
    <3>8. CASE x \in Q
      <4>1. x \in s \cap Q /\ (s \cap Q) \ {x} = (s \ {x}) \cap Q
        BY <3>8
      <4>2. Total(w, s \cap Q) = w[x] + Total(w, (s \cap Q) \ {x}) /\ w[x] \in Nat
        BY <2>2, <3>4, <4>1, TotalRemove
      <4> HIDE DEF F, Q, R
      <4> QED BY <3>5, <3>6, <3>7, <3>8, <4>1, <4>2
    <3>9. CASE x \notin Q
      <4>1. (s \ {x}) \cap Q = s \cap Q
        BY <3>9
      <4> HIDE DEF F, Q, R
      <4> QED BY <3>5, <3>6, <3>7, <3>9, <4>1
    <3> QED BY <3>8, <3>9
  <2>4. Total(v, R) <= Total(w, R \cap Q)
    BY <2>3
  <2> QED BY <2>4, R \cap Q = Q
<1>4. Total(v, R) \in Nat /\ Total(w, Q) \in Nat /\ Total(w, T) \in Nat
  BY <1>1, TotalChosen
<1>5. CASE e \in T
  <2>1. Total(w, T) = w[e] + Total(w, Q)
    BY <1>1, <1>5, TotalRemove
  <2> HIDE DEF R, Q
  <2> QED BY <1>2, <1>3, <1>4, <1>5, <2>1
<1>6. CASE e \notin T
  <2>1. Q = T
    BY <1>6
  <2> HIDE DEF R, Q
  <2> QED BY <1>2, <1>3, <1>4, <1>6, <2>1
<1> QED BY <1>5, <1>6

\* Nothing but zeros.
LEMMA TotalZero ==
    ASSUME NEW S, IsFiniteSet(S), NEW w, \A x \in S : w[x] = 0
    PROVE  Total(w, S) = 0
<1> DEFINE F == {s \in SUBSET S : Total(w, s) # 0}
<1>1. \A s \in F : s \subseteq S
  OBVIOUS
<1> SUFFICES ASSUME F # {} PROVE FALSE
  OBVIOUS
<1>2. PICK s \in F : \A r \in F : r \subseteq s => r = s
  <2> HIDE DEF F
  <2> QED BY <1>1, SmallestSet
<1>3. IsFiniteSet(s) /\ \A x \in s : w[x] \in Nat
  BY FS_Subset
<1>4. s # {} /\ Total(w, s) = w[Chosen(s)] + Total(w, s \ {Chosen(s)})
  BY <1>3, TotalChosen
<1>5. Chosen(s) \in s
  BY <1>4, ChosenIsMember
<1>6. s \ {Chosen(s)} \notin F
  BY <1>2, <1>5
<1> QED BY <1>4, <1>5, <1>6

\* The sums of the community modules are these.
LEMMA SumIsTotal ==
    ASSUME NEW S, IsFiniteSet(S), NEW w, \A x \in S : w[x] \in Nat
    PROVE  SumFunctionOnSet(w, S) = Total(w, S)
<1> DEFINE Fill(t) == [s \in SUBSET S |-> IF s = {} THEN 0
                         ELSE w[CHOOSE x \in s : TRUE] + t[s \ {CHOOSE x \in s : TRUE}]]
           c == CHOOSE t : t = Fill(t)
<1>1. SumFunctionOnSet(w, S) = c[S]
  BY DEF SumFunctionOnSet, FoldFunctionOnSet, MapThenFoldSet
<1>2. c = Table(w, S)
  BY DEF Table, Chosen
<1> QED BY <1>1, <1>2 DEF Total

\* When one element changes, the sum changes with it.
LEMMA TotalUpdate ==
    ASSUME NEW S, IsFiniteSet(S), NEW e \in S, NEW v, NEW w,
           \A x \in S : v[x] \in Nat /\ w[x] \in Nat, \A x \in S \ {e} : v[x] = w[x]
    PROVE  Total(v, S) + w[e] = Total(w, S) + v[e]
<1>1. Total(v, S) = v[e] + Total(v, S \ {e}) /\ Total(w, S) = w[e] + Total(w, S \ {e})
  BY TotalRemove
<1>2. IsFiniteSet(S \ {e}) /\ \A x \in S \ {e} : v[x] = w[x] /\ v[x] \in Nat /\ w[x] \in Nat
  BY FS_RemoveElement
<1>3. Total(v, S \ {e}) = Total(w, S \ {e}) /\ Total(w, S \ {e}) \in Nat
  BY <1>2, TotalAgrees, TotalChosen
<1> QED BY <1>1, <1>3

\* What is taken out of a sum, and what remains.
LEMMA TotalSplit ==
    ASSUME NEW S, IsFiniteSet(S), NEW T \in SUBSET S, NEW v, NEW w,
           \A x \in S : w[x] \in Nat,
           \A x \in S : v[x] = IF x \in T THEN 0 ELSE w[x]
    PROVE  Total(w, S) = Total(w, T) + Total(v, S)
<1> DEFINE F == {s \in SUBSET S : Total(w, s) # Total(w, T \cap s) + Total(v, s)}
<1>1. \A s \in F : s \subseteq S
  OBVIOUS
<1>2. \A s \in SUBSET S :
          /\ IsFiniteSet(s) /\ IsFiniteSet(T \cap s)
          /\ \A x \in s : w[x] \in Nat /\ v[x] \in Nat
          /\ Total(w, s) \in Nat /\ Total(w, T \cap s) \in Nat /\ Total(v, s) \in Nat
  <2> SUFFICES ASSUME NEW s \in SUBSET S
               PROVE  /\ IsFiniteSet(s) /\ IsFiniteSet(T \cap s)
                      /\ \A x \in s : w[x] \in Nat /\ v[x] \in Nat
                      /\ Total(w, s) \in Nat /\ Total(w, T \cap s) \in Nat /\ Total(v, s) \in Nat
    OBVIOUS
  <2>1. IsFiniteSet(s) /\ IsFiniteSet(T \cap s)
    BY FS_Subset, T \cap s \in SUBSET S
  <2>2. \A x \in s : w[x] \in Nat /\ v[x] \in Nat
    OBVIOUS
  <2> QED BY <2>1, <2>2, TotalChosen
<1>3. F = {}
  <2> SUFFICES ASSUME F # {} PROVE FALSE
    OBVIOUS
  <2>1. PICK s \in F : \A r \in F : r \subseteq s => r = s
    <3> HIDE DEF F
    <3> QED BY <1>1, SmallestSet
  <2>2. s # {}
    <3> SUFFICES ASSUME s = {} PROVE FALSE
      OBVIOUS
    <3>1. Total(w, s) = 0 /\ Total(w, T \cap s) = 0 /\ Total(v, s) = 0
      BY <1>2, TotalChosen, T \cap s = {}
    <3> QED BY <3>1
  <2>3. PICK e \in s : TRUE
    BY <2>2
  <2>4. s \ {e} \notin F /\ s \ {e} \in SUBSET S /\ s \in SUBSET S
    BY <2>1
  <2>5. /\ Total(w, s \ {e}) = Total(w, T \cap (s \ {e})) + Total(v, s \ {e})
        /\ Total(w, s) # Total(w, T \cap s) + Total(v, s)
    BY <2>4
  <2>6. Total(w, s) = w[e] + Total(w, s \ {e}) /\ Total(v, s) = v[e] + Total(v, s \ {e})
    BY <1>2, <2>4, TotalRemove
  <2>7. /\ w[e] \in Nat /\ v[e] = IF e \in T THEN 0 ELSE w[e]
        /\ Total(w, T \cap (s \ {e})) \in Nat /\ Total(v, s \ {e}) \in Nat
    BY <1>2, <2>4
  <2>8. CASE e \in T
    <3>1. /\ e \in T \cap s /\ IsFiniteSet(T \cap s)
          /\ \A x \in T \cap s : w[x] \in Nat
      BY <1>2, <2>4, <2>8
    <3>2. Total(w, T \cap s) = w[e] + Total(w, (T \cap s) \ {e})
      BY <3>1, TotalRemove
    <3>3. (T \cap s) \ {e} = T \cap (s \ {e})
      OBVIOUS
    <3>4. Total(w, T \cap s) = w[e] + Total(w, T \cap (s \ {e}))
      BY <3>2, <3>3
    <3> HIDE DEF F
    <3> QED BY <2>5, <2>6, <2>7, <2>8, <3>4
  <2>9. CASE e \notin T
    <3>1. T \cap (s \ {e}) = T \cap s
      BY <2>9
    <3>2. Total(w, T \cap s) = Total(w, T \cap (s \ {e})) /\ v[e] = w[e]
      BY <2>7, <2>9, <3>1
    <3> HIDE DEF F
    <3> QED BY <2>5, <2>6, <2>7, <3>2
  <2> QED BY <2>8, <2>9
<1>4. Total(w, S) = Total(w, T \cap S) + Total(v, S)
  BY <1>3
<1> QED BY <1>4, T \cap S = T

=============================================================================
