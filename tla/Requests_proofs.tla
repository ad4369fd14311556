--------------------------- MODULE Requests_proofs ---------------------------
(***************************************************************************)
(* What the proofs about the components need to know of requests in        *)
(* flight: while one worker serves them, nobody else's request is in       *)
(* flight, and a commit finds the row it loaded.                           *)
(***************************************************************************)
EXTENDS Requests, FiniteSetTheorems, WellFoundedInduction, TLAPS

(* Whether one worker serves the requests or several does not change.      *)
LEMMA SerialStays ==
  ASSUME DOMAIN req = Worker, NEW w \in Worker, NEW r,
         req[w].step # "off", r.step # "off", req' = [req EXCEPT ![w] = r]
  PROVE  Serial' <=> Serial
<1>1. \A v \in Worker : req'[v].step # "off" <=> req[v].step # "off"
  OBVIOUS
<1>2. {v \in Worker : req'[v].step # "off"} = {v \in Worker : req[v].step # "off"}
  BY <1>1
<1> QED
  BY <1>2 DEF Serial

(* Of serial requests, two workers that are not off are one.               *)
LEMMA SerialWorker ==
  ASSUME RequestsAssumption, Serial, NEW v \in Worker, NEW w \in Worker,
         req[v].step # "off", req[w].step # "off"
  PROVE  v = w
<1> DEFINE on == {x \in Worker : req[x].step # "off"}
<1>1. IsFiniteSet(on)
  BY FS_Subset DEF RequestsAssumption
<1>2. Cardinality(on) = 1
  BY DEF Serial
<1>3. \E x : on = {x}
  BY <1>1, <1>2, FS_Singleton
<1> QED
  BY <1>3

(* A serial request that begins finds nobody else's in flight.             *)
LEMMA SerialIsAlone ==
  ASSUME RequestsAssumption, Serial, Free, NEW w \in Worker
  PROVE  ~InFlight(w)
BY SerialWorker DEF Free, InFlight

(* A request that begins while requests are serial is the only one.        *)
LEMMA SerialBegins ==
  ASSUME RequestsAssumption, DOMAIN req = Worker, NEW w \in Worker, NEW r, r.step # "off", Begin(w, r)
  PROVE  /\ Serial' <=> Serial
         /\ req'[w] = r
         /\ \A v \in Worker : v # w => req'[v] = req[v]
         /\ Serial => \A v \in Worker : v # w => req'[v].step = "off"
<1>1. Serial' <=> Serial
  BY SerialStays DEF Begin
<1>2. Serial => \A v \in Worker : v # w => req[v].step = "off"
  BY SerialWorker DEF Begin
<1> QED
  BY <1>1, <1>2 DEF Begin

(* A serial request that goes on is the only one in flight.                *)
LEMMA SerialContinues ==
  ASSUME RequestsAssumption, DOMAIN req = Worker, NEW w \in Worker, NEW r, r.step # "off",
         InFlight(w), req' = [req EXCEPT ![w] = r]
  PROVE  /\ Serial' <=> Serial
         /\ req'[w] = r
         /\ \A v \in Worker : v # w => req'[v] = req[v]
         /\ Serial => \A v \in Worker : v # w => req'[v].step = "off"
<1>1. Serial' <=> Serial
  BY SerialStays DEF InFlight
<1>2. Serial => \A v \in Worker : v # w => req[v].step = "off"
  BY SerialWorker DEF InFlight
<1> QED
  BY <1>1, <1>2

(* When a serial request finishes, none is in flight.                      *)
LEMMA SerialFinishes ==
  ASSUME RequestsAssumption, DOMAIN req = Worker, NEW w \in Worker, InFlight(w), Finish(w)
  PROVE  /\ Serial' <=> Serial
         /\ req'[w] = Idle
         /\ \A v \in Worker : v # w => req'[v] = req[v]
         /\ Serial => \A v \in Worker : req'[v].step \in {"idle", "off"}
<1>1. Serial' <=> Serial
  BY SerialStays DEF Finish, Idle, InFlight
<1>2. Serial => \A v \in Worker : v # w => req[v].step = "off"
  BY SerialWorker DEF InFlight
<1> QED
  BY <1>1, <1>2 DEF Finish, Idle

(* A worker takes the next step of a request, or is done with it.          *)
TakesUp(w, steps) ==
  req[w].step # "off" /\ req' = [req EXCEPT ![w] = req'[w]] /\ req'[w].step \in steps

(* Of a set whose members are one another, there is at most one.           *)
LEMMA AtMostOne ==
  ASSUME NEW S, \A m, n \in S : m = n
  PROVE  IsFiniteSet(S) /\ Cardinality(S) <= 1
<1>1. CASE S = {}
  BY <1>1, FS_EmptySet
<1>2. CASE S # {}
  <2>1. PICK n : S = {n}
    BY <1>2
  <2> QED
    <3>1. IsFiniteSet({n}) /\ Cardinality({n}) = 1
      BY FS_Singleton
    <3> QED
      BY <2>1, <3>1
<1> QED
  BY <1>1, <1>2

(* A commit that finds the row as it was loaded leaves the handler's copy. *)
LEMMA FlushIsWhole ==
  ASSUME NEW row, NEW new, new = [c \in DOMAIN row |-> new[c]]
  PROVE  Flush(row, new, row) = new
BY DEF Flush
-----------------------------------------------------------------------------
(* Induction, over sets and functions instead of operators: a recursive    *)
(* function of the model exists, and what holds along the recursion holds. *)

(* A set of numbers has a least member.                                    *)
LEMMA LeastNumber ==
  ASSUME NEW S \in SUBSET Nat, S # {}
  PROVE  \E m \in S : \A n \in S : m <= n
<1> DEFINE R == {ss \in Nat \X Nat : ss[1] < ss[2]}
<1>1. IsWellFoundedOn(R, Nat)
  BY NatLessThanWellFounded DEF OpToRel
<1> HIDE DEF R
<1>2. PICK m \in S : \A n \in S : <<n, m>> \notin R
  BY <1>1, WFMin
<1>3. ASSUME NEW n \in S PROVE m <= n
  <2>1. m \in Nat /\ n \in Nat
    OBVIOUS
  <2>2. n < m => <<n, m>> \in R
    BY <2>1 DEF R
  <2> QED
    BY <1>2, <2>1, <2>2
<1> QED
  BY <1>3

(* What holds of 0, and of the next number with each, holds of all.        *)
LEMMA NumberInduction ==
  ASSUME NEW G, 0 \in G, \A n \in Nat : n \in G => n + 1 \in G
  PROVE  Nat \subseteq G
<1> SUFFICES ASSUME Nat \ G # {} PROVE FALSE
  OBVIOUS
<1>1. PICK m \in Nat \ G : \A n \in Nat \ G : m <= n
  BY LeastNumber
<1>2. m # 0 /\ m - 1 \in Nat
  BY <1>1
<1>3. m - 1 \in G
  BY <1>1, <1>2
<1>4. (m - 1) + 1 = m
  BY <1>1
<1> QED
  BY <1>1, <1>2, <1>3, <1>4

(* What holds of the empty set, and still when a member is added, holds of *)
(* a finite set.                                                           *)
LEMMA SetInduction ==
  ASSUME NEW S, IsFiniteSet(S), NEW G, {} \in G, \A s \in G : \A x \in S \ s : s \cup {x} \in G
  PROVE  S \in G
<1> DEFINE Left == {Cardinality(S \ s) : s \in {t \in G : t \subseteq S}}
<1>1. \A s \in SUBSET S : IsFiniteSet(S \ s) /\ Cardinality(S \ s) \in Nat
  BY FS_Subset, FS_CardinalityType
<1>2. Left \in SUBSET Nat /\ Left # {}
  BY <1>1
<1>3. PICK m \in Left : \A n \in Left : m <= n
  BY <1>2, LeastNumber
<1>4. PICK s \in G : s \subseteq S /\ m = Cardinality(S \ s)
  BY <1>3
<1>5. CASE S = s
  BY <1>4, <1>5
<1>6. CASE S # s
  <2>1. PICK x \in S : x \notin s
    BY <1>4, <1>6
  <2>2. s \cup {x} \in G /\ s \cup {x} \subseteq S
    BY <1>4, <2>1
  <2>3. Cardinality(S \ (s \cup {x})) \in Left
    BY <2>2
  <2>4. S \ (s \cup {x}) = (S \ s) \ {x} /\ x \in S \ s
    BY <2>1
  <2>5. IsFiniteSet(S \ s) /\ Cardinality(S \ s) \in Nat
    BY <1>1, <1>4
  <2>6. Cardinality((S \ s) \ {x}) = Cardinality(S \ s) - 1
    BY <2>4, <2>5, FS_RemoveElement
  <2>7. m - 1 \in Left /\ m \in Nat
    BY <1>4, <2>3, <2>4, <2>5, <2>6
  <2> HIDE DEF Left
  <2> QED
    BY <1>3, <2>7
<1> QED
  BY <1>5, <1>6

(* What is reached from b by steps of P, in up to N of them: it exists, for *)
(* P is a function.                                                        *)
StepOn(P, D) == P \in [SUBSET D -> SUBSET D]

Reaches(up, P, D, b, N) ==
  up \in [0..N -> SUBSET D] /\ up[0] = {b} /\ \A k \in 1..N : up[k] = up[k - 1] \cup P[up[k - 1]]

ClosedUnder(C, P) == \A T \in SUBSET C : P[T] \subseteq C

LEMMA ReachedExists ==
  ASSUME NEW D, NEW b \in D, NEW P, StepOn(P, D), NEW N \in Nat
  PROVE  \E up : Reaches(up, P, D, b, N)
<1> DEFINE Some(n) == \E up : Reaches(up, P, D, b, n)
           G == {n \in Nat : Some(n)}
<1>1. 0 \in G
  <2> DEFINE up == [k \in 0..0 |-> {b}]
  <2>1. Reaches(up, P, D, b, 0)
    BY DEF Reaches
  <2> QED
    BY <2>1
<1>2. ASSUME NEW n \in Nat, n \in G PROVE n + 1 \in G
  <2>1. PICK up : Reaches(up, P, D, b, n)
    BY <1>2
  <2>2. /\ up \in [0..n -> SUBSET D] /\ up[0] = {b}
        /\ \A k \in 1..n : up[k] = up[k - 1] \cup P[up[k - 1]]
    BY <2>1 DEF Reaches
  <2>3. up[n] \cup P[up[n]] \in SUBSET D
    BY <2>2 DEF StepOn
  <2> DEFINE new == [k \in 0..(n + 1) |-> IF k = n + 1 THEN up[n] \cup P[up[n]] ELSE up[k]]
  <2>4. new \in [0..(n + 1) -> SUBSET D] /\ new[0] = {b}
    BY <2>2, <2>3
  <2>5. ASSUME NEW k \in 1..(n + 1) PROVE new[k] = new[k - 1] \cup P[new[k - 1]]
    <3>1. CASE k = n + 1
      BY <2>2, <3>1
    <3>2. CASE k # n + 1
      BY <2>2, <3>2
    <3> QED
      BY <3>1, <3>2
  <2> HIDE DEF new
  <2>6. Reaches(new, P, D, b, n + 1)
    BY <2>4, <2>5 DEF Reaches
  <2> QED
    BY <2>6
<1> HIDE DEF G
<1>3. N \in G
  BY <1>1, <1>2, NumberInduction
<1> QED
  BY <1>3 DEF G

(* What is reached by steps from a member, in as many steps as there are   *)
(* members, is closed under the step, and is within every such set that    *)
(* has the member.                                                         *)
LEMMA ReachedIsClosed ==
  ASSUME NEW D, IsFiniteSet(D), NEW N \in Nat, Cardinality(D) <= N, NEW b \in D,
         NEW P, StepOn(P, D), NEW up, Reaches(up, P, D, b, N)
  PROVE  P[up[N]] \subseteq up[N] /\ b \in up[N] /\ up[N] \subseteq D
<1>0. /\ P \in [SUBSET D -> SUBSET D]
      /\ up \in [0..N -> SUBSET D] /\ up[0] = {b} /\ \A k \in 1..N : up[k] = up[k - 1] \cup P[up[k - 1]]
  BY DEF StepOn, Reaches
<1> USE <1>0
<1> DEFINE Grown(n) == b \in up[n] /\ (P[up[n]] \subseteq up[n] \/ Cardinality(up[n]) >= n + 1)
           G == {n \in Nat : n \in 0..N => Grown(n)}
<1>1. 0 \in G
  <2>1. Cardinality({b}) = 1
    BY FS_Singleton
  <2>2. Cardinality(up[0]) >= 0 + 1 /\ b \in up[0]
    BY <2>1
  <2> QED
    BY <2>2
<1>2. ASSUME NEW n \in Nat, n \in G PROVE n + 1 \in G
  <2> SUFFICES ASSUME n + 1 \in 0..N PROVE Grown(n + 1)
    OBVIOUS
  <2>1. n \in 0..N /\ b \in up[n] /\ (P[up[n]] \subseteq up[n] \/ Cardinality(up[n]) >= n + 1)
    <3>1. n \in 0..N
      OBVIOUS
    <3>2. Grown(n)
      <4> HIDE DEF Grown
      <4> QED
        BY <1>2, <3>1
    <3> QED
      BY <3>1, <3>2
  <2>2. n + 1 \in 1..N /\ (n + 1) - 1 = n
    BY <2>1
  <2>3. up[n + 1] = up[n] \cup P[up[n]]
    BY <2>2
  <2>4. up[n] \in SUBSET D /\ up[n + 1] \in SUBSET D
    BY <2>1
  <2>5. CASE P[up[n]] \subseteq up[n]
    <3>1. up[n + 1] = up[n]
      BY <2>3, <2>5
    <3> QED
      BY <2>1, <2>5, <3>1
  <2>6. CASE ~(P[up[n]] \subseteq up[n])
    <3>1. PICK x \in up[n + 1] : x \notin up[n]
      BY <2>3, <2>6
    <3>2. IsFiniteSet(up[n]) /\ IsFiniteSet(up[n + 1])
      BY <2>4, FS_Subset
    <3>3. up[n] \cup {x} \subseteq up[n + 1]
      BY <2>3, <3>1
    <3>4. Cardinality(up[n] \cup {x}) = Cardinality(up[n]) + 1 /\ Cardinality(up[n]) \in Nat
      BY <3>1, <3>2, FS_AddElement, FS_CardinalityType
    <3>5. Cardinality(up[n] \cup {x}) <= Cardinality(up[n + 1]) /\ Cardinality(up[n + 1]) \in Nat
      BY <3>2, <3>3, FS_Subset, FS_CardinalityType
    <3>6. Cardinality(up[n]) >= n + 1
      BY <2>1, <2>6
    <3> HIDE DEF G
    <3>7. Cardinality(up[n + 1]) >= n + 2
      BY <3>4, <3>5, <3>6
    <3> QED
      BY <2>1, <2>3, <3>7
  <2> QED
    BY <2>5, <2>6
<1> HIDE DEF G
<1>3. N \in G
  BY <1>1, <1>2, NumberInduction
<1>4. b \in up[N] /\ (P[up[N]] \subseteq up[N] \/ Cardinality(up[N]) >= N + 1)
  <2>1. Grown(N)
    <3> HIDE DEF Grown
    <3> QED
      BY <1>3 DEF G
  <2> QED
    BY <2>1
<1>5. up[N] \in SUBSET D /\ Cardinality(D) \in Nat
  BY FS_CardinalityType
<1>6. Cardinality(up[N]) <= Cardinality(D) /\ Cardinality(up[N]) \in Nat
  <2>1. IsFiniteSet(up[N]) /\ Cardinality(up[N]) <= Cardinality(D)
    BY <1>5, FS_Subset
  <2> QED
    BY <2>1, FS_CardinalityType
<1> QED
  BY <1>4, <1>5, <1>6

LEMMA ReachedIsLeast ==
  ASSUME NEW D, NEW N \in Nat, NEW b \in D, NEW P, NEW up, Reaches(up, P, D, b, N),
         NEW C, C \subseteq D, b \in C, ClosedUnder(C, P)
  PROVE  up[N] \subseteq C
<1>0. \A T \in SUBSET C : P[T] \subseteq C
  BY DEF ClosedUnder
<1>a. up \in [0..N -> SUBSET D] /\ up[0] = {b} /\ \A k \in 1..N : up[k] = up[k - 1] \cup P[up[k - 1]]
  BY DEF Reaches
<1> USE <1>0, <1>a
<1> DEFINE G == {n \in Nat : n \in 0..N => up[n] \subseteq C}
<1>1. 0 \in G
  OBVIOUS
<1>2. ASSUME NEW n \in Nat, n \in G PROVE n + 1 \in G
  <2> SUFFICES ASSUME n + 1 \in 0..N PROVE up[n + 1] \subseteq C
    OBVIOUS
  <2>1. n \in 0..N /\ up[n] \subseteq C
    BY <1>2
  <2>2. n + 1 \in 1..N /\ (n + 1) - 1 = n
    BY <2>1
  <2>3. up[n + 1] = up[n] \cup P[up[n]]
    BY <2>2
  <2> QED
    BY <2>1, <2>3
<1> HIDE DEF G
<1>3. N \in G
  BY <1>1, <1>2, NumberInduction
<1> QED
  BY <1>3 DEF G
-----------------------------------------------------------------------------
(* Sums of numbers over a finite set, as the folds of the model take them:  *)
(* a member at a time, in an order of their own.                           *)
Picked(s) == CHOOSE e \in s : TRUE

SumStep(f, T, sum) ==
  [s \in T |-> IF s = {} THEN 0 ELSE f[Picked(s)] + sum[s \ {Picked(s)}]]

Numbers(f, S) == \A x \in S : f[x] \in Int
EqualOn(f, g, S) == \A x \in S : f[x] = g[x]
IsSumUpTo(sum, f, T) == sum = SumStep(f, T, sum)
IsSum(sum, f, S) == sum = SumStep(f, SUBSET S, sum)

SumOf(f, S) == (CHOOSE sum : sum = SumStep(f, SUBSET S, sum))[S]

(* The sets within S of up to n members.                                   *)
UpTo(S, n) == {s \in SUBSET S : Cardinality(s) <= n}

LEMMA PickedIsLess ==
  ASSUME NEW S, IsFiniteSet(S), NEW n \in Nat, NEW s \in UpTo(S, n + 1), s # {}
  PROVE  /\ Picked(s) \in s /\ Picked(s) \in S
         /\ \A x \in s : s \ {x} \in UpTo(S, n)
<1>1. Picked(s) \in s
  BY DEF Picked
<1>2. s \subseteq S /\ IsFiniteSet(s) /\ Cardinality(s) \in Nat /\ Cardinality(s) <= n + 1
  BY FS_Subset, FS_CardinalityType DEF UpTo
<1>3. ASSUME NEW x \in s PROVE s \ {x} \in UpTo(S, n)
  <2>1. Cardinality(s \ {x}) = Cardinality(s) - 1
    BY <1>2, FS_RemoveElement
  <2>2. Cardinality(s \ {x}) <= n
    BY <1>2, <2>1
  <2>3. s \ {x} \in SUBSET S
    BY <1>2
  <2> QED
    BY <2>2, <2>3 DEF UpTo
<1> QED
  BY <1>1, <1>2, <1>3

LEMMA UpToAll ==
  ASSUME NEW S, IsFiniteSet(S)
  PROVE  /\ Cardinality(S) \in Nat /\ UpTo(S, Cardinality(S)) = SUBSET S
         /\ \A n \in Nat : UpTo(S, n) \subseteq UpTo(S, n + 1)
         /\ \A s \in UpTo(S, 0) : s = {}
<1>1. \A s \in SUBSET S : IsFiniteSet(s) /\ Cardinality(s) \in Nat /\ Cardinality(s) <= Cardinality(S)
  BY FS_Subset, FS_CardinalityType
<1>2. \A s \in SUBSET S : Cardinality(s) = 0 <=> s = {}
  BY <1>1, FS_EmptySet
<1> QED
  BY <1>1, <1>2 DEF UpTo

LEMMA SumExists ==
  ASSUME NEW S, IsFiniteSet(S), NEW f
  PROVE  \E sum : IsSum(sum, f, S)
<1> DEFINE G == {n \in Nat : \E sum : IsSumUpTo(sum, f, UpTo(S, n))}
<1>1. 0 \in G
  <2> DEFINE sum == [s \in UpTo(S, 0) |-> 0]
  <2>1. IsSumUpTo(sum, f, UpTo(S, 0))
    BY UpToAll DEF SumStep, IsSum, IsSumUpTo
  <2> QED
    BY <2>1
<1>2. ASSUME NEW n \in Nat, n \in G PROVE n + 1 \in G
  <2>1. PICK sum : IsSumUpTo(sum, f, UpTo(S, n))
    BY <1>2
  <2> DEFINE next == SumStep(f, UpTo(S, n + 1), sum)
  <2>2. ASSUME NEW s \in UpTo(S, n + 1), s # {}
        PROVE  next[s \ {Picked(s)}] = sum[s \ {Picked(s)}]
    <3>1. s \ {Picked(s)} \in UpTo(S, n) /\ s \ {Picked(s)} \in UpTo(S, n + 1)
      BY <2>2, PickedIsLess, UpToAll
    <3> QED
      BY <2>1, <3>1 DEF SumStep, IsSum, IsSumUpTo
  <2>3. IsSumUpTo(next, f, UpTo(S, n + 1))
    BY <2>2 DEF SumStep, IsSum, IsSumUpTo
  <2> HIDE DEF next
  <2> QED
    BY <2>3
<1> HIDE DEF G
<1>3. Nat \subseteq G
  BY <1>1, <1>2, NumberInduction
<1>4. Cardinality(S) \in G
  BY <1>3, UpToAll
<1>5. PICK sum : IsSumUpTo(sum, f, UpTo(S, Cardinality(S)))
  BY <1>4 DEF G
<1>6. sum = SumStep(f, SUBSET S, sum)
  BY <1>5, UpToAll DEF IsSumUpTo, SumStep
<1> QED
  BY <1>6 DEF IsSum

(* A sum does not depend on the order in which its members are taken.      *)
LEMMA SumInAnyOrder ==
  ASSUME NEW S, IsFiniteSet(S), NEW f, Numbers(f, S),
         NEW sum, IsSum(sum, f, S)
  PROVE  /\ sum[{}] = 0
         /\ \A s \in SUBSET S : sum[s] \in Int /\ \A x \in s : sum[s] = f[x] + sum[s \ {x}]
<1> DEFINE Right(s) == sum[s] \in Int /\ \A x \in s : sum[s] = f[x] + sum[s \ {x}]
           G == {n \in Nat : \A s \in UpTo(S, n) : Right(s)}
<1>0. sum[{}] = 0 /\ Right({})
  BY DEF SumStep, IsSum, IsSumUpTo
<1>1. 0 \in G
  BY <1>0, UpToAll
<1>2. ASSUME NEW n \in Nat, n \in G PROVE n + 1 \in G
  <2>1. ASSUME NEW s \in UpTo(S, n + 1), s # {} PROVE Right(s)
    <3> DEFINE p == Picked(s)
    <3>1. /\ p \in s /\ s \in SUBSET S
          /\ \A x \in s : s \ {x} \in UpTo(S, n)
      BY <2>1, PickedIsLess DEF UpTo
    <3>2. sum[s] = f[p] + sum[s \ {p}]
      BY <2>1, <3>1 DEF SumStep, IsSum, IsSumUpTo
    <3>3. \A x \in s : Right(s \ {x})
      BY <1>2, <3>1
    <3>4. sum[s] \in Int
      <4>1. f[p] \in Int /\ sum[s \ {p}] \in Int
        BY <3>1, <3>3 DEF Numbers
      <4> QED
        BY <3>2, <4>1
    <3>5. ASSUME NEW x \in s, x # p PROVE sum[s] = f[x] + sum[s \ {x}]
      <4>1. x \in s \ {p} /\ p \in s \ {x} /\ (s \ {p}) \ {x} = (s \ {x}) \ {p}
        BY <3>1, <3>5
      <4>2. sum[s \ {p}] = f[x] + sum[(s \ {p}) \ {x}]
        BY <3>1, <3>3, <4>1
      <4>3. sum[s \ {x}] = f[p] + sum[(s \ {x}) \ {p}]
        BY <3>1, <3>3, <4>1
      <4>4. sum[(s \ {x}) \ {p}] \in Int
        <5>1. (s \ {x}) \ {p} \in UpTo(S, n)
          <6>1. IsFiniteSet(s \ {x}) /\ Cardinality(s \ {x}) <= n /\ s \ {x} \in SUBSET S
            BY <3>1, FS_Subset DEF UpTo
          <6>2. Cardinality((s \ {x}) \ {p}) <= Cardinality(s \ {x})
            BY <6>1, FS_Subset
          <6>3. Cardinality((s \ {x}) \ {p}) \in Nat /\ Cardinality(s \ {x}) \in Nat
            BY <6>1, FS_Subset, FS_CardinalityType
          <6> QED
            BY <6>1, <6>2, <6>3 DEF UpTo
        <5> QED
          BY <1>2, <5>1
      <4>5. f[x] \in Int /\ f[p] \in Int
        BY <3>1 DEF Numbers
      <4> DEFINE rest == sum[(s \ {x}) \ {p}]
      <4>6. sum[s] = f[p] + (f[x] + rest) /\ sum[s \ {x}] = f[p] + rest
        BY <3>2, <4>1, <4>2, <4>3
      <4>7. rest \in Int
        BY <4>4
      <4> HIDE DEF rest, p
      <4> QED
        BY <4>5, <4>6, <4>7
    <3> QED
      BY <3>2, <3>4, <3>5
  <2> HIDE DEF Right
  <2>2. \A s \in UpTo(S, n + 1) : Right(s)
    BY <1>0, <2>1
  <2> QED
    BY <2>2
<1> HIDE DEF G
<1>3. Nat \subseteq G
  BY <1>1, <1>2, NumberInduction
<1>4. Cardinality(S) \in G
  BY <1>3, UpToAll
<1>5. \A s \in SUBSET S : Right(s)
  <2> HIDE DEF Right
  <2> QED
    BY <1>4, UpToAll DEF G
<1> QED
  BY <1>0, <1>5

(* Nor on what is outside of the set.                                      *)
LEMMA SumsAgree ==
  ASSUME NEW S, IsFiniteSet(S), NEW T \in SUBSET S, NEW f, NEW g, EqualOn(f, g, T),
         NEW sum, IsSum(sum, f, S), NEW part, IsSum(part, g, T)
  PROVE  part[T] = sum[T]
<1> DEFINE G == {n \in Nat : \A s \in UpTo(T, n) : part[s] = sum[s]}
<1>0. IsFiniteSet(T)
  BY FS_Subset
<1>1. 0 \in G
  <2>1. part[{}] = sum[{}]
    BY DEF SumStep, IsSum, IsSumUpTo
  <2> QED
    BY <1>0, <2>1, UpToAll
<1>2. ASSUME NEW n \in Nat, n \in G PROVE n + 1 \in G
  <2>1. ASSUME NEW s \in UpTo(T, n + 1), s # {} PROVE part[s] = sum[s]
    <3> DEFINE p == Picked(s)
    <3>1. p \in T /\ s \in SUBSET T /\ s \in SUBSET S /\ s \ {p} \in UpTo(T, n)
      BY <1>0, <2>1, PickedIsLess DEF UpTo
    <3>2. part[s] = g[p] + part[s \ {p}]
      BY <2>1, <3>1 DEF SumStep, IsSum, IsSumUpTo
    <3>3. sum[s] = f[p] + sum[s \ {p}]
      BY <2>1, <3>1 DEF SumStep, IsSum, IsSumUpTo
    <3>4. part[s \ {p}] = sum[s \ {p}]
      BY <1>2, <3>1
    <3> QED
      BY <3>1, <3>2, <3>3, <3>4 DEF EqualOn
  <2>2. part[{}] = sum[{}]
    BY DEF SumStep, IsSum, IsSumUpTo
  <2>3. \A s \in UpTo(T, n + 1) : part[s] = sum[s]
    BY <2>1, <2>2
  <2> QED
    BY <2>3
<1> HIDE DEF G
<1>3. Nat \subseteq G
  BY <1>1, <1>2, NumberInduction
<1>4. Cardinality(T) \in G
  BY <1>0, <1>3, UpToAll
<1> QED
  BY <1>0, <1>4, UpToAll DEF G

LEMMA SumIsASum ==
  ASSUME NEW S, IsFiniteSet(S), NEW f
  PROVE  \E sum : IsSum(sum, f, S) /\ SumOf(f, S) = sum[S]
BY SumExists DEF SumOf, IsSum

LEMMA SumOfSame ==
  ASSUME NEW S, IsFiniteSet(S), NEW f, NEW g, EqualOn(f, g, S)
  PROVE  SumOf(f, S) = SumOf(g, S)
<1>1. PICK sum : IsSum(sum, f, S) /\ SumOf(f, S) = sum[S]
  BY SumIsASum
<1>2. PICK part : IsSum(part, g, S) /\ SumOf(g, S) = part[S]
  BY SumIsASum
<1>3. S \in SUBSET S
  OBVIOUS
<1> QED
  BY <1>1, <1>2, <1>3, SumsAgree

LEMMA SumOfNone ==
  ASSUME NEW f
  PROVE  SumOf(f, {}) = 0
<1>1. IsFiniteSet({})
  BY FS_EmptySet
<1>2. PICK sum : IsSum(sum, f, {}) /\ SumOf(f, {}) = sum[{}]
  BY <1>1, SumIsASum
<1> QED
  BY <1>2 DEF SumStep, IsSum, IsSumUpTo

LEMMA SumIsInteger ==
  ASSUME NEW S, IsFiniteSet(S), NEW f, Numbers(f, S)
  PROVE  SumOf(f, S) \in Int
<1>1. PICK sum : IsSum(sum, f, S) /\ SumOf(f, S) = sum[S]
  BY SumIsASum
<1>2. \A s \in SUBSET S : sum[s] \in Int /\ \A x \in s : sum[s] = f[x] + sum[s \ {x}]
  BY <1>1, SumInAnyOrder
<1> QED
  BY <1>1, <1>2

(* The sum without a member, and with one more.                            *)
LEMMA SumWithout ==
  ASSUME NEW S, IsFiniteSet(S), NEW f, Numbers(f, S), NEW x \in S
  PROVE  SumOf(f, S) = f[x] + SumOf(f, S \ {x})
<1>1. PICK sum : IsSum(sum, f, S) /\ SumOf(f, S) = sum[S]
  BY SumIsASum
<1>2. sum[S] = f[x] + sum[S \ {x}]
  <2>1. \A s \in SUBSET S : sum[s] \in Int /\ \A y \in s : sum[s] = f[y] + sum[s \ {y}]
    BY <1>1, SumInAnyOrder
  <2> QED
    BY <2>1
<1>3. S \ {x} \in SUBSET S /\ IsFiniteSet(S \ {x})
  BY FS_Subset
<1>4. PICK part : IsSum(part, f, S \ {x}) /\ SumOf(f, S \ {x}) = part[S \ {x}]
  BY <1>3, SumIsASum
<1>5. part[S \ {x}] = sum[S \ {x}]
  <2>1. EqualOn(f, f, S \ {x})
    BY DEF EqualOn
  <2> QED
    BY <1>1, <1>3, <1>4, <2>1, SumsAgree
<1> QED
  BY <1>1, <1>2, <1>4, <1>5

LEMMA SumWith ==
  ASSUME NEW S, IsFiniteSet(S), NEW f, NEW x, x \notin S, Numbers(f, S \cup {x})
  PROVE  SumOf(f, S \cup {x}) = f[x] + SumOf(f, S)
<1>1. IsFiniteSet(S \cup {x}) /\ (S \cup {x}) \ {x} = S
  BY FS_AddElement
<1> QED
  BY <1>1, SumWithout

(* A sum of larger numbers is not smaller.                                 *)
LEMMA SumIsMonotone ==
  ASSUME NEW S, IsFiniteSet(S), NEW f, NEW g,
         Numbers(f, S), Numbers(g, S), \A x \in S : f[x] <= g[x]
  PROVE  SumOf(f, S) <= SumOf(g, S)
<1> DEFINE G == {s \in SUBSET S : SumOf(f, s) <= SumOf(g, s)}
<1>1. {} \in G
  BY SumOfNone
<1>2. ASSUME NEW s \in G, NEW x \in S \ s PROVE s \cup {x} \in G
  <2>1. s \in SUBSET S /\ IsFiniteSet(s)
    BY FS_Subset
  <2>2. Numbers(f, s \cup {x}) /\ Numbers(g, s \cup {x}) /\ Numbers(f, s) /\ Numbers(g, s)
    BY <2>1 DEF Numbers
  <2>3. SumOf(f, s \cup {x}) = f[x] + SumOf(f, s) /\ SumOf(g, s \cup {x}) = g[x] + SumOf(g, s)
    BY <2>1, <2>2, SumWith
  <2>4. SumOf(f, s) \in Int /\ SumOf(g, s) \in Int
    BY <2>1, <2>2, SumIsInteger
  <2>5. f[x] \in Int /\ g[x] \in Int /\ f[x] <= g[x] /\ SumOf(f, s) <= SumOf(g, s)
    BY <1>2 DEF Numbers
  <2>6. SumOf(f, s \cup {x}) <= SumOf(g, s \cup {x})
    BY <2>3, <2>4, <2>5
  <2> QED
    BY <2>1, <2>6
<1> HIDE DEF G
<1>3. S \in G
  BY <1>1, <1>2, SetInduction
<1> QED
  BY <1>3 DEF G

(* A sum of none but nothing is nothing.                                   *)
LEMMA SumOfZeros ==
  ASSUME NEW S, IsFiniteSet(S), NEW f, \A x \in S : f[x] = 0
  PROVE  SumOf(f, S) = 0
<1> DEFINE G == {s \in SUBSET S : SumOf(f, s) = 0}
<1>1. {} \in G
  BY SumOfNone
<1>2. ASSUME NEW s \in G, NEW x \in S \ s PROVE s \cup {x} \in G
  <2>1. s \in SUBSET S /\ IsFiniteSet(s)
    BY FS_Subset
  <2>2. Numbers(f, s \cup {x})
    BY <2>1 DEF Numbers
  <2>3. SumOf(f, s \cup {x}) = f[x] + SumOf(f, s)
    BY <2>1, <2>2, SumWith
  <2> QED
    BY <2>1, <2>3
<1> HIDE DEF G
<1>3. S \in G
  BY <1>1, <1>2, SetInduction
<1> QED
  BY <1>3 DEF G

LEMMA SumIsNatural ==
  ASSUME NEW S, IsFiniteSet(S), NEW f, Numbers(f, S), \A x \in S : 0 <= f[x]
  PROVE  SumOf(f, S) \in Nat
<1> DEFINE g == [x \in S |-> 0]
<1>1. SumOf(g, S) = 0
  BY SumOfZeros
<1>2. Numbers(g, S) /\ \A x \in S : g[x] <= f[x]
  BY DEF Numbers
<1> HIDE DEF g
<1>3. SumOf(g, S) <= SumOf(f, S) /\ SumOf(f, S) \in Int
  BY <1>2, SumIsMonotone, SumIsInteger
<1> QED
  BY <1>1, <1>3

(* Of numbers none of which is negative, a part adds up to no more.        *)
LEMMA SumOfPart ==
  ASSUME NEW S, IsFiniteSet(S), NEW f, Numbers(f, S), \A x \in S : 0 <= f[x], NEW T \in SUBSET S
  PROVE  SumOf(f, T) <= SumOf(f, S)
<1> DEFINE G == {s \in SUBSET (S \ T) : SumOf(f, T) <= SumOf(f, T \cup s)}
<1>1. IsFiniteSet(S \ T) /\ IsFiniteSet(T)
  BY FS_Subset
<1>2. SumOf(f, T) \in Int
  BY <1>1, SumIsInteger DEF Numbers
<1>3. {} \in G
  <2>1. T \cup {} = T
    OBVIOUS
  <2> QED
    BY <1>2, <2>1
<1>4. ASSUME NEW s \in G, NEW x \in (S \ T) \ s PROVE s \cup {x} \in G
  <2>1. T \cup s \in SUBSET S /\ IsFiniteSet(T \cup s) /\ x \notin T \cup s
    BY FS_Subset
  <2>2. Numbers(f, (T \cup s) \cup {x}) /\ Numbers(f, T \cup s)
    BY <2>1 DEF Numbers
  <2>3. SumOf(f, (T \cup s) \cup {x}) = f[x] + SumOf(f, T \cup s) /\ SumOf(f, T \cup s) \in Int
    BY <2>1, <2>2, SumWith, SumIsInteger
  <2>4. (T \cup s) \cup {x} = T \cup (s \cup {x})
    OBVIOUS
  <2>5. f[x] \in Int /\ 0 <= f[x] /\ SumOf(f, T) <= SumOf(f, T \cup s)
    BY DEF Numbers
  <2> DEFINE more == T \cup (s \cup {x})
             old == SumOf(f, T \cup s)
  <2>6. SumOf(f, more) = f[x] + old
    BY <2>3, <2>4
  <2> HIDE DEF more
  <2>7. old \in Int /\ SumOf(f, T) <= old
    BY <2>3, <2>5
  <2> HIDE DEF old
  <2>8. SumOf(f, T) <= SumOf(f, more)
    BY <1>2, <2>5, <2>6, <2>7
  <2> QED
    BY <2>8 DEF more
<1> HIDE DEF G
<1>5. S \ T \in G
  BY <1>1, <1>3, <1>4, SetInduction
<1>6. T \cup (S \ T) = S
  OBVIOUS
<1> QED
  BY <1>5, <1>6 DEF G

LEMMA SumOfMultiples ==
  ASSUME NEW S, IsFiniteSet(S), NEW f, Numbers(f, S), NEW c \in Int,
         NEW g, \A x \in S : g[x] = f[x] * c
  PROVE  SumOf(g, S) = SumOf(f, S) * c
<1> DEFINE G == {s \in SUBSET S : SumOf(g, s) = SumOf(f, s) * c}
<1>1. {} \in G
  BY SumOfNone
<1>2. ASSUME NEW s \in G, NEW x \in S \ s PROVE s \cup {x} \in G
  <2>1. s \in SUBSET S /\ IsFiniteSet(s)
    BY FS_Subset
  <2>2. Numbers(f, s \cup {x}) /\ Numbers(f, s) /\ Numbers(g, s \cup {x})
    BY <2>1 DEF Numbers
  <2>3. SumOf(f, s \cup {x}) = f[x] + SumOf(f, s) /\ SumOf(g, s \cup {x}) = g[x] + SumOf(g, s)
    BY <2>1, <2>2, SumWith
  <2>4. f[x] \in Int /\ SumOf(f, s) \in Int
    BY <2>1, <2>2, SumIsInteger DEF Numbers
  <2>5. \A a, b \in Int : (a + b) * c = a * c + b * c
    OBVIOUS
  <2>6. (f[x] + SumOf(f, s)) * c = f[x] * c + SumOf(f, s) * c
    BY <2>4, <2>5
  <2>7. SumOf(g, s \cup {x}) = SumOf(f, s \cup {x}) * c
    BY <2>3, <2>6
  <2> QED
    BY <2>7
<1> HIDE DEF G
<1>3. S \in G
  BY <1>1, <1>2, SetInduction
<1> QED
  BY <1>3 DEF G

(* A finite set of numbers that has members has a least and a greatest.    *)
LEMMA LeastAndGreatest ==
  ASSUME NEW S \in SUBSET Int, IsFiniteSet(S), S # {}
  PROVE  \E lo, hi \in S : \A x \in S : lo <= x /\ x <= hi
<1> DEFINE Spanned(s) == \E lo, hi \in s : \A x \in s : lo <= x /\ x <= hi
           G == {s \in SUBSET S : s = {} \/ Spanned(s)}
<1>1. {} \in G
  OBVIOUS
<1>2. ASSUME NEW s \in G, NEW x \in S \ s PROVE s \cup {x} \in G
  <2>1. CASE s = {}
    <3>1. s \cup {x} = {x} /\ x <= x
      BY <2>1
    <3> QED
      BY <3>1
  <2>2. CASE s # {}
    <3>1. PICK lo \in s, hi \in s : \A y \in s : lo <= y /\ y <= hi
      BY <2>2
    <3>2. lo \in Int /\ hi \in Int /\ x \in Int /\ \A y \in s : y \in Int
      OBVIOUS
    <3>3. PICK lo2 \in s \cup {x} : lo2 <= x /\ lo2 <= lo
      BY <3>2
    <3>4. PICK hi2 \in s \cup {x} : x <= hi2 /\ hi <= hi2
      BY <3>2
    <3>5. \A y \in s \cup {x} : lo2 <= y /\ y <= hi2
      BY <3>1, <3>2, <3>3, <3>4
    <3> QED
      BY <3>5
  <2> QED
    BY <2>1, <2>2
<1> HIDE DEF G
<1>3. S \in G
  BY <1>1, <1>2, SetInduction
<1> QED
  BY <1>3 DEF G
=============================================================================
