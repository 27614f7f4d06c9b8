------------------------- MODULE BillingCacheProofs --------------------------
(***************************************************************************)
(* The balance cache of the billing service and the circuit breaker in     *)
(* front of it, for every set of requests and handlers, every cost and     *)
(* balance, every threshold and number of probes.                          *)
(***************************************************************************)
EXTENDS BalanceCache, BillingBreaker, FiniteSetTheorems, TLAPS

(***************************************************************************)
(* Sums over finite sets                                                   *)
(***************************************************************************)
(* Every nonempty set of sets of excuses has a minimal member: the form in *)
(* which induction over finite sets is used below.                         *)
LEMMA Minimal ==
  ASSUME NEW F, F \subseteq SUBSET Excuses, F # {}
  PROVE  \E S \in F : \A T \in F : T \subseteq S => T = S
<1>1. IsFiniteSet(Excuses)
  BY CacheAssumption, FS_AddElement DEF Excuses
<1>2. IsWellFoundedOn(StrictSubsetOrdering(Excuses), SUBSET Excuses)
  BY <1>1, FS_FiniteSubsetsOfFinite, FS_StrictSubsetOrderingWellFounded
<1>3. \E S \in F : \A T \in F : ~(<<T, S>> \in StrictSubsetOrdering(Excuses))
  BY <1>2, WFMin
<1> QED
  BY <1>3 DEF StrictSubsetOrdering

(* The member of a set that a sum over the set takes first.                *)
AnyOf(s) == CHOOSE x \in s : TRUE

(* g adds up the amounts of every subset of S.                             *)
IsSum(g, S) ==
    g = [s \in SUBSET S |-> IF s = {} THEN 0
                            ELSE Amount(AnyOf(s)) + g[s \ {AnyOf(s)}]]

(* Total is such a sum.                                                    *)
LEMMA TotalIsSum == ASSUME NEW S PROVE Total(S) = (CHOOSE g : IsSum(g, S))[S]
  BY DEF Total, MapThenSumSet, MapThenFoldSet, IsSum, AnyOf

(* A sum at one of its sets: one member, and the sum of the others.        *)
LEMMA SumAt ==
  ASSUME NEW S, NEW g, IsSum(g, S), NEW s \in SUBSET S
  PROVE  g[s] = IF s = {} THEN 0 ELSE Amount(AnyOf(s)) + g[s \ {AnyOf(s)}]
  BY DEF IsSum

(* It is one of its members.                                               *)
LEMMA AnyOfIn == ASSUME NEW s, s # {} PROVE AnyOf(s) \in s
  BY DEF AnyOf

(* Two sums give a set they share the same value, whatever else they add:  *)
(* a smallest set on which they differ would have a smaller one.           *)
LEMMA SumsAgree ==
  ASSUME NEW S \in SUBSET Excuses, NEW T \in SUBSET Excuses, NEW g, NEW h,
         IsSum(g, S), IsSum(h, T),
         NEW u \in SUBSET (S \cap T)
  PROVE  g[u] = h[u]
<1> SUFFICES ASSUME g[u] # h[u] PROVE FALSE
  OBVIOUS
<1> DEFINE F == {s \in SUBSET (S \cap T) : g[s] # h[s]}
<1>1. PICK s \in F : \A t \in F : t \subseteq s => t = s
  <2>1. F \subseteq SUBSET Excuses
    OBVIOUS
  <2>2. u \in F
    OBVIOUS
  <2> HIDE DEF F
  <2> QED
    BY <2>1, <2>2, Minimal
<1>2. s \in SUBSET S /\ s \in SUBSET T /\ g[s] # h[s]
  OBVIOUS
<1>3. s # {}
  BY <1>2, SumAt
<1>4. AnyOf(s) \in s
  BY <1>3, AnyOfIn
<1>5. s \ {AnyOf(s)} \notin F
  BY <1>1, <1>4
<1>6. g[s \ {AnyOf(s)}] = h[s \ {AnyOf(s)}]
  BY <1>5
<1> QED
  BY <1>2, <1>3, <1>6, SumAt

(* Every set of excuses has a sum.                                         *)
LEMMA SumExists == ASSUME NEW S \in SUBSET Excuses PROVE \E g : IsSum(g, S)
<1> SUFFICES ASSUME ~\E g : IsSum(g, S) PROVE FALSE
  OBVIOUS
<1> DEFINE F == {s \in SUBSET Excuses : ~\E g : IsSum(g, s)}
<1>1. PICK s \in F : \A t \in F : t \subseteq s => t = s
  <2>1. F \subseteq SUBSET Excuses
    OBVIOUS
  <2>2. S \in F
    OBVIOUS
  <2> HIDE DEF F
  <2> QED
    BY <2>1, <2>2, Minimal
<1> DEFINE Sub(t) == CHOOSE g : IsSum(g, t)
<1>2. ASSUME NEW t \in SUBSET s, t # s PROVE IsSum(Sub(t), t) /\ Total(t) = Sub(t)[t]
  <2>1. t \notin F
    BY <1>1, <1>2
  <2>2. \E g : IsSum(g, t)
    BY <2>1
  <2>3. IsSum(Sub(t), t)
    BY <2>2
  <2> QED
    BY <2>3, TotalIsSum
<1> DEFINE h == [t \in SUBSET s |-> IF t = {} THEN 0
                                   ELSE Amount(AnyOf(t)) + Total(t \ {AnyOf(t)})]
<1>3. ASSUME NEW t \in SUBSET s, t # s PROVE h[t] = Total(t)
  <2>1. IsSum(Sub(t), t) /\ Total(t) = Sub(t)[t]
    BY <1>2, <1>3
  <2>2. CASE t = {}
    BY <2>1, <2>2, SumAt
  <2>3. CASE t # {}
    <3> DEFINE r == t \ {AnyOf(t)}
    <3>1. r \in SUBSET s /\ r # s /\ r \in SUBSET t
      BY <1>3, <2>3, AnyOfIn
    <3>2. IsSum(Sub(r), r) /\ Total(r) = Sub(r)[r]
      BY <1>2, <3>1
    <3>3. Sub(t)[r] = Sub(r)[r]
      <4>1. r \in SUBSET (t \cap r) /\ t \in SUBSET Excuses /\ r \in SUBSET Excuses
        BY <3>1
      <4> HIDE DEF r, Sub
      <4> QED
        BY <2>1, <3>2, <4>1, SumsAgree
    <3>4. Sub(t)[t] = Amount(AnyOf(t)) + Sub(t)[r]
      <4> HIDE DEF Sub
      <4> QED
        BY <2>1, <2>3, SumAt
    <3> HIDE DEF Sub
    <3> QED
      BY <2>1, <2>3, <3>2, <3>3, <3>4
  <2> QED
    BY <2>2, <2>3
<1>4. IsSum(h, s)
  <2>1. ASSUME NEW t \in SUBSET s, t # {}
        PROVE  h[t \ {AnyOf(t)}] = Total(t \ {AnyOf(t)})
    <3>1. AnyOf(t) \in t
      BY <2>1, AnyOfIn
    <3>2. t \ {AnyOf(t)} \in SUBSET s /\ t \ {AnyOf(t)} # s
      BY <3>1
    <3> HIDE DEF h
    <3> QED
      BY <1>3, <3>2
  <2> QED
    BY <2>1 DEF IsSum
<1>5. s \in F
  OBVIOUS
<1> HIDE DEF h
<1> QED
  BY <1>4, <1>5

(* The recursion that Total satisfies.                                     *)
LEMMA TotalRec ==
  ASSUME NEW S \in SUBSET Excuses
  PROVE  Total(S) = IF S = {} THEN 0 ELSE Amount(AnyOf(S)) + Total(S \ {AnyOf(S)})
<1> DEFINE Sub(t) == CHOOSE g : IsSum(g, t)
<1>1. ASSUME NEW t \in SUBSET Excuses PROVE IsSum(Sub(t), t) /\ Total(t) = Sub(t)[t]
  BY SumExists, TotalIsSum
<1> HIDE DEF Sub
<1>2. CASE S = {}
  BY <1>1, <1>2, SumAt
<1>3. CASE S # {}
  <2> DEFINE r == S \ {AnyOf(S)}
  <2>1. r \in SUBSET Excuses /\ r \in SUBSET (S \cap r)
    OBVIOUS
  <2>2. IsSum(Sub(r), r) /\ Total(r) = Sub(r)[r]
    BY <1>1, <2>1
  <2>3. IsSum(Sub(S), S) /\ Total(S) = Sub(S)[S]
    BY <1>1
  <2>4. Sub(S)[S] = Amount(AnyOf(S)) + Sub(S)[r]
    BY <2>3, <1>3, SumAt
  <2>5. Sub(S)[r] = Sub(r)[r]
    <3> HIDE DEF r
    <3> QED
      BY <2>1, <2>2, <2>3, SumsAgree
  <2> QED
    BY <1>3, <2>2, <2>3, <2>4, <2>5
<1> QED
  BY <1>2, <1>3

(* What a request costs and what a top-up brings is positive.              *)
LEMMA AmountType == ASSUME NEW x \in Excuses PROVE Amount(x) \in Nat /\ Amount(x) > 0
  BY CacheAssumption DEF Amount, Excuses

(* A total is a natural number.                                            *)
LEMMA TotalType == ASSUME NEW S \in SUBSET Excuses PROVE Total(S) \in Nat
<1> SUFFICES ASSUME Total(S) \notin Nat PROVE FALSE
  OBVIOUS
<1> DEFINE F == {s \in SUBSET Excuses : Total(s) \notin Nat}
<1>1. PICK s \in F : \A t \in F : t \subseteq s => t = s
  <2>1. F \subseteq SUBSET Excuses
    OBVIOUS
  <2>2. S \in F
    OBVIOUS
  <2> HIDE DEF F
  <2> QED
    BY <2>1, <2>2, Minimal
<1>2. s # {}
  <2>1. Total({}) = 0
    BY TotalRec
  <2> QED
    BY <2>1
<1>3. AnyOf(s) \in s
  BY <1>2, AnyOfIn
<1>4. Total(s \ {AnyOf(s)}) \in Nat
  BY <1>1, <1>3
<1>5. Amount(AnyOf(s)) \in Nat
  BY <1>3, AmountType
<1> QED
  BY <1>2, <1>4, <1>5, TotalRec

(* Taking one excuse away takes its amount away.                           *)
LEMMA TotalRemove ==
  ASSUME NEW S \in SUBSET Excuses, NEW x \in S
  PROVE  Total(S) = Amount(x) + Total(S \ {x})
<1> DEFINE Bad(s) == \E y \in s : Total(s) # Amount(y) + Total(s \ {y})
           F == {s \in SUBSET Excuses : Bad(s)}
<1> SUFFICES ASSUME Bad(S) PROVE FALSE
  OBVIOUS
<1>1. PICK s \in F : \A t \in F : t \subseteq s => t = s
  <2>1. F \subseteq SUBSET Excuses
    OBVIOUS
  <2>2. S \in F
    OBVIOUS
  <2> HIDE DEF F
  <2> QED
    BY <2>1, <2>2, Minimal
<1>2. PICK y \in s : Total(s) # Amount(y) + Total(s \ {y})
  OBVIOUS
<1> DEFINE z == AnyOf(s)
<1>3. z \in s /\ Total(s) = Amount(z) + Total(s \ {z})
  BY <1>2, AnyOfIn, TotalRec
<1>4. z # y
  BY <1>2, <1>3
<1> HIDE DEF z
<1>5. Total(s \ {z}) = Amount(y) + Total((s \ {z}) \ {y})
  <2>1. s \ {z} \in SUBSET Excuses /\ s \ {z} \notin F
    BY <1>1, <1>3
  <2> QED
    BY <1>4, <2>1
<1>6. Total(s \ {y}) = Amount(z) + Total((s \ {y}) \ {z})
  <2>1. s \ {y} \in SUBSET Excuses /\ s \ {y} \notin F
    BY <1>1, <1>2
  <2> QED
    BY <1>3, <1>4, <2>1
<1>7. (s \ {y}) \ {z} = (s \ {z}) \ {y}
  OBVIOUS
<1>8. /\ Amount(y) \in Nat /\ Amount(z) \in Nat
      /\ Total((s \ {z}) \ {y}) \in Nat
  <2>1. y \in Excuses /\ z \in Excuses /\ (s \ {z}) \ {y} \in SUBSET Excuses
    BY <1>3
  <2> QED
    BY <2>1, AmountType, TotalType
<1> QED
  BY <1>2, <1>3, <1>5, <1>6, <1>7, <1>8

(* Adding one excuse adds its amount.                                      *)
LEMMA TotalAdd ==
  ASSUME NEW S \in SUBSET Excuses, NEW x \in Excuses \ S
  PROVE  Total(S \cup {x}) = Amount(x) + Total(S)
<1>1. (S \cup {x}) \ {x} = S /\ S \cup {x} \in SUBSET Excuses /\ x \in S \cup {x}
  OBVIOUS
<1> QED
  BY <1>1, TotalRemove

(* More excuses, larger total.                                             *)
LEMMA TotalMonotone ==
  ASSUME NEW S \in SUBSET Excuses, NEW U \in SUBSET S
  PROVE  Total(U) <= Total(S)
<1> DEFINE Bad(s) == \E t \in SUBSET s : ~(Total(t) <= Total(s))
           F == {s \in SUBSET Excuses : Bad(s)}
<1> SUFFICES ASSUME Bad(S) PROVE FALSE
  OBVIOUS
<1>1. PICK s \in F : \A t \in F : t \subseteq s => t = s
  <2>1. F \subseteq SUBSET Excuses
    OBVIOUS
  <2>2. S \in F
    OBVIOUS
  <2> HIDE DEF F
  <2> QED
    BY <2>1, <2>2, Minimal
<1>2. PICK t \in SUBSET s : ~(Total(t) <= Total(s))
  OBVIOUS
<1>3. t # s
  BY <1>2, TotalType
<1>4. PICK y \in s : y \notin t
  BY <1>3
<1>5. s \ {y} \in SUBSET Excuses /\ s \ {y} \notin F /\ t \in SUBSET (s \ {y})
  BY <1>1, <1>4
<1>6. Total(t) <= Total(s \ {y})
  BY <1>5
<1>7. Total(s) = Amount(y) + Total(s \ {y})
  BY TotalRemove
<1>8. Amount(y) \in Nat /\ Total(s \ {y}) \in Nat /\ Total(t) \in Nat
  BY <1>5, AmountType, TotalType
<1> QED
  BY <1>2, <1>6, <1>7, <1>8
-----------------------------------------------------------------------------
(***************************************************************************)
(* How a loaded value and an entry may differ from the balance             *)
(***************************************************************************)
(* v was loaded with balance b + Total(M) - up: the charges of M and a     *)
(* top-up of up came later.                                                *)
LoadBy(M, up, v, e, b, U, t) ==
    /\ v = b + Total(M) - up
    /\ M \cap U = {}
    /\ up # 0 => "topUp" \in e /\ t # "no"

(* A loaded value and its excuses, when the balance is b, F are the        *)
(* charges in flight, U the requests not charged and t the top-up.         *)
LoadOK(v, e, b, F, U, t) ==
    /\ F \subseteq e
    /\ t = "committed" => "topUp" \in e
    /\ \E M \in SUBSET (e \cap Requests) : \E up \in {0, TopUpAmount} :
          LoadBy(M, up, v, e, b, U, t)

(* What the entry still lacks of a top-up that has not invalidated it.     *)
Awaited(t) == IF t = "committed" THEN TopUpAmount ELSE 0

(* An entry lacks the charges of M, has those of N twice, and is off by up *)
(* because of the top-up. A charge in flight is never lacking only.        *)
EntryBy(M, N, up, v, e, b, F, U, t) ==
    /\ v = b + Total(F) - Awaited(t) + Total(M) - Total(N) + up
    /\ M \cap F \subseteq N
    /\ M \cap U = {}
    /\ up # 0 => "topUp" \in e
    /\ t = "no" => up = 0
    /\ t = "committed" => up >= 0

(* The value v of an entry with excuses e, in the same situation.          *)
EntryOK(v, e, b, F, U, t) ==
    \E M \in SUBSET (e \cap Requests) : \E N \in SUBSET (e \cap Requests) :
    \E up \in {-TopUpAmount, 0, TopUpAmount} :
       EntryBy(M, N, up, v, e, b, F, U, t)

(* The situations the lemmas below are about.                              *)
Situation(e, b, F, U, t) ==
    /\ e \in SUBSET Excuses /\ b \in Int
    /\ F \in SUBSET Requests /\ U \in SUBSET Requests /\ F \cap U = {}
    /\ t \in {"no", "committed", "done"}

(* Totals over sets of requests.                                           *)
LEMMA RequestTotals ==
  ASSUME NEW S \in SUBSET Requests
  PROVE  /\ S \in SUBSET Excuses /\ Total(S) \in Nat
         /\ \A r \in Requests : Cost[r] \in Nat
         /\ \A r \in Requests \ S : Total(S \cup {r}) = Total(S) + Cost[r]
         /\ \A r \in S : Total(S \ {r}) = Total(S) - Cost[r]
<1>1. S \in SUBSET Excuses
  BY DEF Excuses
<1>2. \A r \in Requests : r \in Excuses /\ Amount(r) = Cost[r] /\ Cost[r] \in Nat
  BY CacheAssumption DEF Amount, Excuses
<1>3. Total(S) \in Nat
  BY <1>1, TotalType
<1>4. ASSUME NEW r \in Requests \ S PROVE Total(S \cup {r}) = Total(S) + Cost[r]
  <2>1. Total(S \cup {r}) = Amount(r) + Total(S)
    BY <1>1, <1>2, TotalAdd
  <2> QED
    BY <1>2, <1>3, <2>1
<1>5. ASSUME NEW r \in S PROVE Total(S \ {r}) = Total(S) - Cost[r]
  <2>1. Total(S) = Amount(r) + Total(S \ {r})
    BY <1>1, TotalRemove
  <2>2. Total(S \ {r}) \in Nat
    BY <1>1, TotalType
  <2> QED
    BY <1>2, <2>1, <2>2
<1> QED
  BY <1>1, <1>2, <1>3, <1>4, <1>5

(* A loaded value stays explained when charges settle and requests end.    *)
LEMMA LoadStays ==
  ASSUME NEW v, NEW e, NEW b, NEW F, NEW U, NEW t, LoadOK(v, e, b, F, U, t),
         NEW G \in SUBSET F, NEW W \in SUBSET U
  PROVE  LoadOK(v, e, b, G, W, t)
<1>1. PICK M \in SUBSET (e \cap Requests), up \in {0, TopUpAmount} :
        LoadBy(M, up, v, e, b, U, t)
  BY DEF LoadOK
<1>2. LoadBy(M, up, v, e, b, W, t)
  BY <1>1 DEF LoadBy
<1> QED
  BY <1>2 DEF LoadOK

(* A charge that a load missed becomes one of its excuses.                 *)
LEMMA LoadCharged ==
  ASSUME NEW v, NEW e, NEW b, NEW F, NEW U, NEW t, LoadOK(v, e, b, F, U, t),
         Situation(e, b, F, U, t), NEW r \in U
  PROVE  LoadOK(v, e \cup {r}, b - Cost[r], F \cup {r}, U \ {r}, t)
<1>1. PICK M \in SUBSET (e \cap Requests), up \in {0, TopUpAmount} :
        LoadBy(M, up, v, e, b, U, t)
  BY DEF LoadOK
<1>2. r \in Requests \ M /\ M \in SUBSET Requests
  BY <1>1 DEF LoadBy, Situation
<1>3. Total(M \cup {r}) = Total(M) + Cost[r] /\ Total(M) \in Nat /\ Cost[r] \in Nat
  BY <1>2, RequestTotals
<1>4. up \in Int
  BY CacheAssumption
<1>5. v = (b - Cost[r]) + Total(M \cup {r}) - up
  BY <1>1, <1>3, <1>4 DEF LoadBy, Situation
<1>6. LoadBy(M \cup {r}, up, v, e \cup {r}, b - Cost[r], U \ {r}, t)
  BY <1>1, <1>5 DEF LoadBy
<1>7. M \cup {r} \in SUBSET ((e \cup {r}) \cap Requests)
  BY <1>2
<1>8. F \cup {r} \subseteq e \cup {r} /\ (t = "committed" => "topUp" \in e \cup {r})
  BY DEF LoadOK
<1> QED
  BY <1>6, <1>7, <1>8 DEF LoadOK

(* So does a top-up.                                                       *)
LEMMA LoadToppedUp ==
  ASSUME NEW v, NEW e, NEW b \in Int, NEW F, NEW U, LoadOK(v, e, b, F, U, "no")
  PROVE  LoadOK(v, e \cup {"topUp"}, b + TopUpAmount, F, U, "committed")
<1>1. PICK M \in SUBSET (e \cap Requests), up \in {0, TopUpAmount} :
        LoadBy(M, up, v, e, b, U, "no")
  BY DEF LoadOK
<1>2. up = 0 /\ M \in SUBSET Requests
  BY <1>1 DEF LoadBy
<1>3. Total(M) \in Nat /\ TopUpAmount \in Nat
  BY <1>2, RequestTotals, CacheAssumption
<1>4. v = (b + TopUpAmount) + Total(M) - TopUpAmount
  BY <1>1, <1>2, <1>3 DEF LoadBy
<1>5. LoadBy(M, TopUpAmount, v, e \cup {"topUp"}, b + TopUpAmount, U, "committed")
  BY <1>1, <1>4 DEF LoadBy
<1>6. M \in SUBSET ((e \cup {"topUp"}) \cap Requests)
  OBVIOUS
<1>7. F \subseteq e \cup {"topUp"}
  BY DEF LoadOK
<1> QED
  BY <1>5, <1>6, <1>7 DEF LoadOK

(* The invalidation that follows leaves loaded values alone.               *)
LEMMA LoadInvalidated ==
  ASSUME NEW v, NEW e, NEW b, NEW F, NEW U, LoadOK(v, e, b, F, U, "committed")
  PROVE  LoadOK(v, e, b, F, U, "done")
<1>1. PICK M \in SUBSET (e \cap Requests), up \in {0, TopUpAmount} :
        LoadBy(M, up, v, e, b, U, "committed")
  BY DEF LoadOK
<1>2. LoadBy(M, up, v, e, b, U, "done")
  BY <1>1 DEF LoadBy
<1> QED
  BY <1>2 DEF LoadOK

(* What a load reads is the balance.                                       *)
LEMMA LoadFresh ==
  ASSUME NEW b \in Int, NEW F \in SUBSET Requests, NEW U, NEW t
  PROVE  LoadOK(b, F \cup (IF t = "committed" THEN {"topUp"} ELSE {}), b, F, U, t)
<1> DEFINE e == F \cup (IF t = "committed" THEN {"topUp"} ELSE {})
<1>1. Total({}) = 0
  BY TotalRec
<1>2. b = b + Total({}) - 0
  BY <1>1
<1>3. LoadBy({}, 0, b, e, b, U, t)
  BY <1>2 DEF LoadBy
<1>4. F \subseteq e /\ (t = "committed" => "topUp" \in e)
  OBVIOUS
<1> HIDE DEF e
<1>5. LoadOK(b, e, b, F, U, t)
  BY <1>3, <1>4 DEF LoadOK
<1> QED
  BY <1>5 DEF e

(* A stored load is an entry that has the charges now in flight twice.     *)
LEMMA LoadStored ==
  ASSUME NEW v, NEW e, NEW b, NEW F, NEW U, NEW t, LoadOK(v, e, b, F, U, t),
         Situation(e, b, F, U, t)
  PROVE  EntryOK(v, e, b, F, U, t)
<1>1. PICK M \in SUBSET (e \cap Requests), up \in {0, TopUpAmount} :
        LoadBy(M, up, v, e, b, U, t)
  BY DEF LoadOK
<1>2. F \in SUBSET (e \cap Requests)
  BY DEF LoadOK, Situation
<1>3. M \in SUBSET Requests /\ F \in SUBSET Requests
  BY <1>2
<1>4. Total(M) \in Nat /\ Total(F) \in Nat
  BY <1>3, RequestTotals
<1>5. TopUpAmount \in Nat \ {0} /\ up \in Nat /\ b \in Int
  BY CacheAssumption DEF Situation
<1>6. /\ Awaited(t) - up \in {-TopUpAmount, 0, TopUpAmount}
      /\ t = "no" => Awaited(t) - up = 0
      /\ t = "committed" => Awaited(t) - up >= 0
      /\ Awaited(t) - up # 0 => "topUp" \in e
  BY <1>1, <1>5 DEF Awaited, LoadBy, LoadOK
<1>7. v = b + Total(F) - Awaited(t) + Total(M) - Total(F) + (Awaited(t) - up)
  BY <1>1, <1>4, <1>5 DEF Awaited, LoadBy
<1>8. EntryBy(M, F, Awaited(t) - up, v, e, b, F, U, t)
  BY <1>1, <1>6, <1>7 DEF EntryBy, LoadBy
<1> QED
  BY <1>2, <1>6, <1>8 DEF EntryOK

(* An entry stays explained when requests end without a charge.            *)
LEMMA EntryStays ==
  ASSUME NEW v, NEW e, NEW b, NEW F, NEW U, NEW t, EntryOK(v, e, b, F, U, t),
         NEW W \in SUBSET U
  PROVE  EntryOK(v, e, b, F, W, t)
<1>1. PICK M \in SUBSET (e \cap Requests), N \in SUBSET (e \cap Requests),
           up \in {-TopUpAmount, 0, TopUpAmount} :
        EntryBy(M, N, up, v, e, b, F, U, t)
  BY DEF EntryOK
<1>2. EntryBy(M, N, up, v, e, b, F, W, t)
  BY <1>1 DEF EntryBy
<1> QED
  BY <1>2 DEF EntryOK

(* What all the following share: the numbers behind an entry are numbers.  *)
LEMMA EntryNumbers ==
  ASSUME NEW e, NEW b, NEW F, NEW U, NEW t, Situation(e, b, F, U, t),
         NEW M \in SUBSET (e \cap Requests), NEW N \in SUBSET (e \cap Requests),
         NEW up \in {-TopUpAmount, 0, TopUpAmount}
  PROVE  /\ Total(M) \in Nat /\ Total(N) \in Nat /\ Total(F) \in Nat
         /\ TopUpAmount \in Nat \ {0} /\ up \in Int /\ b \in Int
         /\ Awaited(t) \in Nat
<1>1. M \in SUBSET Requests /\ N \in SUBSET Requests /\ F \in SUBSET Requests
  BY DEF Situation
<1> QED
  BY <1>1, RequestTotals, CacheAssumption DEF Situation, Awaited

(* A charge is awaited by the entry.                                       *)
LEMMA EntryCharged ==
  ASSUME NEW v, NEW e, NEW b, NEW F, NEW U, NEW t, EntryOK(v, e, b, F, U, t),
         Situation(e, b, F, U, t), NEW r \in U
  PROVE  EntryOK(v, e, b - Cost[r], F \cup {r}, U \ {r}, t)
<1>1. PICK M \in SUBSET (e \cap Requests), N \in SUBSET (e \cap Requests),
           up \in {-TopUpAmount, 0, TopUpAmount} :
        EntryBy(M, N, up, v, e, b, F, U, t)
  BY DEF EntryOK
<1>2. r \in Requests \ F /\ F \in SUBSET Requests
  BY DEF Situation
<1>3. Total(F \cup {r}) = Total(F) + Cost[r] /\ Cost[r] \in Nat
  BY <1>2, RequestTotals
<1>4. v = (b - Cost[r]) + Total(F \cup {r}) - Awaited(t) + Total(M) - Total(N) + up
  BY <1>1, <1>3, EntryNumbers DEF EntryBy
<1>5. EntryBy(M, N, up, v, e, b - Cost[r], F \cup {r}, U \ {r}, t)
  BY <1>1, <1>4 DEF EntryBy
<1> QED
  BY <1>5 DEF EntryOK

(* Its deduction settles it.                                               *)
LEMMA EntryDeducted ==
  ASSUME NEW v, NEW e, NEW b, NEW F, NEW U, NEW t, EntryOK(v, e, b, F, U, t),
         Situation(e, b, F, U, t), NEW r \in F
  PROVE  EntryOK(v - Cost[r], e, b, F \ {r}, U, t)
<1>1. PICK M \in SUBSET (e \cap Requests), N \in SUBSET (e \cap Requests),
           up \in {-TopUpAmount, 0, TopUpAmount} :
        EntryBy(M, N, up, v, e, b, F, U, t)
  BY DEF EntryOK
<1>2. F \in SUBSET Requests
  BY DEF Situation
<1>3. Total(F \ {r}) = Total(F) - Cost[r] /\ Cost[r] \in Nat
  BY <1>2, RequestTotals
<1>4. v - Cost[r] = b + Total(F \ {r}) - Awaited(t) + Total(M) - Total(N) + up
  BY <1>1, <1>3, EntryNumbers DEF EntryBy
<1>5. EntryBy(M, N, up, v - Cost[r], e, b, F \ {r}, U, t)
  BY <1>1, <1>4 DEF EntryBy
<1> QED
  BY <1>5 DEF EntryOK

(* A lost deduction becomes an excuse: the entry lacks the charge, or no   *)
(* longer has it twice.                                                    *)
LEMMA EntryMissed ==
  ASSUME NEW v, NEW e, NEW b, NEW F, NEW U, NEW t, EntryOK(v, e, b, F, U, t),
         Situation(e, b, F, U, t), NEW r \in F
  PROVE  EntryOK(v, e \cup {r}, b, F \ {r}, U, t)
<1>1. PICK M \in SUBSET (e \cap Requests), N \in SUBSET (e \cap Requests),
           up \in {-TopUpAmount, 0, TopUpAmount} :
        EntryBy(M, N, up, v, e, b, F, U, t)
  BY DEF EntryOK
<1>2. F \in SUBSET Requests /\ N \in SUBSET Requests /\ M \in SUBSET Requests
      /\ r \in Requests
  BY DEF Situation
<1>3. Total(F \ {r}) = Total(F) - Cost[r] /\ Cost[r] \in Nat
  BY <1>2, RequestTotals
<1> DEFINE d == e \cup {r}
<1>4. /\ M \in SUBSET (d \cap Requests) /\ M \cup {r} \in SUBSET (d \cap Requests)
      /\ N \in SUBSET (d \cap Requests) /\ N \ {r} \in SUBSET (d \cap Requests)
      /\ up # 0 => "topUp" \in d
  BY <1>1, <1>2 DEF EntryBy
<1> HIDE DEF d
<1>5. CASE r \in N
  <2>1. Total(N \ {r}) = Total(N) - Cost[r]
    BY <1>2, <1>5, RequestTotals
  <2>2. v = b + Total(F \ {r}) - Awaited(t) + Total(M) - Total(N \ {r}) + up
    BY <1>1, <1>3, <2>1, EntryNumbers DEF EntryBy
  <2>3. EntryBy(M, N \ {r}, up, v, d, b, F \ {r}, U, t)
    BY <1>1, <1>4, <2>2 DEF EntryBy
  <2>4. EntryOK(v, d, b, F \ {r}, U, t)
    BY <1>4, <2>3 DEF EntryOK
  <2> QED
    BY <2>4 DEF d
<1>6. CASE r \notin N
  <2>1. r \in Requests \ M
    BY <1>1, <1>2, <1>6 DEF EntryBy
  <2>2. Total(M \cup {r}) = Total(M) + Cost[r]
    BY <1>2, <2>1, RequestTotals
  <2>3. v = b + Total(F \ {r}) - Awaited(t) + Total(M \cup {r}) - Total(N) + up
    BY <1>1, <1>3, <2>2, EntryNumbers DEF EntryBy
  <2>4. r \notin U
    BY DEF Situation
  <2>5. EntryBy(M \cup {r}, N, up, v, d, b, F \ {r}, U, t)
    BY <1>1, <1>4, <2>3, <2>4 DEF EntryBy
  <2>6. EntryOK(v, d, b, F \ {r}, U, t)
    BY <1>4, <2>5 DEF EntryOK
  <2> QED
    BY <2>6 DEF d
<1> QED
  BY <1>5, <1>6

(* A top-up is awaited by the entry.                                       *)
LEMMA EntryToppedUp ==
  ASSUME NEW v, NEW e, NEW b, NEW F, NEW U, EntryOK(v, e, b, F, U, "no"),
         Situation(e, b, F, U, "no")
  PROVE  EntryOK(v, e, b + TopUpAmount, F, U, "committed")
<1>1. PICK M \in SUBSET (e \cap Requests), N \in SUBSET (e \cap Requests),
           up \in {-TopUpAmount, 0, TopUpAmount} :
        EntryBy(M, N, up, v, e, b, F, U, "no")
  BY DEF EntryOK
<1>2. /\ Total(M) \in Nat /\ Total(N) \in Nat /\ Total(F) \in Nat
      /\ TopUpAmount \in Nat \ {0} /\ up = 0 /\ b \in Int
  BY <1>1, EntryNumbers DEF EntryBy
<1>3. v = (b + TopUpAmount) + Total(F) - Awaited("committed") + Total(M) - Total(N) + 0
  BY <1>1, <1>2 DEF EntryBy, Awaited
<1>4. EntryBy(M, N, 0, v, e, b + TopUpAmount, F, U, "committed")
  BY <1>1, <1>3 DEF EntryBy
<1> QED
  BY <1>4 DEF EntryOK

(* A lost invalidation becomes an excuse.                                  *)
LEMMA EntryNotInvalidated ==
  ASSUME NEW v, NEW e, NEW b, NEW F, NEW U, EntryOK(v, e, b, F, U, "committed"),
         Situation(e, b, F, U, "committed")
  PROVE  EntryOK(v, e \cup {"topUp"}, b, F, U, "done")
<1>1. PICK M \in SUBSET (e \cap Requests), N \in SUBSET (e \cap Requests),
           up \in {-TopUpAmount, 0, TopUpAmount} :
        EntryBy(M, N, up, v, e, b, F, U, "committed")
  BY DEF EntryOK
<1>2. /\ Total(M) \in Nat /\ Total(N) \in Nat /\ Total(F) \in Nat
      /\ TopUpAmount \in Nat \ {0} /\ up \in Int /\ b \in Int
  BY <1>1, EntryNumbers
<1>3. up - TopUpAmount \in {-TopUpAmount, 0, TopUpAmount}
  BY <1>1, <1>2 DEF EntryBy
<1>4. v = b + Total(F) - Awaited("done") + Total(M) - Total(N) + (up - TopUpAmount)
  BY <1>1, <1>2 DEF EntryBy, Awaited
<1>5. EntryBy(M, N, up - TopUpAmount, v, e \cup {"topUp"}, b, F, U, "done")
  BY <1>1, <1>4 DEF EntryBy
<1>6. /\ M \in SUBSET ((e \cup {"topUp"}) \cap Requests)
      /\ N \in SUBSET ((e \cup {"topUp"}) \cap Requests)
  OBVIOUS
<1> QED
  BY <1>3, <1>5, <1>6 DEF EntryOK

(* The excuses bound the error of an entry.                                *)
LEMMA EntryBound ==
  ASSUME NEW v, NEW e, NEW b, NEW F, NEW U, NEW t, EntryOK(v, e, b, F, U, t),
         Situation(e, b, F, U, t)
  PROVE  LET x == b + Total(F) - Awaited(t)
         IN  v - x <= Total(e) /\ x - v <= Total(e)
<1>1. PICK M \in SUBSET (e \cap Requests), N \in SUBSET (e \cap Requests),
           up \in {-TopUpAmount, 0, TopUpAmount} :
        EntryBy(M, N, up, v, e, b, F, U, t)
  BY DEF EntryOK
<1> DEFINE q == e \cap Requests
<1>2. q \in SUBSET Excuses /\ e \in SUBSET Excuses
  BY DEF Situation
<1>3. /\ Total(M) <= Total(q) /\ Total(N) <= Total(q) /\ Total(q) <= Total(e)
      /\ Total(q) \in Nat /\ Total(e) \in Nat
  <2>1. q \in SUBSET e
    OBVIOUS
  <2> HIDE DEF q
  <2>2. M \in SUBSET q /\ N \in SUBSET q
    BY DEF q
  <2> QED
    BY <1>2, <2>1, <2>2, TotalMonotone, TotalType
<1>4. "topUp" \in e => Total(e) = TopUpAmount + Total(q)
  <2>1. SUFFICES ASSUME "topUp" \in e PROVE Total(e) = TopUpAmount + Total(q)
    OBVIOUS
  <2>2. e \ {"topUp"} = q
    BY <1>2, CacheAssumption DEF Excuses
  <2>3. Total(e) = Amount("topUp") + Total(e \ {"topUp"})
    BY <1>2, <2>1, TotalRemove
  <2> QED
    BY <2>2, <2>3 DEF Amount
<1> HIDE DEF q
<1>5. /\ Total(M) \in Nat /\ Total(N) \in Nat /\ Total(F) \in Nat
      /\ TopUpAmount \in Nat \ {0} /\ up \in Int /\ b \in Int
      /\ Awaited(t) \in Nat
  BY EntryNumbers
<1> QED
  BY <1>1, <1>3, <1>4, <1>5 DEF EntryBy

-----------------------------------------------------------------------------
(***************************************************************************)
(* BalanceCache                                                            *)
(***************************************************************************)
(* Plain values, parts of TypeOK.                                          *)
ValuesOK ==
    /\ balance \in Int /\ cacheVal \in Int /\ flightVal \in Int
    /\ topUp \in {"no", "committed", "done"}
    /\ pc \in [Requests -> {"new", "joined", "forward", "refused", "charged", "sending",
                            "fallback", "queued", "done", "panicked"}]
    /\ flight \in {"none", "load", "loaded", "sending"}
    /\ excuse \subseteq Excuses /\ flightExcuse \subseteq Excuses
    /\ channel \in {"open", "stopping", "closed", "nil"}

(* The tasks in the channel, the last part of TypeOK.                      *)
TasksOK ==
    setTasks \subseteq [id : 1..Cardinality(Requests), val : Int,
                        excuse : SUBSET Excuses]

(* A request starts at most one load, so that ids of loads are bounded.    *)
LoadsOK ==
    /\ loads \in Nat
    /\ loads <= Cardinality({r \in Requests : pc[r] # "new"})
    /\ flight # "none" => loads > 0

(* What a change of the balance does to a task.                            *)
LEMMA TaskMissed ==
  ASSUME TasksOK, NEW x \in Excuses, NEW u,
         u \in {[t EXCEPT !.excuse = @ \cup {x}] : t \in setTasks}
  PROVE  \E t \in setTasks :
           /\ u.val = t.val /\ u.excuse = t.excuse \cup {x}
           /\ u \in [id : 1..Cardinality(Requests), val : Int, excuse : SUBSET Excuses]
<1>1. PICK t \in setTasks : u = [t EXCEPT !.excuse = @ \cup {x}]
  OBVIOUS
<1>2. t \in [id : 1..Cardinality(Requests), val : Int, excuse : SUBSET Excuses]
  BY DEF TasksOK
<1>3. u.val = t.val /\ u.excuse = t.excuse \cup {x}
  BY <1>1, <1>2
<1>4. u \in [id : 1..Cardinality(Requests), val : Int, excuse : SUBSET Excuses]
  BY <1>1, <1>2
<1> QED
  BY <1>3, <1>4

(* Every step keeps the plain values.                                      *)
LEMMA ValuesStep == ValuesOK /\ TasksOK /\ [Next]_vars => ValuesOK'
<1> SUFFICES ASSUME ValuesOK, TasksOK, [Next]_vars PROVE ValuesOK'
  OBVIOUS
<1> USE CacheAssumption DEF ValuesOK, Excuses
<1>1. ASSUME NEW r \in Requests, CacheHit(r) PROVE ValuesOK'
  BY <1>1 DEF CacheHit, To, Verdict, cache, load
<1>2. ASSUME NEW r \in Requests, CacheMiss(r) PROVE ValuesOK'
  BY <1>2 DEF CacheMiss, To, cache, load
<1>3. ASSUME NEW r \in Requests, ForwardFails(r) PROVE ValuesOK'
  BY <1>3 DEF ForwardFails, To, cache, load
<1>4. ASSUME NEW r \in Requests, Charge(r) PROVE ValuesOK'
  BY <1>4 DEF Charge, To, MissedBy, cache, load
<1>5. ASSUME NEW r \in Requests, DeductNotStopped(r) PROVE ValuesOK'
  BY <1>5 DEF DeductNotStopped, To, cache, load
<1>6. ASSUME NEW r \in Requests, SendRefused(r) PROVE ValuesOK'
  BY <1>6 DEF SendRefused, To, cache, load
<1>7. ASSUME NEW r \in Requests, SendQueued(r) PROVE ValuesOK'
  BY <1>7 DEF SendQueued, To, cache, load
<1>8. ASSUME NEW r \in Requests, SendPanics(r) PROVE ValuesOK'
  BY <1>8 DEF SendPanics, To, cache, load
<1>9. ASSUME NEW r \in Requests, Deduct(r) PROVE ValuesOK'
  <2>1. cacheVal' \in Int
    BY <1>9 DEF Deduct
  <2>2. excuse' \subseteq Excuses
    BY <1>9 DEF Deduct
  <2>3. pc' \in [Requests -> {"new", "joined", "forward", "refused", "charged", "sending",
                             "fallback", "queued", "done", "panicked"}]
    BY <1>9 DEF Deduct, To
  <2> QED
    BY <1>9, <2>1, <2>2, <2>3 DEF Deduct, load
<1>10. CASE LoadFromDB
  <2>1. InFlight \subseteq Requests
    BY DEF InFlight
  <2> QED
    BY <1>10, <2>1 DEF LoadFromDB, cache
<1>11. CASE LoadFails
  BY <1>11 DEF LoadFails, Joined, cache, load
<1>12. CASE SetNotStopped
  BY <1>12 DEF SetNotStopped, cache, load
<1>13. CASE SetDropped
  BY <1>13 DEF SetDropped, EndFlight, Joined, Verdict, cache, load
<1>14. CASE SetQueued
  BY <1>14 DEF SetQueued, EndFlight, Joined, Verdict, cache, load
<1>15. CASE SetPanics
  BY <1>15 DEF SetPanics, EndFlight, Joined, cache, load
<1>16. ASSUME NEW t \in setTasks, SetBalance(t) PROVE ValuesOK'
  <2>1. t.val \in Int /\ t.excuse \subseteq Excuses
    BY DEF TasksOK
  <2> QED
    BY <1>16, <2>1 DEF SetBalance, cache, load
<1>17. CASE TopUp
  BY <1>17 DEF TopUp, MissedBy, cache, load
<1>18. CASE Invalidate
  BY <1>18 DEF Invalidate, Drop, cache, load
<1>19. CASE Expire
  BY <1>19 DEF Expire, Drop, cache, load
<1>20. CASE StopStore
  BY <1>20 DEF StopStore, cache, load
<1>21. CASE StopClose
  BY <1>21 DEF StopClose, cache, load
<1>22. CASE StopDrained
  BY <1>22 DEF StopDrained, cache, load
<1>23. CASE UNCHANGED vars
  BY <1>23 DEF vars, cache, load
<1> QED
  BY <1>1, <1>2, <1>3, <1>4, <1>5, <1>6, <1>7, <1>8, <1>9, <1>10, <1>11, <1>12,
     <1>13, <1>14, <1>15, <1>16, <1>17, <1>18, <1>19, <1>20, <1>21, <1>22,
     <1>23 DEF Next, Flight

(* Every step keeps the tasks.                                             *)
LEMMA TasksStep == ValuesOK /\ TasksOK /\ LoadsOK /\ [Next]_vars => TasksOK'
<1> SUFFICES ASSUME ValuesOK, TasksOK, LoadsOK, [Next]_vars PROVE TasksOK'
  OBVIOUS
<1>1. ASSUME NEW r \in Requests, CacheHit(r) PROVE TasksOK'
  BY <1>1 DEF CacheHit, To, Verdict, TasksOK, load
<1>2. ASSUME NEW r \in Requests, CacheMiss(r) PROVE TasksOK'
  BY <1>2 DEF CacheMiss, To, TasksOK, load
<1>3. ASSUME NEW r \in Requests, ForwardFails(r) PROVE TasksOK'
  BY <1>3 DEF ForwardFails, To, TasksOK, load
<1>4. ASSUME NEW r \in Requests, Charge(r) PROVE TasksOK'
  <2>1. r \in Excuses
    BY DEF Excuses
  <2> QED
    BY <1>4, <2>1, TaskMissed DEF Charge, MissedBy, TasksOK
<1>5. ASSUME NEW r \in Requests, DeductNotStopped(r) PROVE TasksOK'
  BY <1>5 DEF DeductNotStopped, To, TasksOK, load
<1>6. ASSUME NEW r \in Requests, SendRefused(r) PROVE TasksOK'
  BY <1>6 DEF SendRefused, To, TasksOK, load
<1>7. ASSUME NEW r \in Requests, SendQueued(r) PROVE TasksOK'
  BY <1>7 DEF SendQueued, To, TasksOK, load
<1>8. ASSUME NEW r \in Requests, SendPanics(r) PROVE TasksOK'
  BY <1>8 DEF SendPanics, To, TasksOK, load
<1>9. ASSUME NEW r \in Requests, Deduct(r) PROVE TasksOK'
  BY <1>9 DEF Deduct, To, TasksOK, load
<1>10. CASE LoadFromDB
  BY <1>10 DEF LoadFromDB, TasksOK, load
<1>11. CASE LoadFails
  BY <1>11 DEF LoadFails, Joined, TasksOK, load
<1>12. CASE SetNotStopped
  BY <1>12 DEF SetNotStopped, TasksOK, load
<1>13. CASE SetDropped
  BY <1>13 DEF SetDropped, EndFlight, Joined, Verdict, TasksOK, load
<1>14. CASE SetQueued
  <2>1. loads \in 1..Cardinality(Requests)
    <3>1. IsFiniteSet(Requests) /\ {r \in Requests : pc[r] # "new"} \in SUBSET Requests
      BY CacheAssumption
    <3>2. /\ Cardinality({r \in Requests : pc[r] # "new"}) \in Nat
          /\ Cardinality(Requests) \in Nat
          /\ Cardinality({r \in Requests : pc[r] # "new"}) <= Cardinality(Requests)
      BY <3>1, FS_Subset, FS_CardinalityType
    <3>3. /\ loads \in Nat /\ loads > 0
          /\ loads <= Cardinality({r \in Requests : pc[r] # "new"})
      BY <1>14 DEF SetQueued, LoadsOK
    <3> QED
      BY <3>2, <3>3
  <2>2. [id |-> loads, val |-> flightVal, excuse |-> flightExcuse]
          \in [id : 1..Cardinality(Requests), val : Int, excuse : SUBSET Excuses]
    BY <2>1 DEF ValuesOK
  <2> QED
    BY <1>14, <2>2 DEF SetQueued, TasksOK
<1>15. CASE SetPanics
  BY <1>15 DEF SetPanics, EndFlight, Joined, TasksOK, load
<1>16. ASSUME NEW t \in setTasks, SetBalance(t) PROVE TasksOK'
  BY <1>16 DEF SetBalance, TasksOK, load
<1>17. CASE TopUp
  <2>1. "topUp" \in Excuses
    BY DEF Excuses
  <2> QED
    BY <1>17, <2>1, TaskMissed DEF TopUp, MissedBy, TasksOK
<1>18. CASE Invalidate
  BY <1>18 DEF Invalidate, Drop, TasksOK, load
<1>19. CASE Expire
  BY <1>19 DEF Expire, Drop, TasksOK, load
<1>20. CASE StopStore
  BY <1>20 DEF StopStore, TasksOK, load
<1>21. CASE StopClose
  BY <1>21 DEF StopClose, TasksOK, load
<1>22. CASE StopDrained
  BY <1>22 DEF StopDrained, TasksOK, load
<1>23. CASE UNCHANGED vars
  BY <1>23 DEF vars, TasksOK, load
<1> QED
  BY <1>1, <1>2, <1>3, <1>4, <1>5, <1>6, <1>7, <1>8, <1>9, <1>10, <1>11, <1>12,
     <1>13, <1>14, <1>15, <1>16, <1>17, <1>18, <1>19, <1>20, <1>21, <1>22,
     <1>23 DEF Next, Flight

(* A load is started by a request that stops being new.                    *)
LEMMA LoadsStep == ValuesOK /\ LoadsOK /\ [Next]_vars => LoadsOK'
<1> SUFFICES ASSUME ValuesOK, LoadsOK, [Next]_vars PROVE LoadsOK'
  OBVIOUS
<1> DEFINE old == {r \in Requests : pc[r] # "new"}
<1>a. IsFiniteSet(Requests) /\ old \in SUBSET Requests /\ old' \in SUBSET Requests
  BY CacheAssumption
<1>b. /\ IsFiniteSet(old) /\ Cardinality(old) \in Nat
      /\ IsFiniteSet(old') /\ Cardinality(old') \in Nat
  BY <1>a, FS_Subset, FS_CardinalityType
(* Any other step: no load starts, and no request becomes new again.       *)
<1>c. ASSUME old \subseteq old', loads' = loads,
             flight' # "none" => flight # "none"
      PROVE  LoadsOK'
  <2>1. Cardinality(old) <= Cardinality(old')
    BY <1>b, <1>c, FS_Subset
  <2> QED
    BY <1>b, <1>c, <2>1 DEF LoadsOK
<1>1. ASSUME NEW r \in Requests, CacheHit(r) PROVE LoadsOK'
  BY <1>c, <1>1 DEF CacheHit, To, Verdict, load, ValuesOK
<1>2. ASSUME NEW r \in Requests, CacheMiss(r) PROVE LoadsOK'
  <2>1. r \notin old /\ old' = old \cup {r}
    BY <1>2 DEF CacheMiss, To, ValuesOK
  <2>2. Cardinality(old') = Cardinality(old) + 1
    BY <1>b, <2>1, FS_AddElement
  <2> HIDE DEF old
  <2>3. loads' \in {loads, loads + 1} /\ (flight' # "none" => loads' > 0)
    BY <1>2 DEF CacheMiss, LoadsOK
  <2>4. loads <= Cardinality(old) /\ loads \in Nat
    BY DEF LoadsOK, old
  <2>5. loads' \in Nat /\ loads' <= Cardinality(old')
    BY <1>b, <2>2, <2>3, <2>4
  <2> QED
    BY <2>3, <2>5 DEF LoadsOK, old
<1>3. ASSUME NEW r \in Requests, ForwardFails(r) PROVE LoadsOK'
  BY <1>c, <1>3 DEF ForwardFails, To, load, ValuesOK
<1>4. ASSUME NEW r \in Requests, Charge(r) PROVE LoadsOK'
  BY <1>c, <1>4 DEF Charge, To, MissedBy, load, ValuesOK
<1>5. ASSUME NEW r \in Requests, DeductNotStopped(r) PROVE LoadsOK'
  BY <1>c, <1>5 DEF DeductNotStopped, To, load, ValuesOK
<1>6. ASSUME NEW r \in Requests, SendRefused(r) PROVE LoadsOK'
  BY <1>c, <1>6 DEF SendRefused, To, load, ValuesOK
<1>7. ASSUME NEW r \in Requests, SendQueued(r) PROVE LoadsOK'
  BY <1>c, <1>7 DEF SendQueued, To, load, ValuesOK
<1>8. ASSUME NEW r \in Requests, SendPanics(r) PROVE LoadsOK'
  BY <1>c, <1>8 DEF SendPanics, To, load, ValuesOK
<1>9. ASSUME NEW r \in Requests, Deduct(r) PROVE LoadsOK'
  BY <1>c, <1>9 DEF Deduct, To, load, ValuesOK
<1>10. CASE LoadFromDB
  BY <1>c, <1>10 DEF LoadFromDB, load, ValuesOK
<1>11. CASE LoadFails
  BY <1>c, <1>11 DEF LoadFails, Joined, load, ValuesOK
<1>12. CASE SetNotStopped
  BY <1>c, <1>12 DEF SetNotStopped, load, ValuesOK
<1>13. CASE SetDropped
  BY <1>c, <1>13 DEF SetDropped, EndFlight, Joined, Verdict, load, ValuesOK
<1>14. CASE SetQueued
  BY <1>c, <1>14 DEF SetQueued, EndFlight, Joined, Verdict, load, ValuesOK
<1>15. CASE SetPanics
  BY <1>c, <1>15 DEF SetPanics, EndFlight, Joined, load, ValuesOK
<1>16. ASSUME NEW t \in setTasks, SetBalance(t) PROVE LoadsOK'
  BY <1>c, <1>16 DEF SetBalance, load, ValuesOK
<1>17. CASE TopUp
  BY <1>c, <1>17 DEF TopUp, MissedBy, load, ValuesOK
<1>18. CASE Invalidate
  BY <1>c, <1>18 DEF Invalidate, Drop, load, ValuesOK
<1>19. CASE Expire
  BY <1>c, <1>19 DEF Expire, Drop, load, ValuesOK
<1>20. CASE StopStore
  BY <1>c, <1>20 DEF StopStore, load, ValuesOK
<1>21. CASE StopClose
  BY <1>c, <1>21 DEF StopClose, load, ValuesOK
<1>22. CASE StopDrained
  BY <1>c, <1>22 DEF StopDrained, load, ValuesOK
<1>23. CASE UNCHANGED vars
  BY <1>c, <1>23 DEF vars, load
<1> QED
  BY <1>1, <1>2, <1>3, <1>4, <1>5, <1>6, <1>7, <1>8, <1>9, <1>10, <1>11, <1>12,
     <1>13, <1>14, <1>15, <1>16, <1>17, <1>18, <1>19, <1>20, <1>21, <1>22,
     <1>23 DEF Next, Flight

(* Type correctness.                                                       *)
LEMMA BalanceTypes == Spec => [](ValuesOK /\ TasksOK /\ LoadsOK)
<1>1. Init => ValuesOK /\ TasksOK /\ LoadsOK
  <2>1. Init => {r \in Requests : pc[r] # "new"} = {}
    BY DEF Init
  <2>2. Init => ValuesOK /\ TasksOK
    BY CacheAssumption DEF Init, ValuesOK, TasksOK
  <2> QED
    BY <2>1, <2>2, FS_EmptySet DEF Init, LoadsOK
<1>2. ValuesOK /\ TasksOK /\ LoadsOK /\ [Next]_vars
        => (ValuesOK /\ TasksOK /\ LoadsOK)'
  BY ValuesStep, TasksStep, LoadsStep
<1> QED
  BY <1>1, <1>2, PTL DEF Spec

(* Types of the balance cache. A request misses at most once, so there are *)
(* never more loads than requests: the joined ones share a load, and one that*)
(* fails refuses them (GetUserBalance) instead of trying again.            *)
THEOREM BalanceTypeCorrect == Spec => []TypeOK
<1>1. Init => cached \in BOOLEAN
  BY Zenon DEF Init
<1>2. cached \in BOOLEAN /\ [Next]_vars => (cached \in BOOLEAN)'
  BY Zenon DEF Next, Flight, vars, cache, CacheHit, CacheMiss, ForwardFails,
     Charge, DeductNotStopped, SendRefused, SendQueued, SendPanics, Deduct,
     LoadFromDB, LoadFails, SetNotStopped, SetDropped, SetQueued, SetPanics,
     EndFlight, SetBalance, TopUp, Invalidate, Expire, Drop, StopStore,
     StopClose, StopDrained
<1>3. ValuesOK /\ TasksOK /\ LoadsOK /\ cached \in BOOLEAN => TypeOK
  <2> SUFFICES ASSUME ValuesOK, TasksOK, LoadsOK, cached \in BOOLEAN PROVE TypeOK
    OBVIOUS
  <2>1. /\ Cardinality({r \in Requests : pc[r] # "new"}) \in Nat
        /\ Cardinality(Requests) \in Nat
        /\ Cardinality({r \in Requests : pc[r] # "new"}) <= Cardinality(Requests)
    <3>1. IsFiniteSet(Requests) /\ {r \in Requests : pc[r] # "new"} \in SUBSET Requests
      BY CacheAssumption
    <3> QED
      BY <3>1, FS_Subset, FS_CardinalityType
  <2>2. loads \in 0..Cardinality(Requests)
    BY <2>1 DEF LoadsOK
  <2> QED
    BY <2>2 DEF ValuesOK, TasksOK, TypeOK
<1> QED
  BY <1>1, <1>2, <1>3, BalanceTypes, PTL DEF Spec

-----------------------------------------------------------------------------
(* Requests that have not been charged.                                    *)
Unpaid == {r \in Requests : pc[r] \in {"new", "joined", "forward"}}

(* Loads in progress, and tasks with what an earlier load read, are        *)
(* explained.                                                              *)
LoadInv ==
    /\ flight \in {"loaded", "sending"} =>
          LoadOK(flightVal, flightExcuse, balance, InFlight, Unpaid, topUp)
    /\ \A t \in setTasks :
          LoadOK(t.val, t.excuse, balance, InFlight, Unpaid, topUp)

(* So is the entry itself.                                                 *)
EntryInv ==
    cached => EntryOK(cacheVal, excuse, balance, InFlight, Unpaid, topUp)

(* Steps that neither change the balance nor settle a charge.              *)
Quiet ==
    /\ balance' = balance /\ topUp' = topUp
    /\ InFlight' = InFlight /\ Unpaid' \subseteq Unpaid

(* r's charge is no longer in flight.                                      *)
Settles(r) ==
    /\ balance' = balance /\ topUp' = topUp
    /\ r \in InFlight /\ InFlight' = InFlight \ {r} /\ Unpaid' = Unpaid

(* The facts the lemmas above ask for.                                     *)
LEMMA InSituation ==
  ASSUME ValuesOK, NEW e \in SUBSET Excuses
  PROVE  Situation(e, balance, InFlight, Unpaid, topUp)
  BY DEF ValuesOK, Situation, InFlight, Unpaid

(* Which steps are quiet.                                                  *)
LEMMA QuietSteps ==
  ASSUME ValuesOK,
         \/ \E r \in Requests :
               \/ CacheHit(r) \/ CacheMiss(r) \/ ForwardFails(r)
               \/ DeductNotStopped(r) \/ SendRefused(r) \/ SendQueued(r)
         \/ Flight
         \/ \E t \in setTasks : SetBalance(t)
         \/ Expire \/ StopStore \/ StopClose \/ StopDrained
         \/ UNCHANGED vars
  PROVE  Quiet
<1> USE DEF ValuesOK, Quiet, InFlight, Unpaid
<1>1. ASSUME NEW r \in Requests, CacheHit(r) PROVE Quiet
  BY <1>1 DEF CacheHit, To, Verdict
<1>2. ASSUME NEW r \in Requests, CacheMiss(r) PROVE Quiet
  BY <1>2 DEF CacheMiss, To
<1>3. ASSUME NEW r \in Requests, ForwardFails(r) PROVE Quiet
  BY <1>3 DEF ForwardFails, To
<1>4. ASSUME NEW r \in Requests, DeductNotStopped(r) PROVE Quiet
  BY <1>4 DEF DeductNotStopped, To
<1>5. ASSUME NEW r \in Requests, SendRefused(r) PROVE Quiet
  BY <1>5 DEF SendRefused, To
<1>6. ASSUME NEW r \in Requests, SendQueued(r) PROVE Quiet
  BY <1>6 DEF SendQueued, To
<1>7. ASSUME LoadFromDB PROVE Quiet
  BY <1>7 DEF LoadFromDB
<1>8. ASSUME LoadFails PROVE Quiet
  BY <1>8 DEF LoadFails, Joined
<1>9. ASSUME SetNotStopped PROVE Quiet
  BY <1>9 DEF SetNotStopped
<1>10. ASSUME SetDropped PROVE Quiet
  BY <1>10 DEF SetDropped, EndFlight, Joined, Verdict
<1>11. ASSUME SetQueued PROVE Quiet
  BY <1>11 DEF SetQueued, EndFlight, Joined, Verdict
<1>12. ASSUME SetPanics PROVE Quiet
  BY <1>12 DEF SetPanics, EndFlight, Joined
<1>13. ASSUME NEW t \in setTasks, SetBalance(t) PROVE Quiet
  BY <1>13 DEF SetBalance
<1>14. ASSUME Expire PROVE Quiet
  BY <1>14 DEF Expire, Drop
<1>15. ASSUME StopStore PROVE Quiet
  BY <1>15 DEF StopStore
<1>16. ASSUME StopClose PROVE Quiet
  BY <1>16 DEF StopClose
<1>17. ASSUME StopDrained PROVE Quiet
  BY <1>17 DEF StopDrained
<1>18. ASSUME UNCHANGED vars PROVE Quiet
  BY <1>18 DEF vars
<1> QED
  BY <1>1, <1>2, <1>3, <1>4, <1>5, <1>6, <1>7, <1>8, <1>9, <1>10, <1>11, <1>12,
     <1>13, <1>14, <1>15, <1>16, <1>17, <1>18 DEF Flight

(* Which steps settle a charge.                                            *)
LEMMA SettlingSteps ==
  ASSUME ValuesOK, NEW r \in Requests, SendPanics(r) \/ Deduct(r)
  PROVE  Settles(r)
<1> USE DEF ValuesOK, Settles, InFlight, Unpaid, To
<1>1. CASE SendPanics(r)
  BY <1>1 DEF SendPanics
<1>2. CASE Deduct(r)
  BY <1>2 DEF Deduct
<1> QED
  BY <1>1, <1>2

(* What a charge does.                                                     *)
LEMMA ChargingStep ==
  ASSUME ValuesOK, NEW r \in Requests, Charge(r)
  PROVE  /\ r \in Unpaid /\ balance' = balance - Cost[r] /\ topUp' = topUp
         /\ InFlight' = InFlight \cup {r} /\ Unpaid' = Unpaid \ {r}
  BY DEF ValuesOK, Charge, To, InFlight, Unpaid

(* Loads and tasks that a step leaves alone stay explained when it is      *)
(* quiet or settles a charge.                                              *)
LEMMA LoadsKept ==
  ASSUME LoadInv, NEW v, NEW e, LoadOK(v, e, balance, InFlight, Unpaid, topUp),
         Quiet \/ \E r \in Requests : Settles(r)
  PROVE  LoadOK(v, e, balance', InFlight', Unpaid', topUp')
<1>1. balance' = balance /\ topUp' = topUp
  BY DEF Quiet, Settles
<1>2. InFlight' \in SUBSET InFlight /\ Unpaid' \in SUBSET Unpaid
  BY DEF Quiet, Settles
<1> QED
  BY <1>1, <1>2, LoadStays

(* Every step keeps loads and tasks explained.                             *)
LEMMA LoadInvStep == ValuesOK /\ TasksOK /\ LoadInv /\ [Next]_vars => LoadInv'
<1> SUFFICES ASSUME ValuesOK, TasksOK, LoadInv, [Next]_vars PROVE LoadInv'
  OBVIOUS
(* Steps that add no task and change no load.                              *)
<1>a. ASSUME Quiet \/ \E r \in Requests : Settles(r),
             setTasks' \subseteq setTasks,
             flight' \in {"loaded", "sending"} =>
               /\ flight \in {"loaded", "sending"}
               /\ flightVal' = flightVal /\ flightExcuse' = flightExcuse
      PROVE  LoadInv'
  <2>1. ASSUME flight' \in {"loaded", "sending"}
        PROVE  LoadOK(flightVal', flightExcuse', balance', InFlight', Unpaid', topUp')
    BY <1>a, <2>1, LoadsKept DEF LoadInv
  <2>2. ASSUME NEW t \in setTasks'
        PROVE  LoadOK(t.val, t.excuse, balance', InFlight', Unpaid', topUp')
    BY <1>a, LoadsKept DEF LoadInv
  <2> QED
    BY <2>1, <2>2 DEF LoadInv
<1>1. ASSUME NEW r \in Requests, CacheHit(r) PROVE LoadInv'
  <2>1. Quiet
    BY <1>1, QuietSteps
  <2> QED
    BY <1>a, <1>1, <2>1 DEF CacheHit, load
<1>2. ASSUME NEW r \in Requests, CacheMiss(r) PROVE LoadInv'
  <2>1. Quiet
    BY <1>2, QuietSteps
  <2> QED
    BY <1>a, <1>2, <2>1 DEF CacheMiss, load
<1>3. ASSUME NEW r \in Requests, ForwardFails(r) PROVE LoadInv'
  <2>1. Quiet
    BY <1>3, QuietSteps
  <2> QED
    BY <1>a, <1>3, <2>1 DEF ForwardFails, load
<1>4. ASSUME NEW r \in Requests, Charge(r) PROVE LoadInv'
  <2>1. /\ r \in Unpaid /\ balance' = balance - Cost[r] /\ topUp' = topUp
        /\ InFlight' = InFlight \cup {r} /\ Unpaid' = Unpaid \ {r}
        /\ flightExcuse \in SUBSET Excuses
    BY <1>4, ChargingStep DEF ValuesOK
  <2>2. ASSUME NEW v, NEW e \in SUBSET Excuses,
               LoadOK(v, e, balance, InFlight, Unpaid, topUp)
        PROVE  LoadOK(v, e \cup {r}, balance', InFlight', Unpaid', topUp')
    BY <2>1, <2>2, InSituation, LoadCharged
  <2>3. ASSUME flight' \in {"loaded", "sending"}
        PROVE  LoadOK(flightVal', flightExcuse', balance', InFlight', Unpaid', topUp')
    <3>1. /\ flight \in {"loaded", "sending"} /\ flightVal' = flightVal
          /\ flightExcuse' = flightExcuse \cup {r}
      BY <1>4, <2>3 DEF Charge, MissedBy
    <3>2. LoadOK(flightVal, flightExcuse, balance, InFlight, Unpaid, topUp)
      BY <3>1 DEF LoadInv
    <3> QED
      BY <2>1, <2>2, <3>1, <3>2
  <2>4. ASSUME NEW u \in setTasks'
        PROVE  LoadOK(u.val, u.excuse, balance', InFlight', Unpaid', topUp')
    <3>1. PICK t \in setTasks : u.val = t.val /\ u.excuse = t.excuse \cup {r}
      <4>1. r \in Excuses
        BY DEF Excuses
      <4> QED
        BY <1>4, <4>1, TaskMissed DEF Charge, MissedBy
    <3>2. LoadOK(t.val, t.excuse, balance, InFlight, Unpaid, topUp)
      BY DEF LoadInv
    <3>3. t.excuse \in SUBSET Excuses
      BY DEF TasksOK
    <3> QED
      BY <2>1, <2>2, <3>1, <3>2, <3>3
  <2> QED
    BY <2>3, <2>4 DEF LoadInv
<1>5. ASSUME NEW r \in Requests, DeductNotStopped(r) PROVE LoadInv'
  <2>1. Quiet
    BY <1>5, QuietSteps
  <2> QED
    BY <1>a, <1>5, <2>1 DEF DeductNotStopped, load
<1>6. ASSUME NEW r \in Requests, SendRefused(r) PROVE LoadInv'
  <2>1. Quiet
    BY <1>6, QuietSteps
  <2> QED
    BY <1>a, <1>6, <2>1 DEF SendRefused, load
<1>7. ASSUME NEW r \in Requests, SendQueued(r) PROVE LoadInv'
  <2>1. Quiet
    BY <1>7, QuietSteps
  <2> QED
    BY <1>a, <1>7, <2>1 DEF SendQueued, load
<1>8. ASSUME NEW r \in Requests, SendPanics(r) PROVE LoadInv'
  <2>1. Settles(r)
    BY <1>8, SettlingSteps
  <2> QED
    BY <1>a, <1>8, <2>1 DEF SendPanics, load
<1>9. ASSUME NEW r \in Requests, Deduct(r) PROVE LoadInv'
  <2>1. Settles(r)
    BY <1>9, SettlingSteps
  <2> QED
    BY <1>a, <1>9, <2>1 DEF Deduct, load
<1>10. CASE LoadFromDB
  <2>1. Quiet
    BY <1>10, QuietSteps DEF Flight
  <2>2. InFlight \in SUBSET Requests /\ balance \in Int
    BY DEF InFlight, ValuesOK
  <2>3. LoadOK(flightVal', flightExcuse', balance, InFlight, Unpaid, topUp)
    BY <1>10, <2>2, LoadFresh DEF LoadFromDB
  <2>4. LoadOK(flightVal', flightExcuse', balance', InFlight', Unpaid', topUp')
    BY <2>1, <2>3, LoadsKept
  <2>5. ASSUME NEW t \in setTasks'
        PROVE  LoadOK(t.val, t.excuse, balance', InFlight', Unpaid', topUp')
    BY <1>10, <2>1, LoadsKept DEF LoadInv, LoadFromDB
  <2> QED
    BY <2>4, <2>5 DEF LoadInv
<1>11. CASE LoadFails
  <2>1. Quiet
    BY <1>11, QuietSteps DEF Flight
  <2> QED
    BY <1>a, <1>11, <2>1 DEF LoadFails, load
<1>12. CASE SetNotStopped
  <2>1. Quiet
    BY <1>12, QuietSteps DEF Flight
  <2> QED
    BY <1>a, <1>12, <2>1 DEF SetNotStopped, load
<1>13. CASE SetDropped
  <2>1. Quiet
    BY <1>13, QuietSteps DEF Flight
  <2> QED
    BY <1>a, <1>13, <2>1 DEF SetDropped, EndFlight, load
<1>14. CASE SetQueued
  <2>1. Quiet
    BY <1>14, QuietSteps DEF Flight
  <2>2. LoadOK(flightVal, flightExcuse, balance, InFlight, Unpaid, topUp)
    BY <1>14 DEF SetQueued, LoadInv
  <2> DEFINE q == [id |-> loads, val |-> flightVal, excuse |-> flightExcuse]
  <2>3. LoadOK(q.val, q.excuse, balance, InFlight, Unpaid, topUp)
    BY <2>2
  <2>4. setTasks' = setTasks \cup {q} /\ flight' = "none"
    BY <1>14 DEF SetQueued, EndFlight
  <2> HIDE DEF q
  <2>5. ASSUME NEW t \in setTasks'
        PROVE  LoadOK(t.val, t.excuse, balance', InFlight', Unpaid', topUp')
    BY <2>1, <2>3, <2>4, LoadsKept DEF LoadInv
  <2> QED
    BY <2>4, <2>5 DEF LoadInv
<1>15. CASE SetPanics
  <2>1. Quiet
    BY <1>15, QuietSteps DEF Flight
  <2> QED
    BY <1>a, <1>15, <2>1 DEF SetPanics, EndFlight, load
<1>16. ASSUME NEW t \in setTasks, SetBalance(t) PROVE LoadInv'
  <2>1. Quiet
    BY <1>16, QuietSteps
  <2> QED
    BY <1>a, <1>16, <2>1 DEF SetBalance, load
<1>17. CASE TopUp
  <2>1. /\ topUp = "no" /\ topUp' = "committed" /\ balance' = balance + TopUpAmount
        /\ InFlight' = InFlight /\ Unpaid' = Unpaid /\ balance \in Int
        /\ flightExcuse \in SUBSET Excuses
    BY <1>17 DEF TopUp, ValuesOK, InFlight, Unpaid
  <2>2. ASSUME NEW v, NEW e \in SUBSET Excuses,
               LoadOK(v, e, balance, InFlight, Unpaid, topUp)
        PROVE  LoadOK(v, e \cup {"topUp"}, balance', InFlight', Unpaid', topUp')
    BY <2>1, <2>2, LoadToppedUp
  <2>3. ASSUME flight' \in {"loaded", "sending"}
        PROVE  LoadOK(flightVal', flightExcuse', balance', InFlight', Unpaid', topUp')
    <3>1. /\ flight \in {"loaded", "sending"} /\ flightVal' = flightVal
          /\ flightExcuse' = flightExcuse \cup {"topUp"}
      BY <1>17, <2>3 DEF TopUp, MissedBy
    <3>2. LoadOK(flightVal, flightExcuse, balance, InFlight, Unpaid, topUp)
      BY <3>1 DEF LoadInv
    <3> QED
      BY <2>1, <2>2, <3>1, <3>2
  <2>4. ASSUME NEW u \in setTasks'
        PROVE  LoadOK(u.val, u.excuse, balance', InFlight', Unpaid', topUp')
    <3>1. PICK t \in setTasks : u.val = t.val /\ u.excuse = t.excuse \cup {"topUp"}
      <4>1. "topUp" \in Excuses
        BY DEF Excuses
      <4> QED
        BY <1>17, <4>1, TaskMissed DEF TopUp, MissedBy
    <3>2. LoadOK(t.val, t.excuse, balance, InFlight, Unpaid, topUp)
      BY DEF LoadInv
    <3>3. t.excuse \in SUBSET Excuses
      BY DEF TasksOK
    <3> QED
      BY <2>1, <2>2, <3>1, <3>2, <3>3
  <2> QED
    BY <2>3, <2>4 DEF LoadInv
<1>18. CASE Invalidate
  <2>1. /\ topUp = "committed" /\ topUp' = "done" /\ balance' = balance
        /\ InFlight' = InFlight /\ Unpaid' = Unpaid
    BY <1>18 DEF Invalidate, InFlight, Unpaid
  <2>2. ASSUME NEW v, NEW e, LoadOK(v, e, balance, InFlight, Unpaid, topUp)
        PROVE  LoadOK(v, e, balance', InFlight', Unpaid', topUp')
    BY <2>1, <2>2, LoadInvalidated
  <2>3. UNCHANGED <<flight, flightVal, flightExcuse, setTasks>>
    BY <1>18 DEF Invalidate, load
  <2> QED
    BY <2>2, <2>3 DEF LoadInv
<1>19. CASE Expire
  <2>1. Quiet
    BY <1>19, QuietSteps
  <2> QED
    BY <1>a, <1>19, <2>1 DEF Expire, load
<1>20. CASE StopStore
  <2>1. Quiet
    BY <1>20, QuietSteps
  <2> QED
    BY <1>a, <1>20, <2>1 DEF StopStore, load
<1>21. CASE StopClose
  <2>1. Quiet
    BY <1>21, QuietSteps
  <2> QED
    BY <1>a, <1>21, <2>1 DEF StopClose, load
<1>22. CASE StopDrained
  <2>1. Quiet
    BY <1>22, QuietSteps
  <2> QED
    BY <1>a, <1>22, <2>1 DEF StopDrained, load
<1>23. CASE UNCHANGED vars
  <2>1. Quiet
    BY <1>23, QuietSteps
  <2> QED
    BY <1>a, <1>23, <2>1 DEF vars, load
<1> QED
  BY <1>1, <1>2, <1>3, <1>4, <1>5, <1>6, <1>7, <1>8, <1>9, <1>10, <1>11, <1>12,
     <1>13, <1>14, <1>15, <1>16, <1>17, <1>18, <1>19, <1>20, <1>21, <1>22,
     <1>23 DEF Next, Flight

(* Every step keeps the entry explained.                                   *)
LEMMA EntryInvStep ==
    ValuesOK /\ TasksOK /\ LoadInv /\ EntryInv /\ [Next]_vars => EntryInv'
<1> SUFFICES ASSUME ValuesOK, TasksOK, LoadInv, EntryInv, [Next]_vars, cached'
             PROVE  EntryOK(cacheVal', excuse', balance', InFlight', Unpaid', topUp')
  BY DEF EntryInv
<1>s. ASSUME NEW e \in SUBSET Excuses
      PROVE  Situation(e, balance, InFlight, Unpaid, topUp)
  BY InSituation
<1>e. excuse \in SUBSET Excuses
  BY DEF ValuesOK
(* Quiet steps that leave the entry alone.                                 *)
<1>a. ASSUME Quiet, UNCHANGED cache
      PROVE  EntryOK(cacheVal', excuse', balance', InFlight', Unpaid', topUp')
  <2>1. /\ cached /\ cacheVal' = cacheVal /\ excuse' = excuse
        /\ balance' = balance /\ topUp' = topUp
        /\ InFlight' = InFlight /\ Unpaid' \in SUBSET Unpaid
    BY <1>a DEF cache, Quiet
  <2> QED
    BY <2>1, EntryStays DEF EntryInv
<1>1. ASSUME NEW r \in Requests, CacheHit(r)
      PROVE  EntryOK(cacheVal', excuse', balance', InFlight', Unpaid', topUp')
  <2>1. Quiet
    BY <1>1, QuietSteps
  <2> QED
    BY <1>a, <1>1, <2>1 DEF CacheHit
<1>2. ASSUME NEW r \in Requests, CacheMiss(r)
      PROVE  EntryOK(cacheVal', excuse', balance', InFlight', Unpaid', topUp')
  <2>1. Quiet
    BY <1>2, QuietSteps
  <2> QED
    BY <1>a, <1>2, <2>1 DEF CacheMiss
<1>3. ASSUME NEW r \in Requests, ForwardFails(r)
      PROVE  EntryOK(cacheVal', excuse', balance', InFlight', Unpaid', topUp')
  <2>1. Quiet
    BY <1>3, QuietSteps
  <2> QED
    BY <1>a, <1>3, <2>1 DEF ForwardFails
<1>4. ASSUME NEW r \in Requests, Charge(r)
      PROVE  EntryOK(cacheVal', excuse', balance', InFlight', Unpaid', topUp')
  <2>1. /\ r \in Unpaid /\ balance' = balance - Cost[r] /\ topUp' = topUp
        /\ InFlight' = InFlight \cup {r} /\ Unpaid' = Unpaid \ {r}
    BY <1>4, ChargingStep
  <2>2. cached /\ cacheVal' = cacheVal /\ excuse' = excuse
    BY <1>4 DEF Charge, cache
  <2> QED
    BY <1>s, <1>e, <2>1, <2>2, EntryCharged DEF EntryInv
<1>5. ASSUME NEW r \in Requests, DeductNotStopped(r)
      PROVE  EntryOK(cacheVal', excuse', balance', InFlight', Unpaid', topUp')
  <2>1. Quiet
    BY <1>5, QuietSteps
  <2> QED
    BY <1>a, <1>5, <2>1 DEF DeductNotStopped
<1>6. ASSUME NEW r \in Requests, SendRefused(r)
      PROVE  EntryOK(cacheVal', excuse', balance', InFlight', Unpaid', topUp')
  <2>1. Quiet
    BY <1>6, QuietSteps
  <2> QED
    BY <1>a, <1>6, <2>1 DEF SendRefused
<1>7. ASSUME NEW r \in Requests, SendQueued(r)
      PROVE  EntryOK(cacheVal', excuse', balance', InFlight', Unpaid', topUp')
  <2>1. Quiet
    BY <1>7, QuietSteps
  <2> QED
    BY <1>a, <1>7, <2>1 DEF SendQueued
<1>8. ASSUME NEW r \in Requests, SendPanics(r)
      PROVE  EntryOK(cacheVal', excuse', balance', InFlight', Unpaid', topUp')
  <2>1. Settles(r)
    BY <1>8, SettlingSteps
  <2>2. cached /\ cacheVal' = cacheVal /\ excuse' = excuse \cup {r}
    BY <1>8 DEF SendPanics
  <2> QED
    BY <1>s, <1>e, <2>1, <2>2, EntryMissed DEF EntryInv, Settles
<1>9. ASSUME NEW r \in Requests, Deduct(r)
      PROVE  EntryOK(cacheVal', excuse', balance', InFlight', Unpaid', topUp')
  <2>1. Settles(r)
    BY <1>9, SettlingSteps
  <2>2. CASE cacheVal' = cacheVal - Cost[r] /\ excuse' = excuse /\ cached
    BY <1>s, <1>e, <2>1, <2>2, EntryDeducted DEF EntryInv, Settles
  <2>3. CASE cacheVal' = cacheVal /\ excuse' = excuse \cup {r} /\ cached
    BY <1>s, <1>e, <2>1, <2>3, EntryMissed DEF EntryInv, Settles
  <2> QED
    BY <1>9, <2>2, <2>3 DEF Deduct
<1>10. ASSUME LoadFromDB
      PROVE  EntryOK(cacheVal', excuse', balance', InFlight', Unpaid', topUp')
  <2>1. Quiet
    BY <1>10, QuietSteps DEF Flight
  <2> QED
    BY <1>a, <1>10, <2>1 DEF LoadFromDB
<1>11. ASSUME LoadFails
      PROVE  EntryOK(cacheVal', excuse', balance', InFlight', Unpaid', topUp')
  <2>1. Quiet
    BY <1>11, QuietSteps DEF Flight
  <2> QED
    BY <1>a, <1>11, <2>1 DEF LoadFails
<1>12. ASSUME SetNotStopped
      PROVE  EntryOK(cacheVal', excuse', balance', InFlight', Unpaid', topUp')
  <2>1. Quiet
    BY <1>12, QuietSteps DEF Flight
  <2> QED
    BY <1>a, <1>12, <2>1 DEF SetNotStopped
<1>13. ASSUME SetDropped
      PROVE  EntryOK(cacheVal', excuse', balance', InFlight', Unpaid', topUp')
  <2>1. Quiet
    BY <1>13, QuietSteps DEF Flight
  <2> QED
    BY <1>a, <1>13, <2>1 DEF SetDropped, EndFlight
<1>14. ASSUME SetQueued
      PROVE  EntryOK(cacheVal', excuse', balance', InFlight', Unpaid', topUp')
  <2>1. Quiet
    BY <1>14, QuietSteps DEF Flight
  <2> QED
    BY <1>a, <1>14, <2>1 DEF SetQueued, EndFlight
<1>15. ASSUME SetPanics
      PROVE  EntryOK(cacheVal', excuse', balance', InFlight', Unpaid', topUp')
  <2>1. Quiet
    BY <1>15, QuietSteps DEF Flight
  <2> QED
    BY <1>a, <1>15, <2>1 DEF SetPanics, EndFlight
<1>16. ASSUME NEW t \in setTasks, SetBalance(t)
      PROVE  EntryOK(cacheVal', excuse', balance', InFlight', Unpaid', topUp')
  <2>1. Quiet
    BY <1>16, QuietSteps
  <2>2. CASE cacheVal' = t.val /\ excuse' = t.excuse
    <3>1. LoadOK(t.val, t.excuse, balance, InFlight, Unpaid, topUp)
      BY DEF LoadInv
    <3>2. t.excuse \in SUBSET Excuses
      BY DEF TasksOK
    <3>3. EntryOK(t.val, t.excuse, balance, InFlight, Unpaid, topUp)
      BY <1>s, <3>1, <3>2, LoadStored
    <3> QED
      BY <2>1, <2>2, <3>3, EntryStays DEF Quiet
  <2>3. CASE UNCHANGED cache
    BY <1>a, <2>1, <2>3
  <2> QED
    BY <1>16, <2>2, <2>3 DEF SetBalance
<1>17. ASSUME TopUp
      PROVE  EntryOK(cacheVal', excuse', balance', InFlight', Unpaid', topUp')
  <2>1. /\ topUp = "no" /\ topUp' = "committed" /\ balance' = balance + TopUpAmount
        /\ InFlight' = InFlight /\ Unpaid' = Unpaid
    BY <1>17 DEF TopUp, InFlight, Unpaid
  <2>2. cached /\ cacheVal' = cacheVal /\ excuse' = excuse
    BY <1>17 DEF TopUp, cache
  <2> QED
    BY <1>s, <1>e, <2>1, <2>2, EntryToppedUp DEF EntryInv
<1>18. ASSUME Invalidate
      PROVE  EntryOK(cacheVal', excuse', balance', InFlight', Unpaid', topUp')
  <2>1. /\ topUp = "committed" /\ topUp' = "done" /\ balance' = balance
        /\ InFlight' = InFlight /\ Unpaid' = Unpaid
    BY <1>18 DEF Invalidate, InFlight, Unpaid
  <2>2. cached /\ cacheVal' = cacheVal /\ excuse' = excuse \cup {"topUp"}
    BY <1>18 DEF Invalidate, Drop
  <2> QED
    BY <1>s, <1>e, <2>1, <2>2, EntryNotInvalidated DEF EntryInv
<1>19. ASSUME Expire
      PROVE  EntryOK(cacheVal', excuse', balance', InFlight', Unpaid', topUp')
  BY <1>19 DEF Expire, Drop
<1>20. ASSUME StopStore
      PROVE  EntryOK(cacheVal', excuse', balance', InFlight', Unpaid', topUp')
  <2>1. Quiet
    BY <1>20, QuietSteps
  <2> QED
    BY <1>a, <1>20, <2>1 DEF StopStore
<1>21. ASSUME StopClose
      PROVE  EntryOK(cacheVal', excuse', balance', InFlight', Unpaid', topUp')
  <2>1. Quiet
    BY <1>21, QuietSteps
  <2> QED
    BY <1>a, <1>21, <2>1 DEF StopClose
<1>22. ASSUME StopDrained
      PROVE  EntryOK(cacheVal', excuse', balance', InFlight', Unpaid', topUp')
  <2>1. Quiet
    BY <1>22, QuietSteps
  <2> QED
    BY <1>a, <1>22, <2>1 DEF StopDrained
<1>23. ASSUME UNCHANGED vars
      PROVE  EntryOK(cacheVal', excuse', balance', InFlight', Unpaid', topUp')
  <2>1. Quiet
    BY <1>23, QuietSteps
  <2> QED
    BY <1>a, <1>23, <2>1 DEF vars
<1> QED
  BY <1>1, <1>2, <1>3, <1>4, <1>5, <1>6, <1>7, <1>8, <1>9, <1>10, <1>11, <1>12,
     <1>13, <1>14, <1>15, <1>16, <1>17, <1>18, <1>19, <1>20, <1>21, <1>22,
     <1>23 DEF Next, Flight

(* Whatever the order of loads, deductions, invalidations and failures,    *)
(* the cached balance is off by no more than the charges and top-ups that  *)
(* were in progress when it was loaded, or whose own write was lost.       *)
THEOREM CacheErrorIsExplained == Spec => []ErrorExplained
<1>1. Init => LoadInv /\ EntryInv
  BY DEF Init, LoadInv, EntryInv
<1>2. ValuesOK /\ TasksOK /\ LoadInv /\ EntryInv /\ [Next]_vars
        => (LoadInv /\ EntryInv)'
  BY LoadInvStep, EntryInvStep
<1>3. ValuesOK /\ EntryInv => ErrorExplained
  <2> SUFFICES ASSUME ValuesOK, EntryInv, cached
               PROVE  /\ cacheVal - Expected <= Total(excuse)
                      /\ Expected - cacheVal <= Total(excuse)
    BY DEF ErrorExplained
  <2>1. EntryOK(cacheVal, excuse, balance, InFlight, Unpaid, topUp)
    BY DEF EntryInv
  <2>2. Situation(excuse, balance, InFlight, Unpaid, topUp)
    BY InSituation DEF ValuesOK
  <2>3. Expected = balance + Total(InFlight) - Awaited(topUp)
    BY DEF Expected, Awaited
  <2> QED
    BY <2>1, <2>2, <2>3, EntryBound
<1> QED
  BY <1>1, <1>2, <1>3, BalanceTypes, PTL DEF Spec

-----------------------------------------------------------------------------
(***************************************************************************)
(* BillingBreaker                                                          *)
(***************************************************************************)
(* Type correctness needs that a closed breaker is below its threshold:    *)
(* only then does one more failure stay within it.                         *)
CountInv ==
    /\ state \in {"closed", "open", "half-open"}
    /\ failures \in 0..FailureThreshold
    /\ halfOpenRemaining \in 0..(HalfOpenRequests - 1)
    /\ running \subseteq Handlers /\ probes \subseteq Handlers
    /\ ClosedBelowThreshold

(* The Boolean part of the types.                                          *)
FlagInv == elapsed \in BOOLEAN

(* Both together are inductive.                                            *)
BreakerTypes == CountInv /\ FlagInv

(* They hold of a new breaker.                                             *)
LEMMA BreakerTypesInit == BreakerInit => BreakerTypes
<1>1. BreakerInit => CountInv
  BY BreakerAssumption, SMT DEF BreakerInit, CountInv, ClosedBelowThreshold
<1>2. BreakerInit => FlagInv
  BY Zenon DEF BreakerInit, FlagInv
<1> QED
  BY <1>1, <1>2 DEF BreakerTypes

(* Every step keeps the counts in their bounds.                            *)
LEMMA CountInvStep == CountInv /\ [BreakerNext]_breakerVars => CountInv'
<1> USE BreakerAssumption DEF CountInv, ClosedBelowThreshold, breaker
<1> SUFFICES ASSUME CountInv, [BreakerNext]_breakerVars PROVE CountInv'
  OBVIOUS
<1>1. ASSUME NEW r \in Handlers, AllowClosed(r) PROVE CountInv'
  BY <1>1 DEF AllowClosed
<1>2. ASSUME NEW r \in Handlers, AllowOpen(r) PROVE CountInv'
  BY <1>2 DEF AllowOpen
<1>3. ASSUME NEW r \in Handlers, AllowHalfOpen(r) PROVE CountInv'
  BY <1>3 DEF AllowHalfOpen
<1>4. ASSUME NEW r \in Handlers, OnFailure(r) PROVE CountInv'
  BY <1>4 DEF OnFailure, OnFailureClosed, OnFailureHalfOpen, OnFailureOpen, Open
<1>5. ASSUME NEW r \in Handlers, OnSuccess(r) PROVE CountInv'
  BY <1>5 DEF OnSuccess, Close
<1>6. ASSUME Elapse PROVE CountInv'
  BY <1>6 DEF Elapse
<1>7. ASSUME NEW r \in Handlers, Refuse(r) PROVE CountInv'
  BY <1>7 DEF Refuse, breakerVars
<1>8. ASSUME UNCHANGED breakerVars PROVE CountInv'
  BY <1>8 DEF breakerVars
<1> QED
  BY <1>1, <1>2, <1>3, <1>4, <1>5, <1>6, <1>7, <1>8 DEF BreakerNext, Allow, Report

(* Every step keeps the flags Boolean.                                     *)
LEMMA FlagInvStep == FlagInv /\ [BreakerNext]_breakerVars => FlagInv'
<1> USE DEF FlagInv, breaker
<1> SUFFICES ASSUME FlagInv, [BreakerNext]_breakerVars PROVE FlagInv'
  OBVIOUS
<1>1. ASSUME NEW r \in Handlers, AllowClosed(r) PROVE FlagInv'
  BY <1>1, Zenon DEF AllowClosed
<1>2. ASSUME NEW r \in Handlers, AllowOpen(r) PROVE FlagInv'
  BY <1>2, Zenon DEF AllowOpen
<1>3. ASSUME NEW r \in Handlers, AllowHalfOpen(r) PROVE FlagInv'
  BY <1>3, Zenon DEF AllowHalfOpen
<1>4. ASSUME NEW r \in Handlers, OnFailure(r) PROVE FlagInv'
  BY <1>4, Zenon DEF OnFailure, OnFailureClosed, OnFailureHalfOpen, OnFailureOpen, Open
<1>5. ASSUME NEW r \in Handlers, OnSuccess(r) PROVE FlagInv'
  BY <1>5, Zenon DEF OnSuccess, Close
<1>6. ASSUME Elapse PROVE FlagInv'
  BY <1>6, Zenon DEF Elapse
<1>7. ASSUME NEW r \in Handlers, Refuse(r) PROVE FlagInv'
  BY <1>7, Zenon DEF Refuse, breakerVars
<1>8. ASSUME UNCHANGED breakerVars PROVE FlagInv'
  BY <1>8, Zenon DEF breakerVars
<1> QED
  BY <1>1, <1>2, <1>3, <1>4, <1>5, <1>6, <1>7, <1>8 DEF BreakerNext, Allow, Report

(* Every step keeps both.                                                  *)
LEMMA BreakerTypesStep == BreakerTypes /\ [BreakerNext]_breakerVars => BreakerTypes'
BY CountInvStep, FlagInvStep DEF BreakerTypes

(* Types of the breaker's state: failures never passes the threshold, and  *)
(* a half-open breaker has given out at least one of its tokens (the       *)
(* request that enters half-open in Allow takes one in the same step).     *)
THEOREM BreakerTypeCorrect == BreakerSpec => []BreakerTypeOK
<1>1. BreakerTypes => BreakerTypeOK
  BY Zenon DEF BreakerTypes, CountInv, FlagInv, BreakerTypeOK
<1> QED
  BY <1>1, BreakerTypesInit, BreakerTypesStep, PTL DEF BreakerSpec

(* OnSuccess resets failures from every state, so a closed breaker always  *)
(* has its whole threshold ahead of it or failures of this period only.    *)
THEOREM ClosedIsBelowThreshold == BreakerSpec => []ClosedBelowThreshold
<1>1. BreakerTypes => ClosedBelowThreshold
  BY DEF BreakerTypes, CountInv
<1> QED
  BY <1>1, BreakerTypesInit, BreakerTypesStep, PTL DEF BreakerSpec

-----------------------------------------------------------------------------
(* A token is one request: taking one adds a probe.                        *)
LEMMA OneMoreProbe ==
    ASSUME CountInv, NEW r \in Handlers, r \notin probes
    PROVE  Cardinality(probes \cup {r}) = Cardinality(probes) + 1
<1>1. IsFiniteSet(probes)
  BY BreakerAssumption, FS_Subset DEF CountInv
<1> QED
  BY <1>1, FS_AddElement

(* Every step keeps the probes pending: a report of any check ends the     *)
(* half-open period, so that no probe has reported while it lasts.         *)
LEMMA ProbesPendingStep ==
    BreakerTypes /\ ProbesPending /\ [BreakerNext]_breakerVars => ProbesPending'
<1> USE BreakerAssumption DEF ProbesPending, breaker
<1> SUFFICES ASSUME BreakerTypes, ProbesPending, [BreakerNext]_breakerVars
             PROVE  ProbesPending'
  OBVIOUS
<1>t. CountInv
  BY DEF BreakerTypes
<1>1. ASSUME NEW r \in Handlers, AllowClosed(r) PROVE ProbesPending'
  BY <1>1 DEF AllowClosed
<1>2. ASSUME NEW r \in Handlers, AllowOpen(r) PROVE ProbesPending'
  <2>1. Cardinality({r}) = 1
    BY FS_Singleton
  <2> QED
    BY <1>2, <2>1 DEF AllowOpen
<1>3. ASSUME NEW r \in Handlers, AllowHalfOpen(r) PROVE ProbesPending'
  <2>1. probes \subseteq running /\ r \notin probes
    BY <1>3 DEF AllowHalfOpen
  <2>2. Cardinality(probes') = Cardinality(probes) + 1
    BY <1>3, <1>t, <2>1, OneMoreProbe DEF AllowHalfOpen
  <2>3. Cardinality(probes) \in Nat
    BY <1>t, FS_Subset, FS_CardinalityType DEF CountInv
  <2> QED
    BY <1>3, <1>t, <2>1, <2>2, <2>3 DEF AllowHalfOpen, CountInv
<1>4. ASSUME NEW r \in Handlers, OnFailure(r) PROVE ProbesPending'
  BY <1>4 DEF OnFailure, OnFailureClosed, OnFailureHalfOpen, OnFailureOpen, Open
<1>5. ASSUME NEW r \in Handlers, OnSuccess(r) PROVE ProbesPending'
  BY <1>5 DEF OnSuccess, Close
<1>6. ASSUME Elapse PROVE ProbesPending'
  BY <1>6 DEF Elapse
<1>7. ASSUME NEW r \in Handlers, Refuse(r) PROVE ProbesPending'
  BY <1>7 DEF Refuse, breakerVars
<1>8. ASSUME UNCHANGED breakerVars PROVE ProbesPending'
  BY <1>8 DEF breakerVars
<1> QED
  BY <1>1, <1>2, <1>3, <1>4, <1>5, <1>6, <1>7, <1>8 DEF BreakerNext, Allow, Report

(* A half-open breaker lets through exactly the configured number of       *)
(* checks, and each of them is still to report, so it is never left        *)
(* half-open without tokens and without a check to move it on.             *)
THEOREM ProbesArePending == BreakerSpec => []ProbesPending
<1>1. BreakerInit => ProbesPending
  BY DEF BreakerInit, ProbesPending
<1> QED
  BY <1>1, BreakerTypesInit, BreakerTypesStep, ProbesPendingStep, PTL DEF BreakerSpec
=============================================================================
