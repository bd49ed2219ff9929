------------------------------- MODULE MultiProofs -------------------------------
(***************************************************************************)
(* Theorems about the pipeline in multi-object mode, for every value of    *)
(* the constants.                                                          *)
(***************************************************************************)
EXTENDS MultiPipeline, TrackerProofs, FunctionTheorems

-----------------------------------------------------------------------------
(* Part 1.  Matching, and what a frame does to the gate.                   *)

-----------------------------------------------------------------------------
(* Blobs and candidates.                                                   *)

Blob == { b \in [lo : Int, hi : Int] : b.lo <= b.hi }

Candidate ==
  [ track : Nat, blob : Nat, overlap : Nat, joint : Nat \ {0}, distance : Nat ]

LEMMA Extremes ==
  ASSUME NEW x \in Int, NEW y \in Int
  PROVE  /\ Max({x, y}) \in {x, y} /\ x <= Max({x, y}) /\ y <= Max({x, y})
         /\ Min({x, y}) \in {x, y} /\ Min({x, y}) <= x /\ Min({x, y}) <= y
<1>1. \E m \in {x, y} : \A k \in {x, y} : m >= k
  OBVIOUS
<1>2. \E m \in {x, y} : \A k \in {x, y} : m =< k
  OBVIOUS
<1>3. Max({x, y}) \in {x, y} /\ \A k \in {x, y} : Max({x, y}) >= k
  BY <1>1 DEF Max
<1>4. Min({x, y}) \in {x, y} /\ \A k \in {x, y} : Min({x, y}) =< k
  BY <1>2 DEF Min
<1> QED
  BY <1>3, <1>4

(* Two blobs have some area between them.                                  *)
LEMMA OverlapInJoint ==
  ASSUME NEW a \in Blob, NEW b \in Blob
  PROVE  /\ Overlap(a, b) \in Nat /\ Joint(a, b) \in Nat \ {0} /\ Distance(a, b) \in Nat
         /\ Overlap(a, b) <= Joint(a, b)
         /\ Overlap(a, b) = Joint(a, b) <=> a = b
<1>1. a.lo \in Int /\ a.hi \in Int /\ b.lo \in Int /\ b.hi \in Int /\ a.lo <= a.hi /\ b.lo <= b.hi
  BY DEF Blob
<1> DEFINE hi == Min({a.hi, b.hi})
           lo == Max({a.lo, b.lo})
<1>2. hi \in {a.hi, b.hi} /\ hi <= a.hi /\ hi <= b.hi
  BY <1>1, Extremes
<1>3. lo \in {a.lo, b.lo} /\ lo >= a.lo /\ lo >= b.lo
  BY <1>1, Extremes
<1> HIDE DEF hi, lo
<1>4. hi \in Int /\ lo \in Int /\ hi - lo + 1 \in Int
  BY <1>1, <1>2, <1>3
<1>5. /\ Overlap(a, b) \in {0, hi - lo + 1} /\ 0 <= Overlap(a, b) /\ hi - lo + 1 <= Overlap(a, b)
  <2>1. Overlap(a, b) = Max({0, hi - lo + 1})
    BY DEF Overlap, hi, lo
  <2> QED
    BY <1>4, <2>1, Extremes
<1>6. Overlap(a, b) \in Nat /\ Overlap(a, b) <= Area(a) /\ Overlap(a, b) <= Area(b)
  BY <1>1, <1>2, <1>3, <1>4, <1>5 DEF Area
<1>7. Joint(a, b) \in Nat \ {0} /\ Overlap(a, b) <= Joint(a, b)
  BY <1>1, <1>6 DEF Joint, Area
<1>8. Distance(a, b) \in Nat
  BY <1>1 DEF Distance
<1>9. Overlap(a, b) = Joint(a, b) => a = b
  <2> SUFFICES ASSUME Overlap(a, b) = Joint(a, b) PROVE a = b
    OBVIOUS
  <2>1. Overlap(a, b) = Area(a) /\ Overlap(a, b) = Area(b)
    BY <1>1, <1>6 DEF Joint, Area
  <2>2. a.lo = b.lo /\ a.hi = b.hi
    BY <1>1, <1>2, <1>3, <1>4, <1>5, <2>1 DEF Area
  <2> QED
    BY <2>2 DEF Blob
<1>10. a = b => Overlap(a, b) = Joint(a, b)
  <2> SUFFICES ASSUME a = b PROVE Overlap(a, b) = Joint(a, b)
    OBVIOUS
  <2>1. hi = a.hi /\ lo = a.lo
    BY <1>2, <1>3
  <2> QED
    BY <1>1, <1>5, <2>1 DEF Joint, Area
<1> QED
  BY <1>6, <1>7, <1>8, <1>9, <1>10

(* Comparing two fractions by cross multiplication.                        *)
LEMMA FractionsCompare ==
  ASSUME NEW a \in Nat, NEW b \in Nat \ {0}, NEW c \in Nat, NEW d \in Nat \ {0},
         NEW e \in Nat, NEW f \in Nat \ {0}, a * d >= c * b, c * f >= e * d
  PROVE  /\ a * f >= e * b
         /\ a * f = e * b => a * d = c * b /\ c * f = e * d
<1>1. (a * d) * f >= (c * b) * f /\ (c * f) * b >= (e * d) * b
  BY SMT
<1>2. (a * d) * f = (a * f) * d /\ (c * b) * f = (c * f) * b /\ (e * d) * b = (e * b) * d
  BY SMT
<1>3. (a * f) * d >= (e * b) * d
  <2>1. \A x, y, z, w \in Int : x >= y /\ z >= w /\ y = z => x >= w
    OBVIOUS
  <2>2. (a * d) * f \in Int /\ (c * b) * f \in Int /\ (c * f) * b \in Int /\ (e * d) * b \in Int
    OBVIOUS
  <2> QED
    BY <1>1, <1>2, <2>1, <2>2
<1>4. \A x, y \in Int : \A z \in Nat \ {0} : x * z >= y * z => x >= y
  BY SMT
<1>5. a * f \in Int /\ e * b \in Int /\ a * d \in Int /\ c * b \in Int /\ c * f \in Int /\ e * d \in Int
  OBVIOUS
<1>6. a * f >= e * b
  BY <1>3, <1>4, <1>5
<1>7. ASSUME a * f = e * b
      PROVE  a * d = c * b /\ c * f = e * d
  <2>1. (a * d) * f = (e * d) * b
    BY <1>2, <1>7
  <2>2. (c * b) * f >= (a * d) * f /\ (e * d) * b >= (c * f) * b
    BY <1>1, <1>2, <2>1
  <2>3. c * b >= a * d
    BY <1>4, <1>5, <2>2
  <2>4. e * d >= c * f
    BY <1>4, <1>5, <2>2
  <2> QED
    BY <1>5, <2>3, <2>4
<1> QED
  BY <1>6, <1>7

(* Better is a strict order in which any two candidates compare.           *)
LEMMA BetterTransitive ==
  ASSUME NEW c \in Candidate, NEW d \in Candidate, NEW e \in Candidate, Better(c, d), Better(d, e)
  PROVE  Better(c, e)
<1>1. /\ c.overlap \in Nat /\ d.overlap \in Nat /\ e.overlap \in Nat
      /\ c.joint \in Nat \ {0} /\ d.joint \in Nat \ {0} /\ e.joint \in Nat \ {0}
      /\ c.distance \in Nat /\ d.distance \in Nat /\ e.distance \in Nat
      /\ c.track \in Nat /\ d.track \in Nat /\ e.track \in Nat
      /\ c.blob \in Nat /\ d.blob \in Nat /\ e.blob \in Nat
  BY DEF Candidate
<1> DEFINE cd == c.overlap * d.joint   dc == d.overlap * c.joint
           de == d.overlap * e.joint   ed == e.overlap * d.joint
           ce == c.overlap * e.joint   ec == e.overlap * c.joint
<1>2. /\ cd \in Int /\ dc \in Int /\ de \in Int /\ ed \in Int /\ ce \in Int /\ ec \in Int
  BY <1>1
<1>3. cd >= dc /\ de >= ed
  BY <1>2 DEF Better
<1>4. ce >= ec /\ (ce = ec => cd = dc /\ de = ed)
  BY <1>1, <1>3, FractionsCompare
<1>5. /\ Better(c, d) <=> \/ cd > dc
                          \/ cd = dc /\ c.distance < d.distance
                          \/ /\ cd = dc /\ c.distance = d.distance
                             /\ c.track > d.track \/ (c.track = d.track /\ c.blob > d.blob)
      /\ Better(d, e) <=> \/ de > ed
                          \/ de = ed /\ d.distance < e.distance
                          \/ /\ de = ed /\ d.distance = e.distance
                             /\ d.track > e.track \/ (d.track = e.track /\ d.blob > e.blob)
      /\ Better(c, e) <=> \/ ce > ec
                          \/ ce = ec /\ c.distance < e.distance
                          \/ /\ ce = ec /\ c.distance = e.distance
                             /\ c.track > e.track \/ (c.track = e.track /\ c.blob > e.blob)
  BY DEF Better
<1> HIDE DEF cd, dc, de, ed, ce, ec
<1> QED
  BY <1>1, <1>2, <1>3, <1>4, <1>5

LEMMA BetterTotal ==
  ASSUME NEW c \in Candidate, NEW d \in Candidate
  PROVE  /\ ~ Better(c, c)
         /\ Better(c, d) \/ Better(d, c) \/ (c.track = d.track /\ c.blob = d.blob)
<1>1. /\ c.overlap \in Nat /\ d.overlap \in Nat
      /\ c.joint \in Nat \ {0} /\ d.joint \in Nat \ {0}
      /\ c.distance \in Nat /\ d.distance \in Nat
      /\ c.track \in Nat /\ d.track \in Nat /\ c.blob \in Nat /\ d.blob \in Nat
  BY DEF Candidate
<1>2. /\ c.overlap * d.joint \in Int /\ d.overlap * c.joint \in Int /\ c.overlap * c.joint \in Int
  BY <1>1
<1> QED
  BY <1>1, <1>2 DEF Better

Fitter(S) == { p \in S \X S : Better(p[1], p[2]) }

(* One candidate at most for a track and a blob.                           *)
Proper(S) ==
  /\ S \subseteq Candidate
  /\ \A c, d \in S : c.track = d.track /\ c.blob = d.blob => c = d

LEMMA FitterIsOrder ==
  ASSUME NEW S, Proper(S)
  PROVE  IsOrder(S, Fitter(S)) /\ \A c, d \in S : <<c, d>> \in Fitter(S) <=> Better(c, d)
<1>1. \A c, d \in S : <<c, d>> \in Fitter(S) <=> Better(c, d)
  BY DEF Fitter
<1>2. \A c, d, e \in S : Better(c, d) /\ Better(d, e) => Better(c, e)
  BY BetterTransitive DEF Proper
<1>3. \A c, d \in S : ~ Better(c, c) /\ (c # d => Better(c, d) \/ Better(d, c))
  BY BetterTotal DEF Proper
<1> QED
  BY <1>1, <1>2, <1>3 DEF IsOrder

-----------------------------------------------------------------------------
(* Matching: one candidate at most for each track and each blob, and what  *)
(* is passed over stood behind one that is taken.                          *)

Clash(c, d) == d.track = c.track \/ d.blob = c.blob

TakeOne(ranked, taken, c) == IF \E d \in taken : Clash(c, d) THEN taken ELSE taken \cup {c}

TakenInv(ranked, n, taken) ==
  /\ \A c \in taken : \E i \in 1 .. n : c = ranked[i]
  /\ \A c, d \in taken : Clash(c, d) => c = d
  /\ \A i \in 1 .. n :
       ranked[i] \in taken \/ \E j \in 1 .. (i - 1) : ranked[j] \in taken /\ Clash(ranked[i], ranked[j])

MatchingLoop == INSTANCE Iteration WITH Op <- TakeOne, Inv <- TakenInv

LEMMA MatchingIsFold ==
  ASSUME NEW ranked
  PROVE  Matching(ranked) = MatchingLoop!Fold(ranked, {}, ranked)
BY DEF Matching, MatchingLoop!Fold, MatchingLoop!Last, FoldLeft, MapThenFoldSet, Max, TakeOne, Clash

LEMMA MatchingTaken ==
  ASSUME NEW ranked, NEW n \in Nat, DOMAIN ranked = 1 .. n
  PROVE  TakenInv(ranked, n, Matching(ranked))
<1>1. TakenInv(ranked, 0, {})
  BY DEF TakenInv
<1>2. ASSUME NEW i \in 1 .. n, NEW e, TakenInv(ranked, i - 1, e)
      PROVE  TakenInv(ranked, i, TakeOne(ranked, e, ranked[i]))
  <2> DEFINE f == TakeOne(ranked, e, ranked[i])
  <2>1. e \subseteq f /\ f \subseteq e \cup {ranked[i]}
    BY DEF TakeOne
  <2>2. ranked[i] \in f \/ \E d \in f : Clash(ranked[i], d)
    BY DEF TakeOne
  <2>3. \A c, d \in f : Clash(c, d) => c = d
    BY <1>2 DEF TakeOne, TakenInv, Clash
  <2> HIDE DEF f
  <2>4. 1 .. i = (1 .. (i - 1)) \cup {i}
    OBVIOUS
  <2>5. \A c \in f : \E k \in 1 .. i : c = ranked[k]
    BY <1>2, <2>1, <2>4 DEF TakenInv
  <2>6. ranked[i] \in f \/ \E j \in 1 .. (i - 1) : ranked[j] \in f /\ Clash(ranked[i], ranked[j])
    BY <1>2, <2>1, <2>2 DEF TakenInv
  <2>7. ASSUME NEW k \in 1 .. (i - 1)
        PROVE  ranked[k] \in f \/ \E j \in 1 .. (k - 1) : ranked[j] \in f /\ Clash(ranked[k], ranked[j])
    BY <1>2, <2>1 DEF TakenInv
  <2> QED
    BY <2>3, <2>4, <2>5, <2>6, <2>7 DEF TakenInv, f
<1>3. TakenInv(ranked, n, MatchingLoop!Fold(ranked, {}, ranked))
  BY <1>1, <1>2, MatchingLoop!FoldInvariant
<1> QED
  BY <1>3, MatchingIsFold

-----------------------------------------------------------------------------
(* What one frame's decisions are taken from.                              *)

Track ==
  [ roi : Blob, openId : Nat, active : Nat, quiet : Nat, merge : Nat,
    seen : BOOLEAN, backdate : Nat, lastActive : Nat ]

LEMMA CandidatesProper ==
  ASSUME NEW tracks \in Seq(Track), NEW blobs \in Seq(Blob)
  PROVE  LET S == Candidates(tracks, blobs)
         IN  /\ Proper(S) /\ IsFiniteSet(S)
             /\ \A c \in S : /\ c.track \in DOMAIN tracks /\ c.blob \in DOMAIN blobs /\ Eligible(c)
                             /\ c.overlap = Overlap(tracks[c.track].roi, blobs[c.blob])
                             /\ c.joint = Joint(tracks[c.track].roi, blobs[c.blob])
<1> DEFINE S == Candidates(tracks, blobs)
           I == 1 .. Len(tracks)
           J == 1 .. Len(blobs)
           candidate(i, j) ==
             [ track |-> i, blob |-> j, overlap |-> Overlap(tracks[i].roi, blobs[j]),
               joint |-> Joint(tracks[i].roi, blobs[j]),
               distance |-> Distance(tracks[i].roi, blobs[j]) ]
<1>1. I = DOMAIN tracks /\ J = DOMAIN blobs /\ Len(tracks) \in Nat /\ Len(blobs) \in Nat
  OBVIOUS
<1>2. ASSUME NEW i \in I, NEW j \in J
      PROVE  candidate(i, j) \in Candidate
  <2>3. tracks[i] \in Track /\ blobs[j] \in Blob
    BY <1>1
  <2>1. tracks[i].roi \in Blob /\ blobs[j] \in Blob
    BY <2>3 DEF Track
  <2>2. i \in Nat /\ j \in Nat
    BY <1>1
  <2> QED
    BY <2>1, <2>2, OverlapInJoint DEF Candidate
<1>3. \A c \in S : Eligible(c) /\ \E i \in I, j \in J : c = candidate(i, j)
  BY <1>1 DEF Candidates
<1>4. \A i \in I, j \in J :
        /\ candidate(i, j).track = i /\ candidate(i, j).blob = j
        /\ candidate(i, j).overlap = Overlap(tracks[i].roi, blobs[j])
        /\ candidate(i, j).joint = Joint(tracks[i].roi, blobs[j])
  OBVIOUS
<1>5. IsFiniteSet(S)
  <2> DEFINE P == I \X J
             f == [ p \in P |-> candidate(p[1], p[2]) ]
             T == { f[p] : p \in P }
  <2>1. IsFiniteSet(I) /\ IsFiniteSet(J)
    BY <1>1, FS_Interval
  <2>2. IsFiniteSet(P)
    BY <2>1, FS_Product
  <2>3. f \in Surjection(P, T)
    BY DEF Surjection
  <2> HIDE DEF f, T
  <2>4. IsFiniteSet(T)
    BY <2>2, <2>3, FS_Surjection
  <2>5. S \in SUBSET T
    <3> SUFFICES ASSUME NEW c \in S PROVE c \in T
      OBVIOUS
    <3>1. PICK i \in I, j \in J : c = candidate(i, j)
      BY <1>3
    <3>2. <<i, j>> \in P /\ f[<<i, j>>] = candidate(i, j)
      BY DEF f
    <3> QED
      BY <3>1, <3>2 DEF T
  <2> QED
    BY <2>4, <2>5, FS_Subset
<1> HIDE DEF S, I, J, candidate
<1>6. Proper(S)
  BY <1>2, <1>3, <1>4 DEF Proper
<1> QED
  BY <1>1, <1>3, <1>4, <1>5, <1>6 DEF S

LEMMA SortedByFit ==
  ASSUME NEW S, Proper(S), IsFiniteSet(S)
  PROVE  LET o == Sorted(S, Better)
         IN  /\ Cardinality(S) \in Nat /\ DOMAIN o = 1 .. Cardinality(S)
             /\ \A n \in DOMAIN o : o[n] \in S
             /\ \A m, n \in DOMAIN o : m < n => Better(o[m], o[n])
             /\ \A x \in S : \E n \in DOMAIN o : o[n] = x
<1> DEFINE R == Fitter(S)
<1>1. IsOrder(S, R) /\ \A c, d \in S : <<c, d>> \in R <=> Better(c, d)
  BY FitterIsOrder
<1> HIDE DEF R
<1>2. \A x \in S : Below(S, R, x) = { y \in S : Better(y, x) }
  BY <1>1 DEF Below
<1>3. Sorted(S, Better) =
        [ k \in 1 .. Cardinality(S) |->
            CHOOSE x \in S : Cardinality({ y \in S : Better(y, x) }) = k - 1 ]
  BY DEF Sorted
<1>4. Sorted(S, Better) = Ranked(S, R)
  BY <1>2, <1>3 DEF Ranked
<1> DEFINE o == Ranked(S, R)
<1>5. /\ Cardinality(S) \in Nat /\ DOMAIN o = 1 .. Cardinality(S)
      /\ \A n \in DOMAIN o : o[n] \in S
      /\ \A m, n \in DOMAIN o : m < n => <<o[m], o[n]>> \in R
      /\ \A x \in S : \E n \in DOMAIN o : o[n] = x
  <2>1. Lists(o, S, R)
    BY <1>1, RankedOrder
  <2> HIDE DEF o, R
  <2> QED
    BY <2>1 DEF Lists
<1> QED
  BY <1>1, <1>4, <1>5

(* A view: what is taken is one to one, and every other candidate clashes  *)
(* with a better one; each track has at most one focus, and the blob in    *)
(* focus has a holder.                                                     *)
ViewOk(v) ==
  /\ Proper(v.all) /\ IsFiniteSet(v.all)
  /\ \A c \in v.all : c.track \in DOMAIN v.tracks /\ c.blob \in DOMAIN v.blobs
  /\ v.taken \subseteq v.all /\ v.focus \subseteq v.all /\ v.taken \subseteq v.focus
  /\ \A c, d \in v.taken : Clash(c, d) => c = d
  /\ \A c \in v.all : c \in v.taken \/ \E d \in v.taken : Better(d, c) /\ Clash(c, d)
  /\ \A c, d \in v.focus : c.track = d.track => c = d
  /\ \A c \in v.focus : \E d \in v.taken : d.blob = c.blob

LEMMA ViewIsOk ==
  ASSUME NEW tracks \in Seq(Track), NEW blobs \in Seq(Blob)
  PROVE  LET v == View(tracks, blobs)
         IN  ViewOk(v) /\ v.tracks = tracks /\ v.blobs = blobs /\ v.all = Candidates(tracks, blobs)
<1> DEFINE all    == Candidates(tracks, blobs)
           ranked == Sorted(all, Better)
           taken  == Matching(ranked)
           N      == Cardinality(all)
           focus  == Focus(ranked, taken)
           v      == View(tracks, blobs)
<1>1. /\ v.tracks = tracks /\ v.blobs = blobs /\ v.all = all /\ v.taken = taken /\ v.focus = focus
  BY DEF View
<1>2. /\ Proper(all) /\ IsFiniteSet(all)
      /\ \A c \in all : c.track \in DOMAIN tracks /\ c.blob \in DOMAIN blobs
  BY CandidatesProper
<1> HIDE DEF all
<1>3. /\ N \in Nat /\ DOMAIN ranked = 1 .. N
      /\ \A n \in 1 .. N : ranked[n] \in all
      /\ \A m, n \in 1 .. N : m < n => Better(ranked[m], ranked[n])
      /\ \A x \in all : \E n \in 1 .. N : ranked[n] = x
  BY <1>2, SortedByFit
<1> HIDE DEF N, ranked, taken
<1>6. TakenInv(ranked, N, taken)
  BY <1>3, MatchingTaken DEF taken
<1> HIDE DEF v
<1>7. taken \subseteq all /\ \A c, d \in taken : Clash(c, d) => c = d
  BY <1>3, <1>6 DEF TakenInv
<1>8. \A c \in all : c \in taken \/ \E d \in taken : Better(d, c) /\ Clash(c, d)
  <2> TAKE c \in all
  <2>1. PICK n \in 1 .. N : ranked[n] = c
    BY <1>3
  <2>2. \A j \in 1 .. (n - 1) : j \in 1 .. N /\ j < n
    BY <1>3
  <2>3. \A j \in 1 .. (n - 1) : Better(ranked[j], c)
    BY <1>3, <2>1, <2>2
  <2> QED
    BY <1>6, <2>1, <2>3 DEF TakenInv
<1>9. { ranked[n] : n \in DOMAIN ranked } = all
  BY <1>3
<1> DEFINE own     == { c.track : c \in taken }
           best(c) == ~ \E d \in all : d.track = c.track /\ Better(d, c)
<1>10. focus = taken \cup { c \in all : c.track \notin own /\ best(c) }
  BY <1>9 DEF Focus
<1> HIDE DEF focus
<1>11. focus \subseteq all /\ taken \subseteq focus
  BY <1>7, <1>10
<1>12. \A c, d \in all : best(c) /\ best(d) /\ c.track = d.track => c = d
  BY <1>2, BetterTotal DEF Proper
<1>13. \A c, d \in taken : c.track = d.track => c = d
  BY <1>7 DEF Clash
<1>14. \A c, d \in focus : c.track = d.track => c = d
  BY <1>10, <1>12, <1>13
<1>15. \A c \in focus : \E d \in taken : d.blob = c.blob
  BY <1>8, <1>10 DEF Clash
<1> QED
  BY <1>1, <1>2, <1>7, <1>8, <1>11, <1>14, <1>15 DEF ViewOk, v, all

(* The merges of a frame: each contender that is given up, once.           *)
LEMMA MergeOrderOfAbsorbed ==
  ASSUME NEW v, ViewOk(v), v.tracks \in Seq(Track)
  PROVE  LET o == MergeOrder(v)
             A == Absorbed(v)
         IN  /\ A \subseteq v.focus
             /\ Cardinality(A) \in Nat /\ DOMAIN o = 1 .. Cardinality(A)
             /\ \A n \in DOMAIN o : o[n] \in A
             /\ \A m, n \in DOMAIN o : o[m] = o[n] => m = n
             /\ \A c \in A : \E n \in DOMAIN o : o[n] = c
<1> DEFINE A == Absorbed(v)
           holder(c) == CHOOSE d \in v.taken : d.blob = c.blob
           before(c, d) == IF c.blob = d.blob THEN Leads(v, c, d) ELSE Better(holder(c), holder(d))
           R == { p \in A \X A : before(p[1], p[2]) }
           area(c) == Area(v.tracks[c.track].roi)
<1>1. A \subseteq v.focus /\ A \subseteq v.all /\ v.taken \subseteq Candidate /\ A \subseteq Candidate
  BY DEF Absorbed, Contending, ViewOk, Proper
<1>2. IsFiniteSet(A)
  BY <1>1, FS_Subset DEF ViewOk
<1>3. \A c \in A : area(c) \in Int
  <2> TAKE c \in A
  <2>1. c.track \in DOMAIN v.tracks
    BY <1>1 DEF ViewOk
  <2>2. v.tracks[c.track] \in Track
    BY <2>1
  <2>3. v.tracks[c.track].roi \in Blob
    BY <2>2 DEF Track
  <2> QED
    BY <2>3 DEF Blob, Area
<1>4. \A c \in A : holder(c) \in v.taken /\ holder(c).blob = c.blob
  BY <1>1 DEF ViewOk
<1>5. \A c, d \in A : c.blob = d.blob => holder(c) = holder(d)
  OBVIOUS
<1>6. \A c, d \in A : <<c, d>> \in R <=> before(c, d)
  OBVIOUS
<1>7. \A c, d \in A : Leads(v, c, d) <=> area(c) > area(d) \/ (area(c) = area(d) /\ Better(c, d))
  BY DEF Leads
<1> HIDE DEF A, holder, R, area
<1>8. \A c, d \in A : before(c, d) <=>
        \/ c.blob = d.blob /\ (area(c) > area(d) \/ (area(c) = area(d) /\ Better(c, d)))
        \/ c.blob # d.blob /\ Better(holder(c), holder(d))
  BY <1>7
<1>9. \A c \in A : ~ before(c, c)
  BY <1>1, <1>3, <1>8, BetterTotal
<1>10. ASSUME NEW c \in A, NEW d \in A, c # d
       PROVE  before(c, d) \/ before(d, c)
  <2>1. CASE c.blob = d.blob
    <3>1. c.track # d.track
      BY <1>1, <1>10 DEF ViewOk
    <3>2. Better(c, d) \/ Better(d, c)
      BY <1>1, <3>1, BetterTotal
    <3> QED
      BY <1>3, <1>8, <2>1, <3>2
  <2>2. CASE c.blob # d.blob
    <3>1. holder(c).blob # holder(d).blob
      BY <1>4, <2>2
    <3>2. Better(holder(c), holder(d)) \/ Better(holder(d), holder(c))
      BY <1>1, <1>4, <3>1, BetterTotal
    <3> QED
      BY <1>8, <2>2, <3>2
  <2> QED
    BY <2>1, <2>2
<1>11. ASSUME NEW c \in A, NEW d \in A, NEW e \in A, before(c, d), before(d, e)
       PROVE  before(c, e)
  <2>1. /\ c \in Candidate /\ d \in Candidate /\ e \in Candidate
        /\ holder(c) \in Candidate /\ holder(d) \in Candidate /\ holder(e) \in Candidate
    BY <1>1, <1>4
  <2>2. CASE c.blob = d.blob /\ d.blob = e.blob
    <3>1. Better(c, d) /\ Better(d, e) => Better(c, e)
      BY <2>1, BetterTransitive
    <3> QED
      BY <1>3, <1>8, <1>11, <2>2, <3>1
  <2>3. CASE c.blob = d.blob /\ d.blob # e.blob
    <3>1. Better(holder(d), holder(e)) /\ holder(c) = holder(d)
      BY <1>5, <1>8, <1>11, <2>3
    <3> QED
      BY <1>8, <2>3, <3>1
  <2>4. CASE c.blob # d.blob /\ d.blob = e.blob
    <3>1. Better(holder(c), holder(d)) /\ holder(d) = holder(e)
      BY <1>5, <1>8, <1>11, <2>4
    <3> QED
      BY <1>8, <2>4, <3>1
  <2>5. CASE c.blob # d.blob /\ d.blob # e.blob
    <3>1. Better(holder(c), holder(d)) /\ Better(holder(d), holder(e))
      BY <1>8, <1>11, <2>5
    <3>2. Better(holder(c), holder(e))
      BY <2>1, <3>1, BetterTransitive
    <3>3. c.blob # e.blob
      BY <1>5, <2>1, <3>2, BetterTotal
    <3> QED
      BY <1>8, <3>2, <3>3
  <2> QED
    BY <2>2, <2>3, <2>4, <2>5
<1>12. MergeOrder(v) =
         [ k \in 1 .. Cardinality(A) |->
             CHOOSE x \in A : Cardinality({ y \in A : before(y, x) }) = k - 1 ]
  BY DEF MergeOrder, Sorted, A, holder
<1> HIDE DEF before
<1>13. IsOrder(A, R)
  BY <1>6, <1>9, <1>10, <1>11 DEF IsOrder
<1>14. \A x \in A : Below(A, R, x) = { y \in A : before(y, x) }
  BY <1>6 DEF Below
<1>15. MergeOrder(v) = Ranked(A, R)
  BY <1>12, <1>14 DEF Ranked
<1> DEFINE o == Ranked(A, R)
<1>16. /\ Cardinality(A) \in Nat /\ DOMAIN o = 1 .. Cardinality(A)
       /\ \A n \in DOMAIN o : o[n] \in A
       /\ \A m, n \in DOMAIN o : m < n => <<o[m], o[n]>> \in R
       /\ \A x \in A : \E n \in DOMAIN o : o[n] = x
  <2>1. Lists(o, A, R)
    BY <1>2, <1>13, RankedOrder
  <2> HIDE DEF o, R
  <2> QED
    BY <2>1 DEF Lists
<1>17. \A m, n \in DOMAIN o : o[m] = o[n] => m = n
  <2> HIDE DEF o
  <2> SUFFICES ASSUME NEW m \in DOMAIN o, NEW n \in DOMAIN o, o[m] = o[n], m < n
               PROVE  FALSE
    BY <1>16
  <2>1. <<o[m], o[m]>> \in R /\ o[m] \in A
    BY <1>16
  <2> QED
    BY <1>6, <1>9, <2>1
<1> QED
  BY <1>1, <1>15, <1>16, <1>17 DEF A

(* A frame's blobs.                                                        *)
Larger(a, b) == Area(a) > Area(b) \/ (Area(a) = Area(b) /\ a.lo < b.lo)

SizeOrder(S) == Sorted(S, Larger)

LEMMA SortedBySize ==
  ASSUME NEW S \in SUBSET Blob, IsFiniteSet(S), \A a, b \in S : a.lo = b.lo => a = b
  PROVE  SizeOrder(S) \in Seq(Blob) /\ \A n \in DOMAIN SizeOrder(S) : SizeOrder(S)[n] \in S
<1> DEFINE R == { p \in S \X S : Larger(p[1], p[2]) }
<1>1. \A a, b \in S : <<a, b>> \in R <=> Larger(a, b)
  OBVIOUS
<1>2. \A a \in S : a.lo \in Int /\ Area(a) \in Int
  BY DEF Blob, Area
<1> HIDE DEF R
<1>3. IsOrder(S, R)
  BY <1>1, <1>2 DEF IsOrder, Larger
<1>4. \A x \in S : Below(S, R, x) = { y \in S : Larger(y, x) }
  BY <1>1 DEF Below
<1>10. SizeOrder(S) = [ k \in 1 .. Cardinality(S) |->
                         CHOOSE x \in S : Cardinality({ y \in S : Larger(y, x) }) = k - 1 ]
  BY DEF SizeOrder, Sorted
<1>5. SizeOrder(S) = Ranked(S, R)
  BY <1>4, <1>10 DEF Ranked
<1> DEFINE o == Ranked(S, R)
<1>6. Cardinality(S) \in Nat /\ DOMAIN o = 1 .. Cardinality(S) /\ \A n \in DOMAIN o : o[n] \in S
  <2>1. Lists(o, S, R)
    BY <1>3, RankedOrder
  <2> HIDE DEF o, R
  <2> QED
    BY <2>1 DEF Lists
<1>8. o = [ n \in 1 .. Cardinality(S) |-> o[n] ]
  BY DEF Ranked
<1> HIDE DEF o
<1>9. o \in Seq(Blob)
  BY <1>6, <1>8
<1> QED
  BY <1>5, <1>6, <1>9 DEF o

LEMMA ComponentsFinite ==
  ASSUME NEW mask \in SUBSET Cells
  PROVE  /\ IsFiniteSet(Components(mask)) /\ Components(mask) \subseteq Blob
         /\ \A a, b \in Components(mask) : a.lo = b.lo => a = b
<1> DEFINE C == Components(mask)
           Q == { q \in mask \X mask : /\ q[1] .. q[2] \subseteq mask
                                       /\ q[1] <= q[2]
                                       /\ q[1] - 1 \notin mask /\ q[2] + 1 \notin mask }
           f == [ q \in Q |-> [lo |-> q[1], hi |-> q[2]] ]
<1>1. mask \subseteq Int /\ IsFiniteSet(mask)
  BY MultiGateAssumption, FS_Subset
<1>2. C = { f[q] : q \in Q }
  BY DEF Components
<1>3. \A b \in C : b \in Blob /\ b.lo .. b.hi \subseteq mask /\ b.hi + 1 \notin mask
  <2>1. \A q \in Q : /\ q[1] \in Int /\ q[2] \in Int /\ q[1] <= q[2]
                    /\ q[1] .. q[2] \subseteq mask /\ q[2] + 1 \notin mask
    BY <1>1
  <2>2. \A q \in Q : f[q].lo = q[1] /\ f[q].hi = q[2] /\ (f[q] \in [lo : Int, hi : Int])
    BY <2>1
  <2> HIDE DEF Q, f, C
  <2> QED
    BY <1>2, <2>1, <2>2 DEF Blob
<1>4. IsFiniteSet(C)
  <2>1. IsFiniteSet(mask \X mask)
    BY <1>1, FS_Product
  <2>2. Q \in SUBSET (mask \X mask)
    OBVIOUS
  <2> HIDE DEF Q
  <2>3. IsFiniteSet(Q)
    BY <2>1, <2>2, FS_Subset
  <2>4. f \in [Q -> C] /\ \A b \in C : \E q \in Q : f[q] = b
    BY <1>2
  <2>5. f \in Surjection(Q, C)
    BY <2>4 DEF Surjection
  <2> QED
    BY <2>3, <2>5, FS_Surjection
<1> HIDE DEF C, Q, f
<1>5. ASSUME NEW a \in C, NEW b \in C, a.lo = b.lo
      PROVE  ~ (a.hi < b.hi)
  <2>1. a \in Blob /\ b \in Blob /\ b.lo .. b.hi \subseteq mask /\ a.hi + 1 \notin mask
    BY <1>3
  <2>2. a.lo \in Int /\ a.hi \in Int /\ b.hi \in Int /\ a.lo <= a.hi
    BY <2>1 DEF Blob
  <2> QED
    BY <1>5, <2>1, <2>2
<1>6. ASSUME NEW a \in C, NEW b \in C, a.lo = b.lo
      PROVE  a = b
  <2>1. a \in Blob /\ b \in Blob
    BY <1>3
  <2>2. a.hi \in Int /\ b.hi \in Int /\ ~ (a.hi < b.hi) /\ ~ (b.hi < a.hi)
    BY <1>5, <1>6, <2>1 DEF Blob
  <2> QED
    BY <1>6, <2>1, <2>2 DEF Blob
<1> QED
  BY <1>3, <1>4, <1>6 DEF C

LEMMA SegmentBlobsType ==
  ASSUME NEW mask \in SUBSET Cells
  PROVE  SegmentBlobs(mask) \in Seq(Blob)
<1> DEFINE S == { b \in Components(mask) : Area(b) >= MinBlob }
<1>1. S \in SUBSET Components(mask)
  OBVIOUS
<1>2. SegmentBlobs(mask) = SubSeq(SizeOrder(S), 1, Min({MaxObjects, Len(SizeOrder(S))}))
  BY DEF SegmentBlobs, Sorted, Larger, SizeOrder
<1> DEFINE order == SizeOrder(S)
<1> HIDE DEF S
<1>3. S \in SUBSET Blob /\ IsFiniteSet(S) /\ \A a, b \in S : a.lo = b.lo => a = b
  BY <1>1, ComponentsFinite, FS_Subset
<1>4. order \in Seq(Blob)
  BY <1>3, SortedBySize
<1>5. MaxObjects \in Int /\ Len(order) \in Int /\ 0 <= MaxObjects /\ 0 <= Len(order)
  BY <1>4, MultiGateAssumption
<1> DEFINE m == Min({MaxObjects, Len(order)})
<1>6. m \in {MaxObjects, Len(order)} /\ m <= Len(order)
  BY <1>5, Extremes
<1>7. SegmentBlobs(mask) = SubSeq(order, 1, m)
  BY <1>2
<1> HIDE DEF m, order
<1>8. m \in 0 .. Len(order)
  BY <1>5, <1>6
<1> QED
  BY <1>4, <1>7, <1>8

-----------------------------------------------------------------------------
(* The tracks of a frame.                                                  *)

Event == [ id : Nat, ts : Nat ]

(* The debounce of a track that has no segment yet, in the moment at: its  *)
(* streak is as old as its frames allow.                                   *)
Debounced(t, at) ==
  /\ t.backdate <= t.lastActive /\ t.lastActive <= at
  /\ t.openId = NoId /\ t.active > 0 =>
       /\ t.active = 1 => t.backdate = at
       /\ DebounceFits => (OpenFrames - 1) * (at - t.backdate) <= (t.active - 1) * Horizon

LEMMA HorizonNatural == Horizon \in Nat /\ PreRoll <= Horizon /\ PostRoll <= Horizon /\ RecordPost <= Horizon
<1>1. PreRoll \in Nat /\ PostRoll \in Nat /\ RecordPost \in Nat /\ HorizonSlack \in Nat
  BY TrackerAssumption, MultiAssumption
<1>2. /\ Max({PostRoll, RecordPost}) \in {PostRoll, RecordPost}
      /\ PostRoll <= Max({PostRoll, RecordPost}) /\ RecordPost <= Max({PostRoll, RecordPost})
  BY <1>1, Extremes
<1> QED
  BY <1>1, <1>2 DEF Horizon

LEMMA TrackUpdates ==
  /\ \A t \in Track, x \in Blob : [t EXCEPT !.roi = x] \in Track
  /\ \A t \in Track, x \in BOOLEAN : [t EXCEPT !.seen = x] \in Track
  /\ \A t \in Track, x \in Nat :
       /\ [t EXCEPT !.openId = x] \in Track /\ [t EXCEPT !.active = x] \in Track
       /\ [t EXCEPT !.quiet = x] \in Track /\ [t EXCEPT !.merge = x] \in Track
       /\ [t EXCEPT !.backdate = x] \in Track /\ [t EXCEPT !.lastActive = x] \in Track
BY DEF Track

LEMMA TrackInactiveType ==
  ASSUME NEW t \in Track
  PROVE  /\ TrackInactive(t) \in Track
         /\ TrackInactive(t).openId = t.openId /\ TrackInactive(t).active = 0
         /\ TrackInactive(t).lastActive = t.lastActive /\ TrackInactive(t).backdate = t.backdate
         /\ TrackInactive(t).roi = t.roi
<1>1. t.quiet + 1 \in Nat
  BY DEF Track
<1> DEFINE a == [t EXCEPT !.seen = FALSE]
           b == [a EXCEPT !.active = 0]
           c == [b EXCEPT !.quiet = t.quiet + 1]
<1>2. a \in Track
  BY TrackUpdates
<1>3. b \in Track
  BY <1>2, TrackUpdates
<1>4. c \in Track
  BY <1>1, <1>3, TrackUpdates
<1>5. TrackInactive(t) = c
  BY DEF TrackInactive
<1>6. /\ TrackInactive(t).openId = t.openId /\ TrackInactive(t).active = 0
      /\ TrackInactive(t).lastActive = t.lastActive /\ TrackInactive(t).backdate = t.backdate
      /\ TrackInactive(t).roi = t.roi
  BY DEF TrackInactive, Track
<1> HIDE DEF c
<1> QED
  BY <1>4, <1>5, <1>6

LEMMA TrackActiveType ==
  ASSUME NEW t \in Track, NEW blob \in Blob, NEW ts \in Nat
  PROVE  LET u == TrackActive(t, blob, ts)
         IN  /\ u \in Track
             /\ u.openId = t.openId /\ u.active = t.active + 1 /\ u.lastActive = ts
             /\ u.backdate = (IF t.active = 0 THEN ts ELSE t.backdate) /\ u.roi = blob
<1>1. t.active + 1 \in Nat /\ (IF t.active = 0 THEN ts ELSE t.backdate) \in Nat
  BY DEF Track
<1> DEFINE a == [t EXCEPT !.roi = blob]
           b == [a EXCEPT !.seen = TRUE]
           c == [b EXCEPT !.quiet = 0]
           d == [c EXCEPT !.active = t.active + 1]
           e == [d EXCEPT !.backdate = IF t.active = 0 THEN ts ELSE t.backdate]
           f == [e EXCEPT !.lastActive = ts]
           u == TrackActive(t, blob, ts)
<1>2. a \in Track
  BY TrackUpdates
<1>3. b \in Track
  BY <1>2, TrackUpdates
<1>4. c \in Track
  BY <1>3, TrackUpdates
<1>5. d \in Track
  BY <1>1, <1>4, TrackUpdates
<1>6. e \in Track
  BY <1>1, <1>5, TrackUpdates
<1>7. f \in Track
  BY <1>6, TrackUpdates
<1>8. u = f
  BY DEF TrackActive
<1>9. /\ u.openId = t.openId /\ u.active = t.active + 1 /\ u.lastActive = ts
      /\ u.backdate = (IF t.active = 0 THEN ts ELSE t.backdate) /\ u.roi = blob
  BY DEF TrackActive, Track
<1> HIDE DEF f, u
<1> QED
  BY <1>7, <1>8, <1>9 DEF u

(* A frame later the streak goes on, starts anew, or is over.              *)
LEMMA DebounceGoesOn ==
  ASSUME NEW t \in Track, NEW at \in Nat, NEW step \in FrameSteps, Debounced(t, at),
         NEW blob \in Blob
  PROVE  /\ TrackActive(t, blob, at + step) \in Track
         /\ Debounced(TrackActive(t, blob, at + step), at + step)
         /\ TrackInactive(t) \in Track /\ Debounced(TrackInactive(t), at + step)
         /\ SpawnTrack(blob, at + step) \in Track
         /\ Debounced(SpawnTrack(blob, at + step), at + step)
<1> DEFINE ts == at + step
           a  == TrackActive(t, blob, ts)
           i  == TrackInactive(t)
           s  == SpawnTrack(blob, ts)
           bd == t.backdate
           k  == t.active
           F  == OpenFrames - 1
           H  == Horizon
<1>1. step \in Nat \ {0} /\ ts \in Nat /\ OpenFrames \in Nat \ {0} /\ Horizon \in Nat
  BY MultiAssumption, MultiGateAssumption, HorizonNatural
<1>2. /\ t.openId \in Nat /\ t.active \in Nat /\ t.quiet \in Nat /\ t.merge \in Nat
      /\ t.backdate \in Nat /\ t.lastActive \in Nat /\ t.roi \in Blob /\ t.seen \in BOOLEAN
  BY DEF Track
<1>3. /\ a.openId = t.openId /\ a.active = t.active + 1 /\ a.lastActive = ts
      /\ a.backdate = (IF t.active = 0 THEN ts ELSE t.backdate) /\ a \in Track
  BY <1>1, TrackActiveType
<1>4. /\ i.openId = t.openId /\ i.active = 0 /\ i.lastActive = t.lastActive
      /\ i.backdate = t.backdate /\ i \in Track
  BY TrackInactiveType
<1>5. /\ s.openId = NoId /\ s.active = 1 /\ s.lastActive = ts /\ s.backdate = ts /\ s \in Track
  BY <1>1 DEF SpawnTrack, Track, NoId
<1>6. F * 0 = 0 /\ 0 * H = 0
  BY <1>1
<1>7. ASSUME DebounceFits, k > 0, t.openId = NoId
      PROVE  F * (ts - bd) <= k * H
  <2>1. F * step <= H
    BY <1>7 DEF DebounceFits
  <2>2. F * (at - bd) <= (k - 1) * H
    BY <1>7 DEF Debounced
  <2>3. F * (ts - bd) = F * (at - bd) + F * step /\ (k - 1) * H + H = k * H
    <3>1. \A x, y, z \in Int : x * (y + z) = x * y + x * z
      BY SMT
    <3>2. F \in Int /\ at - bd \in Int /\ step \in Int /\ H \in Int /\ k - 1 \in Int
      BY <1>1, <1>2
    <3>3. ts - bd = (at - bd) + step /\ k = (k - 1) + 1
      BY <1>1, <1>2
    <3>4. F * ((at - bd) + step) = F * (at - bd) + F * step
      BY <3>1, <3>2
    <3>5. \A x, y \in Int : (x + 1) * y = x * y + y
      BY SMT
    <3>6. ((k - 1) + 1) * H = (k - 1) * H + H
      BY <3>2, <3>5
    <3> HIDE DEF F, H, k, bd, ts
    <3> QED
      BY <3>3, <3>4, <3>6
  <2>4. F * (ts - bd) \in Int /\ F * (at - bd) \in Int /\ F * step \in Int /\ (k - 1) * H \in Int /\ k * H \in Int
    BY <1>1, <1>2
  <2> HIDE DEF F, H, k, bd, ts
  <2> QED
    BY <1>1, <2>1, <2>2, <2>3, <2>4 DEF H
<1>8. Debounced(a, ts)
  <2>1. a.backdate <= a.lastActive /\ a.lastActive <= ts
    BY <1>1, <1>2, <1>3 DEF Debounced
  <2>2. CASE t.active = 0
    <3>1. a.active - 1 = 0 /\ ts - a.backdate = 0
      BY <1>1, <1>3, <2>2
    <3> QED
      BY <1>1, <1>3, <1>6, <2>1, <2>2, <3>1 DEF Debounced
  <2>3. CASE t.active # 0
    <3>1. a.active - 1 = k /\ a.backdate = bd /\ a.active # 1 /\ k > 0
      BY <1>1, <1>2, <1>3, <2>3
    <3> QED
      BY <1>3, <1>7, <2>1, <3>1 DEF Debounced
  <2> QED
    BY <2>2, <2>3
<1>9. Debounced(i, ts)
  BY <1>1, <1>2, <1>4 DEF Debounced
<1>10. Debounced(s, ts)
  <2>1. s.active - 1 = 0 /\ ts - s.backdate = 0
    BY <1>1, <1>5
  <2> QED
    BY <1>1, <1>5, <1>6, <2>1 DEF Debounced
<1> QED
  BY <1>3, <1>4, <1>5, <1>8, <1>9, <1>10

(* CLOSE events, each of a track with a segment.                           *)
LEMMA ClosesOf ==
  ASSUME NEW n \in Nat, NEW s \in [1 .. n -> Track]
  PROVE  /\ Closes(s) \in Seq(Event)
         /\ \A k \in DOMAIN Closes(s) : \E i \in 1 .. n :
              s[i].openId # NoId /\ Closes(s)[k] = CloseOf(s[i])
<1> DEFINE I == { i \in DOMAIN s : s[i].openId # NoId }
<1>1. DOMAIN s = 1 .. n /\ I \in SUBSET (1 .. n)
  OBVIOUS
<1>3. Closes(s) = [ k \in DOMAIN InOrder(s, I) |-> CloseOf(InOrder(s, I)[k]) ]
  BY DEF Closes
<1> HIDE DEF I
<1> DEFINE o == Ranked(I, Precedes(I))
<1>2. /\ InOrder(s, I) = [ k \in DOMAIN o |-> s[o[k]] ]
      /\ Cardinality(I) \in Nat /\ DOMAIN o = 1 .. Cardinality(I)
      /\ \A k \in DOMAIN o : o[k] \in I
  <2>1. ReadAlong(s, I, o)
    BY <1>1, InOrderElements
  <2> HIDE DEF o
  <2> QED
    BY <2>1 DEF ReadAlong
<1> DEFINE c == Closes(s)
<1> HIDE DEF o, c
<1>4. DOMAIN c = DOMAIN o /\ \A k \in DOMAIN o : c[k] = CloseOf(s[o[k]])
  BY <1>2, <1>3 DEF c
<1>5. \A k \in DOMAIN o : o[k] \in 1 .. n /\ s[o[k]].openId # NoId
  BY <1>2 DEF I
<1>6. \A k \in DOMAIN o : c[k] \in Event
  <2> TAKE k \in DOMAIN o
  <2>1. s[o[k]] \in Track
    BY <1>5
  <2>2. s[o[k]].openId \in Nat /\ s[o[k]].lastActive \in Nat
    BY <2>1 DEF Track
  <2> QED
    BY <1>4, <2>2 DEF CloseOf, Event
<1>7. c = [ k \in 1 .. Cardinality(I) |-> c[k] ]
  BY <1>2, <1>3 DEF c
<1>8. c \in Seq(Event)
  BY <1>2, <1>6, <1>7
<1> QED
  BY <1>4, <1>5, <1>8 DEF c

(* A live track in the middle of a frame, and after it.                    *)
Grown(t, n, at) ==
  Debounced(t, at) /\ t.openId <= n /\ (t.openId = NoId => t.active <= OpenFrames)

TrackOk(t, n, at) ==
  Debounced(t, at) /\ t.openId <= n /\ (t.openId = NoId => t.active < OpenFrames)

OneTrackEach(tracks) ==
  \A i, j \in DOMAIN tracks : tracks[i].openId = tracks[j].openId /\ tracks[i].openId # NoId => i = j

(* Of the tracks that open in a frame the m-th gets the m-th new id.       *)
LEMMA NumberedInOrder ==
  ASSUME NEW after \in Seq(Track), NEW n \in Nat
  PROVE  LET I == { i \in DOMAIN after : Opens(after[i]) }
             o == Ranked(I, Precedes(I))
             N == Numbered(after, n)
         IN  /\ DOMAIN N = 1 .. Len(after)
             /\ \A i \in DOMAIN after \ I : N[i] = after[i]
             /\ Cardinality(I) \in Nat /\ DOMAIN o = 1 .. Cardinality(I)
             /\ \A m \in DOMAIN o : o[m] \in I /\ N[o[m]] = [after[o[m]] EXCEPT !.openId = n + m]
             /\ \A i \in I : \E m \in DOMAIN o : o[m] = i
<1> DEFINE L == Len(after)
           I == { i \in DOMAIN after : Opens(after[i]) }
           N == Numbered(after, n)
<1>1. L \in Nat /\ DOMAIN after = 1 .. L /\ I \in SUBSET (1 .. L)
  OBVIOUS
<1>2. DOMAIN N = 1 .. L
  BY <1>1 DEF Numbered
<1>3. \A i \in 1 .. L :
        N[i] = IF i \in I
               THEN [ after[i] EXCEPT !.openId = n + Cardinality({ k \in 1 .. i : Opens(after[k]) }) ]
               ELSE after[i]
  BY <1>1 DEF Numbered
<1>4. \A i \in 1 .. L : { k \in 1 .. i : Opens(after[k]) } = { k \in I : k <= i }
  BY <1>1
<1> HIDE DEF I, N, L
<1> DEFINE o == Ranked(I, Precedes(I))
<1>5. /\ Cardinality(I) \in Nat /\ DOMAIN o = 1 .. Cardinality(I)
      /\ \A k \in DOMAIN o : o[k] \in I
      /\ \A k, l \in DOMAIN o : k < l => o[k] < o[l]
      /\ \A i \in I : \E k \in DOMAIN o : o[k] = i
  <2>1. \E s : ReadAlong(s, I, o)
    BY <1>1, InOrderElements
  <2> HIDE DEF o
  <2> QED
    BY <2>1 DEF ReadAlong
<1> HIDE DEF o
<1>6. ASSUME NEW m \in DOMAIN o
      PROVE  Cardinality({ k \in I : k <= o[m] }) = m
  <2> DEFINE T == { k \in I : k <= o[m] }
             f == [ k \in 1 .. m |-> o[k] ]
  <2>1. m \in Nat /\ 1 .. m \subseteq DOMAIN o /\ \A k \in DOMAIN o : o[k] \in Int /\ k \in Int
    <3>1. I \subseteq Int
      BY <1>1
    <3>2. \A k \in DOMAIN o : o[k] \in Int
      BY <1>5, <3>1
    <3>3. m \in 1 .. Cardinality(I) /\ \A k \in 1 .. Cardinality(I) : k \in DOMAIN o
      BY <1>5
    <3>4. m \in Nat /\ 1 .. m \subseteq 1 .. Cardinality(I)
      BY <1>5, <3>3
    <3>5. \A k \in DOMAIN o : k \in Int
      BY <1>5
    <3> QED
      BY <3>2, <3>3, <3>4, <3>5
  <2>2. \A k \in 1 .. m : f[k] \in T
    <3> TAKE k \in 1 .. m
    <3>1. k = m \/ k < m
      BY <2>1
    <3> QED
      BY <1>5, <2>1, <3>1
  <2>3. \A i \in T : \E k \in 1 .. m : f[k] = i
    <3> TAKE i \in T
    <3>1. PICK k \in DOMAIN o : o[k] = i
      BY <1>5
    <3>2. ~ (m < k)
      BY <1>5, <2>1, <3>1
    <3>3. k \in 1 .. m
      BY <1>5, <2>1, <3>2
    <3> QED
      BY <3>1, <3>3
  <2>4. \A k, l \in 1 .. m : f[k] = f[l] => k = l
    <3> SUFFICES ASSUME NEW k \in 1 .. m, NEW l \in 1 .. m, f[k] = f[l], k < l
                 PROVE  FALSE
      BY <2>1
    <3> QED
      BY <1>5, <2>1
  <2>5. f \in [1 .. m -> T]
    BY <2>2
  <2>6. f \in Bijection(1 .. m, T)
    <3> HIDE DEF f, T
    <3>1. f \in Surjection(1 .. m, T)
      BY <2>3, <2>5 DEF Surjection
    <3>2. f \in Injection(1 .. m, T)
      BY <2>4, <2>5 DEF Injection, IsInjective
    <3> QED
      BY <3>1, <3>2 DEF Bijection
  <2>7. IsFiniteSet(1 .. m) /\ Cardinality(1 .. m) = m
    BY <2>1, FS_Interval
  <2> HIDE DEF f, T
  <2>8. Cardinality(T) = m
    BY <2>6, <2>7, FS_Bijection DEF ExistsBijection
  <2> QED
    BY <2>8 DEF T
<1>7. ASSUME NEW m \in DOMAIN o
      PROVE  N[o[m]] = [after[o[m]] EXCEPT !.openId = n + m]
  <2>1. o[m] \in I /\ o[m] \in 1 .. L
    BY <1>1, <1>5
  <2> QED
    BY <1>3, <1>4, <1>6, <2>1
<1> QED
  BY <1>1, <1>2, <1>3, <1>5, <1>7 DEF I, o, N, L

LEMMA NumberedOk ==
  ASSUME NEW after \in Seq(Track), NEW n \in Nat, NEW ts \in Nat, OneTrackEach(after),
         \A i \in DOMAIN after : Grown(after[i], n, ts)
  PROVE  LET N == Numbered(after, n)
             I == { i \in DOMAIN N : N[i].openId > n }
             o == Ranked(I, Precedes(I))
             c == Cardinality(I)
         IN  /\ N \in Seq(Track) /\ Len(N) = Len(after) /\ OneTrackEach(N)
             /\ c \in Nat /\ DOMAIN o = 1 .. c
             /\ \A i \in DOMAIN N : TrackOk(N[i], n + c, ts)
             /\ \A i \in DOMAIN N : N[i].openId <= n => N[i] = after[i]
             /\ \A i \in DOMAIN N : N[i].lastActive = after[i].lastActive
             /\ \A m \in 1 .. c :
                  /\ o[m] \in I /\ N[o[m]].openId = n + m
                  /\ N[o[m]].backdate <= ts /\ N[o[m]].backdate <= N[o[m]].lastActive
                  /\ DebounceFits => ts - N[o[m]].backdate <= Horizon
<1> DEFINE L == Len(after)
           J == { i \in DOMAIN after : Opens(after[i]) }
           N == Numbered(after, n)
           I == { i \in DOMAIN N : N[i].openId > n }
<1>1. L \in Nat /\ DOMAIN after = 1 .. L /\ J \subseteq 1 .. L
      /\ \A i \in 1 .. L : after[i] \in Track
  OBVIOUS
<1>2. \A i \in 1 .. L : i \in J <=> after[i].openId = NoId /\ after[i].active >= OpenFrames
  BY <1>1 DEF Opens
<1>3. \A i \in 1 .. L :
        /\ after[i].openId \in Nat /\ after[i].active \in Nat
        /\ after[i].backdate \in Nat /\ after[i].lastActive \in Nat
  BY <1>1 DEF Track
<1>4. OpenFrames \in Nat \ {0} /\ Horizon \in Nat
  BY MultiGateAssumption, HorizonNatural
<1> DEFINE p == Ranked(J, Precedes(J))
           c == Cardinality(J)
<1>16. /\ DOMAIN N = 1 .. Len(after)
       /\ \A i \in DOMAIN after \ J : N[i] = after[i]
       /\ c \in Nat /\ DOMAIN p = 1 .. c
       /\ \A m \in DOMAIN p : p[m] \in J /\ N[p[m]] = [after[p[m]] EXCEPT !.openId = n + m]
       /\ \A i \in J : \E m \in DOMAIN p : p[m] = i
  BY NumberedInOrder
<1> HIDE DEF J, L, N, p, c
<1>5. /\ DOMAIN N = 1 .. L
      /\ \A i \in (1 .. L) \ J : N[i] = after[i]
      /\ c \in Nat /\ DOMAIN p = 1 .. c
      /\ \A m \in 1 .. c : p[m] \in J /\ N[p[m]] = [after[p[m]] EXCEPT !.openId = n + m]
      /\ \A i \in J : \E m \in 1 .. c : p[m] = i
  BY <1>1, <1>16 DEF L
<1>6. \A m \in 1 .. c :
        LET t == after[p[m]]
        IN  /\ p[m] \in 1 .. L /\ N[p[m]] \in Track
            /\ N[p[m]].openId = n + m /\ N[p[m]].active = t.active
            /\ N[p[m]].backdate = t.backdate /\ N[p[m]].lastActive = t.lastActive
  <2> TAKE m \in 1 .. c
  <2>1. p[m] \in J /\ n + m \in Nat
    <3>1. c \in Nat /\ p[m] \in J
      BY <1>5
    <3> QED
      BY <3>1
  <2>4. p[m] \in 1 .. L
    BY <1>1, <2>1
  <2>5. after[p[m]] \in Track
    BY <1>1, <2>4
  <2>2. N[p[m]] = [after[p[m]] EXCEPT !.openId = n + m]
    BY <1>5
  <2>3. N[p[m]] \in Track
    BY <2>1, <2>2, <2>5, TrackUpdates
  <2> QED
    BY <2>2, <2>3, <2>4, <2>5 DEF Track
<1>7. \A i \in 1 .. L : N[i] \in Track
  BY <1>1, <1>5, <1>6
<1>8. N \in Seq(Track) /\ Len(N) = L
  <2>1. N = [ i \in 1 .. L |-> N[i] ]
    BY <1>1 DEF N, Numbered
  <2> QED
    BY <1>1, <1>7, <2>1
<1>9. I = J
  <2>1. \A i \in 1 .. L : i \notin J => ~ (N[i].openId > n)
    BY <1>1, <1>3, <1>5 DEF Grown
  <2>2. \A i \in J : i \in 1 .. L /\ N[i].openId > n
    BY <1>1, <1>5, <1>6
  <2> QED
    BY <1>5, <2>1, <2>2
<1> HIDE DEF I
<1>10. OneTrackEach(N)
  <2> SUFFICES ASSUME NEW i \in 1 .. L, NEW j \in 1 .. L,
                      N[i].openId = N[j].openId, N[i].openId # NoId
               PROVE  i = j
    BY <1>5 DEF OneTrackEach
  <2>1. CASE i \notin J /\ j \notin J
    BY <1>1, <1>5, <2>1 DEF OneTrackEach
  <2>2. CASE i \in J /\ j \in J
    <3>1. PICK k \in 1 .. c : p[k] = i
      BY <1>5, <2>2
    <3>2. PICK l \in 1 .. c : p[l] = j
      BY <1>5, <2>2
    <3>3. n + k = n + l
      BY <1>6, <3>1, <3>2
    <3> QED
      BY <1>5, <3>1, <3>2, <3>3
  <2>3. CASE i \in J /\ j \notin J
    <3>1. N[i].openId > n /\ ~ (N[j].openId > n)
      BY <1>5, <1>9, <2>3 DEF I
    <3> QED
      BY <3>1
  <2>4. CASE i \notin J /\ j \in J
    <3>1. ~ (N[i].openId > n) /\ N[j].openId > n
      BY <1>5, <1>9, <2>4 DEF I
    <3> QED
      BY <3>1
  <2> QED
    BY <2>1, <2>2, <2>3, <2>4
<1>11. ASSUME NEW i \in 1 .. L
       PROVE  TrackOk(N[i], n + c, ts) /\ N[i].lastActive = after[i].lastActive
  <2>1. Grown(after[i], n, ts)
    BY <1>1
  <2>2. CASE i \notin J
    BY <1>2, <1>3, <1>4, <1>5, <2>1, <2>2 DEF TrackOk, Grown
  <2>3. CASE i \in J
    <3>1. PICK m \in 1 .. c : p[m] = i
      BY <1>5, <2>3
    <3>2. /\ N[i].openId = n + m /\ N[i].openId # NoId /\ N[i].openId <= n + c
          /\ N[i].backdate = after[i].backdate /\ N[i].lastActive = after[i].lastActive
      BY <1>5, <1>6, <3>1 DEF NoId
    <3> QED
      BY <2>1, <3>2 DEF TrackOk, Grown, Debounced
  <2> QED
    BY <2>2, <2>3
<1>12. \A i \in 1 .. L : N[i].openId <= n => N[i] = after[i]
  <2> SUFFICES ASSUME NEW i \in 1 .. L, i \in J PROVE ~ (N[i].openId <= n)
    BY <1>5
  <2>1. PICK m \in 1 .. c : p[m] = i
    BY <1>5
  <2>2. N[i].openId = n + m
    BY <1>6, <2>1
  <2> QED
    BY <1>5, <2>2
<1>13. ASSUME NEW m \in 1 .. c
       PROVE  /\ p[m] \in I /\ N[p[m]].openId = n + m
              /\ N[p[m]].backdate <= ts /\ N[p[m]].backdate <= N[p[m]].lastActive
              /\ DebounceFits => ts - N[p[m]].backdate <= Horizon
  <2> DEFINE t == after[p[m]]
             F == OpenFrames - 1
             w == ts - t.backdate
             H == Horizon
  <2>1. p[m] \in J /\ p[m] \in 1 .. L
    BY <1>1, <1>5
  <2>2. Grown(t, n, ts) /\ t.openId = NoId /\ t.active >= OpenFrames
    BY <1>1, <1>2, <2>1
  <2>3. t.active \in Nat /\ t.backdate \in Nat /\ t.lastActive \in Nat
    BY <1>3, <2>1
  <2>4. t.active = OpenFrames /\ t.active > 0
    BY <1>4, <2>2, <2>3 DEF Grown
  <2>5. t.backdate <= t.lastActive /\ t.lastActive <= ts
    BY <2>2 DEF Grown, Debounced
  <2>6. ASSUME DebounceFits
        PROVE  w <= H
    <3>1. CASE OpenFrames = 1
      <4>1. t.backdate = ts
        BY <2>2, <2>4, <3>1 DEF Grown, Debounced
      <4> QED
        BY <1>4, <2>3, <4>1
    <3>2. CASE OpenFrames # 1
      <4>1. (OpenFrames - 1) * (ts - t.backdate) <= (t.active - 1) * Horizon
        BY <2>2, <2>4, <2>6 DEF Grown, Debounced
      <4>2. F * w <= F * H
        BY <2>4, <4>1
      <4>3. F \in Nat \ {0} /\ w \in Int /\ H \in Int
        BY <1>4, <2>3, <3>2
      <4> HIDE DEF F, w, H
      <4>4. \A x, y \in Int : \A z \in Nat \ {0} : z * x <= z * y => x <= y
        BY SMT
      <4> QED
        BY <4>2, <4>3, <4>4
    <3> QED
      BY <3>1, <3>2
  <2> QED
    BY <1>6, <1>9, <2>1, <2>3, <2>5, <2>6
<1> DEFINE o == Ranked(I, Precedes(I))
<1>14. Cardinality(I) = c /\ o = p
  BY <1>9 DEF c, p
<1> HIDE DEF o
<1>15. /\ Cardinality(I) \in Nat /\ DOMAIN o = 1 .. Cardinality(I)
       /\ \A i \in DOMAIN N : TrackOk(N[i], n + Cardinality(I), ts)
       /\ \A i \in DOMAIN N : N[i].openId <= n => N[i] = after[i]
       /\ \A i \in DOMAIN N : N[i].lastActive = after[i].lastActive
       /\ \A m \in 1 .. Cardinality(I) :
            /\ o[m] \in I /\ N[o[m]].openId = n + m
            /\ N[o[m]].backdate <= ts /\ N[o[m]].backdate <= N[o[m]].lastActive
            /\ DebounceFits => ts - N[o[m]].backdate <= Horizon
  BY <1>5, <1>11, <1>12, <1>13, <1>14
<1> QED
  BY <1>8, <1>10, <1>15 DEF I, o, N, L

(* What a frame makes of a track: it saw it, or it did not, and counted a  *)
(* contention or none.                                                     *)
LEMMA TrackGrows ==
  ASSUME NEW t \in Track, NEW n \in Nat, NEW at \in Nat, NEW step \in FrameSteps, TrackOk(t, n, at),
         NEW u, u = TrackInactive(t) \/ \E blob \in Blob : u = TrackActive(t, blob, at + step),
         NEW m \in Nat
  PROVE  LET w == [u EXCEPT !.merge = m]
         IN  /\ w \in Track /\ Grown(w, n, at + step)
             /\ w.openId = t.openId /\ t.lastActive <= w.lastActive
<1>1. step \in Nat /\ at + step \in Nat /\ OpenFrames \in Nat \ {0}
  BY MultiAssumption, MultiGateAssumption
<1>2. /\ t.openId \in Nat /\ t.active \in Nat /\ t.lastActive \in Nat
      /\ Debounced(t, at) /\ t.lastActive <= at /\ t.openId <= n
      /\ t.openId = NoId => t.active < OpenFrames
  BY DEF Track, TrackOk, Debounced
<1>3. /\ u \in Track /\ Debounced(u, at + step) /\ u.openId = t.openId
      /\ t.lastActive <= u.lastActive /\ u.active <= t.active + 1
  <2>1. CASE u = TrackInactive(t)
    <3>1. [lo |-> 0, hi |-> 0] \in Blob
      BY DEF Blob
    <3>2. TrackInactive(t) \in Track /\ Debounced(TrackInactive(t), at + step)
      BY <1>2, <3>1, DebounceGoesOn
    <3>3. /\ TrackInactive(t).openId = t.openId /\ TrackInactive(t).active = 0
          /\ TrackInactive(t).lastActive = t.lastActive
      BY TrackInactiveType
    <3> QED
      BY <1>2, <2>1, <3>2, <3>3
  <2>2. CASE \E blob \in Blob : u = TrackActive(t, blob, at + step)
    <3>1. PICK blob \in Blob : u = TrackActive(t, blob, at + step)
      BY <2>2
    <3>2. TrackActive(t, blob, at + step) \in Track /\ Debounced(TrackActive(t, blob, at + step), at + step)
      BY <1>2, DebounceGoesOn
    <3>3. /\ TrackActive(t, blob, at + step).openId = t.openId
          /\ TrackActive(t, blob, at + step).active = t.active + 1
          /\ TrackActive(t, blob, at + step).lastActive = at + step
      BY <1>1, TrackActiveType
    <3> QED
      BY <1>1, <1>2, <3>1, <3>2, <3>3
  <2> QED
    BY <2>1, <2>2
<1> DEFINE w == [u EXCEPT !.merge = m]
<1>4. /\ w \in Track
      /\ w.openId = u.openId /\ w.active = u.active
      /\ w.backdate = u.backdate /\ w.lastActive = u.lastActive
  <2>1. w \in Track
    BY <1>3, TrackUpdates
  <2> QED
    BY <1>3, <2>1 DEF Track
<1>5. u.active \in Nat
  BY <1>3 DEF Track
<1> HIDE DEF w
<1>6. Debounced(w, at + step)
  BY <1>3, <1>4 DEF Debounced
<1>7. Grown(w, n, at + step)
  BY <1>1, <1>2, <1>3, <1>4, <1>5, <1>6 DEF Grown
<1> QED
  BY <1>3, <1>4, <1>7 DEF w

LEMMA SpawnGrows ==
  ASSUME NEW blob \in Blob, NEW n \in Nat, NEW ts \in Nat
  PROVE  /\ SpawnTrack(blob, ts) \in Track /\ Grown(SpawnTrack(blob, ts), n, ts)
         /\ SpawnTrack(blob, ts).openId = NoId
<1> DEFINE s == SpawnTrack(blob, ts)
<1>1. /\ s.openId = NoId /\ s.active = 1 /\ s.lastActive = ts /\ s.backdate = ts /\ s \in Track
  BY DEF SpawnTrack, Track, NoId
<1>2. OpenFrames \in Nat \ {0} /\ Horizon \in Nat
  BY MultiGateAssumption, HorizonNatural
<1>3. s.active - 1 = 0 /\ ts - s.backdate = 0 /\ (OpenFrames - 1) * 0 = 0 /\ 0 * Horizon = 0
  BY <1>1, <1>2
<1> HIDE DEF s
<1>4. Debounced(s, ts)
  BY <1>1, <1>3 DEF Debounced
<1>5. Grown(s, n, ts)
  BY <1>1, <1>2, <1>4 DEF Grown, NoId
<1> QED
  BY <1>1, <1>5 DEF s

(* The elements of a sequence at some of its indices are a sequence.       *)
Picks(s, I, x) ==
  \E o \in [1 .. Len(x) -> I] :
    /\ \A k \in 1 .. Len(x) : x[k] = s[o[k]]
    /\ \A k, l \in 1 .. Len(x) : o[k] = o[l] => k = l
    /\ \A i \in I : \E k \in 1 .. Len(x) : o[k] = i

LEMMA InOrderType ==
  ASSUME NEW T, NEW n \in Nat, NEW s \in [1 .. n -> T], NEW I \in SUBSET (1 .. n)
  PROVE  InOrder(s, I) \in Seq(T) /\ Picks(s, I, InOrder(s, I))
<1> DEFINE o == Ranked(I, Precedes(I))
           c == Cardinality(I)
           x == InOrder(s, I)
<1>1. /\ x = [ k \in DOMAIN o |-> s[o[k]] ]
      /\ c \in Nat /\ DOMAIN o = 1 .. c
      /\ \A k \in DOMAIN o : o[k] \in I
      /\ \A k, l \in DOMAIN o : k < l => o[k] < o[l]
      /\ \A i \in I : \E k \in DOMAIN o : o[k] = i
  <2>1. ReadAlong(s, I, o)
    BY InOrderElements
  <2> HIDE DEF o
  <2> QED
    BY <2>1 DEF ReadAlong
<1>2. o = [ k \in 1 .. c |-> o[k] ]
  BY DEF Ranked
<1> HIDE DEF o, c, x
<1>3. x = [ k \in 1 .. c |-> s[o[k]] ] /\ \A k \in 1 .. c : s[o[k]] \in T
  BY <1>1
<1>4. x \in Seq(T) /\ Len(x) = c
  BY <1>1, <1>3
<1>5. o \in [1 .. c -> I]
  BY <1>1, <1>2
<1>6. \A k, l \in 1 .. c : o[k] = o[l] => k = l
  <2> SUFFICES ASSUME NEW k \in 1 .. c, NEW l \in 1 .. c, o[k] = o[l], k < l
               PROVE  FALSE
    BY <1>1
  <2>1. o[k] \in I /\ o[l] \in I /\ o[k] < o[l]
    BY <1>1
  <2>2. \A i, j \in I : i < j => i # j
    OBVIOUS
  <2> QED
    BY <2>1, <2>2
<1>7. Picks(s, I, x)
  BY <1>1, <1>3, <1>4, <1>5, <1>6 DEF Picks
<1> QED
  BY <1>4, <1>7 DEF x

(* _associate: the tracks it leaves, before the new ones are numbered, and *)
(* what it closes: tracks with a segment that are not left.                *)
Kept(old, t) == t.openId # NoId => \E i \in DOMAIN old : /\ old[i].openId = t.openId
                                                         /\ old[i].lastActive <= t.lastActive

GivenUp(old, after, c) ==
  \E i \in DOMAIN old : /\ old[i].openId # NoId /\ c = CloseOf(old[i])
                        /\ \A k \in DOMAIN after : after[k].openId # old[i].openId

(* A track that got a blob and is not given up stays.                      *)
Stays(tracks, blobs, i, after) ==
  i \notin Tracks(Absorbed(View(tracks, blobs))) /\ (\E a \in Assigned(View(tracks, blobs)) : a[1] = i)
    => \E k \in DOMAIN after : after[k].openId = tracks[i].openId

LEMMA AssociateKeeps ==
  ASSUME NEW tracks \in Seq(Track), NEW blobs \in Seq(Blob), NEW n \in Nat, NEW at \in Nat,
         NEW step \in FrameSteps, \A i \in DOMAIN tracks : TrackOk(tracks[i], n, at),
         OneTrackEach(tracks)
  PROVE  \E after \in Seq(Track) :
           LET result == Associate(tracks, blobs, n, at + step)
           IN  /\ result.tracks = Numbered(after, n)
               /\ OneTrackEach(after)
               /\ \A i \in DOMAIN after : Grown(after[i], n, at + step) /\ Kept(tracks, after[i])
               /\ \A i \in DOMAIN tracks : Stays(tracks, blobs, i, after)
               /\ result.closes \in Seq(Event)
               /\ \A k \in DOMAIN result.closes : GivenUp(tracks, after, result.closes[k])
<1> DEFINE ts         == at + step
           v          == View(tracks, blobs)
           assigned   == Assigned(v)
           contending == Tracks(Contending(v))
           absorbed   == Tracks(Absorbed(v))
           merged     == MergeOrder(v)
           grown(i) ==
             IF \E a \in assigned : a[1] = i
             THEN TrackActive(tracks[i], blobs[(CHOOSE a \in assigned : a[1] = i)[2]], ts)
             ELSE TrackInactive(tracks[i])
           aged == [ i \in DOMAIN tracks |->
                     [grown(i) EXCEPT !.merge = IF i \in contending THEN @ + 1 ELSE 0] ]
           rest  == DOMAIN tracks \ absorbed
           quiet == { i \in rest : IsGone(aged[i]) }
           new   == { j \in DOMAIN blobs : ~ \E a \in assigned : a[2] = j }
           fresh == InOrder(blobs, new)
           kept  == InOrder(aged, rest \ quiet)
           spawned == [ k \in DOMAIN fresh |-> SpawnTrack(fresh[k], ts) ]
           after == kept \o spawned
           given == [ k \in DOMAIN merged |-> tracks[merged[k].track] ]
           gone  == InOrder(tracks, quiet)
           result == Associate(tracks, blobs, n, ts)
           L == Len(tracks)
<1>1. L \in Nat /\ DOMAIN tracks = 1 .. L /\ \A i \in 1 .. L : tracks[i] \in Track
  OBVIOUS
<1>2. result = [ tracks |-> Numbered(after, n), closes |-> Closes(given) \o Closes(gone) ]
  BY DEF Associate
<1>3. ViewOk(v) /\ v.tracks = tracks /\ v.blobs = blobs
  BY ViewIsOk
<1>4. ts \in Nat /\ step \in Nat
  BY MultiAssumption
<1>5. \A a \in assigned : a[2] \in DOMAIN blobs
  BY <1>3 DEF Assigned, ViewOk
<1>6. /\ DOMAIN aged = 1 .. L
      /\ \A i \in 1 .. L :
           LET u == grown(i)
               m == IF i \in contending THEN u.merge + 1 ELSE 0
           IN  aged[i] = [u EXCEPT !.merge = m]
  BY <1>1
<1>7. /\ rest \ quiet \in SUBSET (1 .. L) /\ quiet \in SUBSET (1 .. L)
      /\ new \in SUBSET DOMAIN blobs /\ (rest \ quiet) \cap quiet = {}
      /\ (rest \ quiet) \cap absorbed = {}
  BY <1>1
<1>8. \A i \in 1 .. L : grown(i) = TrackInactive(tracks[i])
                          \/ \E blob \in Blob : grown(i) = TrackActive(tracks[i], blob, ts)
  <2> SUFFICES ASSUME NEW i \in 1 .. L, \E a \in assigned : a[1] = i
               PROVE  \E blob \in Blob : grown(i) = TrackActive(tracks[i], blob, ts)
    OBVIOUS
  <2> DEFINE a == CHOOSE b \in assigned : b[1] = i
  <2>1. a \in assigned
    OBVIOUS
  <2>2. blobs[a[2]] \in Blob
    BY <1>5, <2>1
  <2> QED
    BY <2>2
<1>33. \A i \in 1 .. L : (\E a \in assigned : a[1] = i) =>
         \E blob \in Blob : grown(i) = TrackActive(tracks[i], blob, ts)
  <2> SUFFICES ASSUME NEW i \in 1 .. L, \E a \in assigned : a[1] = i
               PROVE  \E blob \in Blob : grown(i) = TrackActive(tracks[i], blob, ts)
    OBVIOUS
  <2> DEFINE a == CHOOSE b \in assigned : b[1] = i
  <2>1. a \in assigned
    OBVIOUS
  <2>2. blobs[a[2]] \in Blob
    BY <1>5, <2>1
  <2> QED
    BY <2>2
<1>34. \A i \in 1 .. L : ~ IsGone(aged[i]) /\ i \notin absorbed => i \in rest \ quiet
  BY <1>1
<1> DEFINE mergeOf(i) == IF i \in contending THEN grown(i).merge + 1 ELSE 0
<1>9. \A i \in 1 .. L : aged[i] = [grown(i) EXCEPT !.merge = mergeOf(i)]
  BY <1>6
<1>10. DOMAIN merged = 1 .. Cardinality(Absorbed(v)) /\ Cardinality(Absorbed(v)) \in Nat
       /\ \A k \in DOMAIN merged : merged[k] \in Absorbed(v) /\ merged[k].track \in 1 .. L
                                   /\ merged[k].track \in absorbed
  <2>1. /\ Cardinality(Absorbed(v)) \in Nat /\ DOMAIN merged = 1 .. Cardinality(Absorbed(v))
        /\ \A k \in DOMAIN merged : merged[k] \in Absorbed(v) /\ merged[k] \in v.focus
    BY <1>3, MergeOrderOfAbsorbed
  <2>2. \A c \in v.focus : c.track \in 1 .. L
    BY <1>1, <1>3 DEF ViewOk
  <2> HIDE DEF merged, v
  <2> QED
    BY <2>1, <2>2 DEF Tracks
<1>11. DOMAIN given = DOMAIN merged /\ \A k \in DOMAIN merged : given[k] = tracks[merged[k].track]
  OBVIOUS
<1>12. given = [ k \in DOMAIN merged |-> given[k] ]
  OBVIOUS
<1>13. DOMAIN spawned = DOMAIN fresh /\ spawned = [ k \in DOMAIN fresh |-> SpawnTrack(fresh[k], ts) ]
  OBVIOUS
<1>14. fresh \in Seq(Blob)
  <2> HIDE DEF new
  <2>1. blobs \in [1 .. Len(blobs) -> Blob] /\ Len(blobs) \in Nat /\ new \in SUBSET (1 .. Len(blobs))
    BY <1>7
  <2> QED
    BY <2>1, InOrderType
<1> HIDE DEF v, assigned, contending, absorbed, merged, grown, aged, rest, quiet, new, fresh, kept,
             spawned, after, given, gone, result, ts, mergeOf, L
<1>15. \A i \in 1 .. L : mergeOf(i) \in Nat
  <2> TAKE i \in 1 .. L
  <2>1. grown(i) \in Track
    <3>1. CASE grown(i) = TrackInactive(tracks[i])
      BY <1>1, <3>1, TrackInactiveType
    <3>2. CASE \E blob \in Blob : grown(i) = TrackActive(tracks[i], blob, ts)
      BY <1>1, <1>4, <3>2, TrackActiveType
    <3> QED
      BY <1>8, <3>1, <3>2
  <2>2. grown(i).merge \in Nat
    BY <2>1 DEF Track
  <2> QED
    BY <2>2 DEF mergeOf
<1>16. \A i \in 1 .. L : /\ aged[i] \in Track /\ Grown(aged[i], n, ts)
                        /\ aged[i].openId = tracks[i].openId
                        /\ tracks[i].lastActive <= aged[i].lastActive
  <2> TAKE i \in 1 .. L
  <2>1. TrackOk(tracks[i], n, at) /\ tracks[i] \in Track /\ mergeOf(i) \in Nat
    BY <1>1, <1>15
  <2>2. grown(i) = TrackInactive(tracks[i])
          \/ \E blob \in Blob : grown(i) = TrackActive(tracks[i], blob, at + step)
    BY <1>8 DEF ts
  <2> DEFINE w == [grown(i) EXCEPT !.merge = mergeOf(i)]
  <2>3. /\ w \in Track /\ Grown(w, n, at + step)
        /\ w.openId = tracks[i].openId /\ tracks[i].lastActive <= w.lastActive
    BY <2>1, <2>2, TrackGrows
  <2>4. aged[i] = w
    BY <1>9
  <2> HIDE DEF w
  <2> QED
    BY <2>3, <2>4 DEF ts
<1>17. aged \in [1 .. L -> Track]
  BY <1>6, <1>16 DEF aged
<1>18. rest \ quiet \in SUBSET (1 .. L) /\ quiet \in SUBSET (1 .. L)
  BY <1>7
<1>19. /\ kept \in Seq(Track)
       /\ \E o \in [1 .. Len(kept) -> rest \ quiet] :
            /\ \A k \in 1 .. Len(kept) : kept[k] = aged[o[k]]
            /\ \A k, l \in 1 .. Len(kept) : o[k] = o[l] => k = l
            /\ \A i \in rest \ quiet : \E k \in 1 .. Len(kept) : o[k] = i
  <2>1. kept \in Seq(Track) /\ Picks(aged, rest \ quiet, kept)
    BY <1>1, <1>17, <1>18, InOrderType DEF kept
  <2> QED
    BY <2>1 DEF Picks
<1>20. PICK o \in [1 .. Len(kept) -> rest \ quiet] :
            /\ \A k \in 1 .. Len(kept) : kept[k] = aged[o[k]]
            /\ \A k, l \in 1 .. Len(kept) : o[k] = o[l] => k = l
            /\ \A i \in rest \ quiet : \E k \in 1 .. Len(kept) : o[k] = i
  BY <1>19
<1>21. /\ spawned \in Seq(Track)
       /\ \A k \in DOMAIN spawned : spawned[k].openId = NoId /\ Grown(spawned[k], n, ts)
  <2>1. Len(fresh) \in Nat /\ DOMAIN fresh = 1 .. Len(fresh) /\ \A k \in 1 .. Len(fresh) : fresh[k] \in Blob
    BY <1>14
  <2>2. \A k \in 1 .. Len(fresh) :
          /\ SpawnTrack(fresh[k], ts) \in Track /\ Grown(SpawnTrack(fresh[k], ts), n, ts)
          /\ SpawnTrack(fresh[k], ts).openId = NoId
    BY <1>4, <2>1, SpawnGrows
  <2>3. spawned = [ k \in 1 .. Len(fresh) |-> SpawnTrack(fresh[k], ts) ]
    BY <1>13, <2>1
  <2> QED
    BY <2>1, <2>2, <2>3
<1>22. /\ after \in Seq(Track) /\ Len(after) = Len(kept) + Len(spawned)
       /\ DOMAIN after = 1 .. Len(after) /\ Len(kept) \in Nat /\ Len(spawned) \in Nat
       /\ \A k \in 1 .. Len(after) :
            \/ k \in 1 .. Len(kept) /\ after[k] = kept[k]
            \/ k - Len(kept) \in DOMAIN spawned /\ after[k] = spawned[k - Len(kept)]
  BY <1>19, <1>21 DEF after
<1>23. \A k \in 1 .. Len(after) :
         \/ after[k].openId = NoId /\ Grown(after[k], n, ts)
         \/ k \in 1 .. Len(kept) /\ after[k] = aged[o[k]]
  <2>1. \A k \in 1 .. Len(kept) : kept[k] = aged[o[k]]
    BY <1>20
  <2> QED
    BY <1>21, <1>22, <2>1
<1>24. \A k \in 1 .. Len(kept) : o[k] \in 1 .. L /\ o[k] \in rest \ quiet
  BY <1>18, <1>20
<1>25. OneTrackEach(after)
  <2> SUFFICES ASSUME NEW k \in 1 .. Len(after), NEW l \in 1 .. Len(after),
                      after[k].openId = after[l].openId, after[k].openId # NoId
               PROVE  k = l
    BY <1>22 DEF OneTrackEach
  <2>1. k \in 1 .. Len(kept) /\ l \in 1 .. Len(kept) /\ after[k] = aged[o[k]] /\ after[l] = aged[o[l]]
    BY <1>23
  <2>2. tracks[o[k]].openId = tracks[o[l]].openId /\ tracks[o[k]].openId # NoId
    BY <1>16, <1>24, <2>1
  <2>3. o[k] = o[l]
    BY <1>1, <1>24, <2>1, <2>2 DEF OneTrackEach
  <2> QED
    BY <1>20, <2>1, <2>3
<1>26. \A k \in 1 .. Len(after) : Grown(after[k], n, ts) /\ Kept(tracks, after[k])
  <2> TAKE k \in 1 .. Len(after)
  <2>1. CASE after[k].openId = NoId /\ Grown(after[k], n, ts)
    BY <2>1 DEF Kept
  <2>2. CASE k \in 1 .. Len(kept) /\ after[k] = aged[o[k]]
    BY <1>1, <1>16, <1>24, <2>2 DEF Kept
  <2> QED
    BY <1>23, <2>1, <2>2
<1>27. ASSUME NEW i \in 1 .. L, i \in absorbed \/ i \in quiet, tracks[i].openId # NoId
       PROVE  \A k \in DOMAIN after : after[k].openId # tracks[i].openId
  <2> SUFFICES ASSUME NEW k \in 1 .. Len(after), after[k].openId = tracks[i].openId
               PROVE  FALSE
    BY <1>22
  <2>1. k \in 1 .. Len(kept) /\ after[k] = aged[o[k]]
    BY <1>23, <1>27
  <2>2. tracks[o[k]].openId = tracks[i].openId
    BY <1>16, <1>24, <2>1
  <2>3. o[k] = i
    BY <1>1, <1>24, <1>27, <2>1, <2>2 DEF OneTrackEach
  <2> QED
    BY <1>7, <1>24, <1>27, <2>1, <2>3
<1>28. /\ Closes(given) \in Seq(Event)
       /\ \A k \in DOMAIN Closes(given) : GivenUp(tracks, after, Closes(given)[k])
  <2> DEFINE M == Cardinality(Absorbed(v))
  <2>1. M \in Nat /\ DOMAIN given = 1 .. M
        /\ \A k \in 1 .. M : merged[k].track \in 1 .. L /\ merged[k].track \in absorbed
                             /\ given[k] = tracks[merged[k].track]
    BY <1>10, <1>11
  <2> HIDE DEF M
  <2>2. given = [ k \in 1 .. M |-> given[k] ] /\ \A k \in 1 .. M : given[k] \in Track
    BY <1>1, <1>11, <1>12, <2>1
  <2>3. given \in [1 .. M -> Track]
    BY <2>2
  <2>4. /\ Closes(given) \in Seq(Event)
        /\ \A k \in DOMAIN Closes(given) : \E i \in 1 .. M :
             given[i].openId # NoId /\ Closes(given)[k] = CloseOf(given[i])
    BY <2>1, <2>3, ClosesOf
  <2>5. ASSUME NEW k \in DOMAIN Closes(given)
        PROVE  GivenUp(tracks, after, Closes(given)[k])
    <3>1. PICK i \in 1 .. M : given[i].openId # NoId /\ Closes(given)[k] = CloseOf(given[i])
      BY <2>4
    <3> DEFINE j == merged[i].track
    <3>2. j \in 1 .. L /\ j \in absorbed /\ given[i] = tracks[j]
      BY <2>1
    <3> HIDE DEF j
    <3>3. tracks[j].openId # NoId /\ Closes(given)[k] = CloseOf(tracks[j])
      BY <3>1, <3>2
    <3> QED
      BY <1>1, <1>27, <3>2, <3>3 DEF GivenUp
  <2> QED
    BY <2>4, <2>5
<1>29. /\ Closes(gone) \in Seq(Event)
       /\ \A k \in DOMAIN Closes(gone) : GivenUp(tracks, after, Closes(gone)[k])
  <2>1. tracks \in [1 .. L -> Track]
    BY DEF L
  <2>2. /\ gone \in Seq(Track)
        /\ \E p \in [1 .. Len(gone) -> quiet] : \A k \in 1 .. Len(gone) : gone[k] = tracks[p[k]]
    <3>1. gone \in Seq(Track) /\ Picks(tracks, quiet, gone)
      BY <1>1, <1>18, <2>1, InOrderType DEF gone
    <3> QED
      BY <3>1 DEF Picks
  <2>3. PICK p \in [1 .. Len(gone) -> quiet] : \A k \in 1 .. Len(gone) : gone[k] = tracks[p[k]]
    BY <2>2
  <2>4. Len(gone) \in Nat /\ gone \in [1 .. Len(gone) -> Track]
    BY <2>2
  <2>5. /\ Closes(gone) \in Seq(Event)
        /\ \A k \in DOMAIN Closes(gone) : \E i \in 1 .. Len(gone) :
             gone[i].openId # NoId /\ Closes(gone)[k] = CloseOf(gone[i])
    BY <2>4, ClosesOf
  <2>6. ASSUME NEW k \in DOMAIN Closes(gone)
        PROVE  GivenUp(tracks, after, Closes(gone)[k])
    <3>1. PICK i \in 1 .. Len(gone) : gone[i].openId # NoId /\ Closes(gone)[k] = CloseOf(gone[i])
      BY <2>5
    <3>2. p[i] \in quiet /\ p[i] \in 1 .. L /\ gone[i] = tracks[p[i]]
      BY <1>18, <2>3
    <3> QED
      BY <1>1, <1>27, <3>1, <3>2 DEF GivenUp
  <2> QED
    BY <2>5, <2>6
<1>30. /\ result.closes \in Seq(Event)
       /\ \A k \in DOMAIN result.closes : GivenUp(tracks, after, result.closes[k])
  <2> DEFINE a == Closes(given)
             b == Closes(gone)
  <2>1. result.closes = a \o b
    BY <1>2
  <2>2. a \in Seq(Event) /\ b \in Seq(Event)
    BY <1>28, <1>29
  <2>3. \A k \in DOMAIN (a \o b) : \/ k \in DOMAIN a /\ (a \o b)[k] = a[k]
                                   \/ k - Len(a) \in DOMAIN b /\ (a \o b)[k] = b[k - Len(a)]
    <3> HIDE DEF a, b
    <3> QED
      BY <2>2
  <2>4. a \o b \in Seq(Event)
    BY <2>2
  <2>5. \A k \in DOMAIN a : GivenUp(tracks, after, a[k])
    BY <1>28
  <2>6. \A k \in DOMAIN b : GivenUp(tracks, after, b[k])
    BY <1>29
  <2> HIDE DEF a, b
  <2> QED
    BY <2>1, <2>3, <2>4, <2>5, <2>6
<1>31. result.tracks = Numbered(after, n)
  BY <1>2
<1>32. after \in Seq(Track)
  BY <1>22
<1>35. \A i \in 1 .. L : i \notin absorbed /\ (\E a \in assigned : a[1] = i) =>
         \E k \in DOMAIN after : after[k].openId = tracks[i].openId
  <2> SUFFICES ASSUME NEW i \in 1 .. L, i \notin absorbed, \E a \in assigned : a[1] = i
               PROVE  \E k \in DOMAIN after : after[k].openId = tracks[i].openId
    OBVIOUS
  <2>1. PICK blob \in Blob : grown(i) = TrackActive(tracks[i], blob, ts)
    BY <1>33
  <2> DEFINE u == TrackActive(tracks[i], blob, ts)
  <2>2. u \in Track /\ u.seen = TRUE /\ mergeOf(i) \in Nat
    <3>1. u \in Track /\ tracks[i] \in Track
      BY <1>1, <1>4, TrackActiveType
    <3>2. u.seen = TRUE
      BY <3>1 DEF TrackActive, Track
    <3> QED
      BY <1>15, <3>1, <3>2
  <2> HIDE DEF u
  <2>3. aged[i] = [u EXCEPT !.merge = mergeOf(i)]
    BY <1>9, <2>1 DEF u
  <2>4. aged[i].seen = TRUE
    BY <2>2, <2>3 DEF Track
  <2>5. i \in rest \ quiet
    BY <1>34, <2>4 DEF IsGone
  <2>6. PICK k \in 1 .. Len(kept) : o[k] = i
    BY <1>20, <2>5
  <2>7. k \in DOMAIN after /\ after[k] = kept[k]
    BY <1>19, <1>21, <1>22 DEF after
  <2>8. after[k].openId = tracks[i].openId
    BY <1>16, <1>20, <2>6, <2>7
  <2> QED
    BY <2>7, <2>8
<1>36. \A i \in DOMAIN tracks : Stays(tracks, blobs, i, after)
  BY <1>1, <1>35 DEF Stays, v, assigned, absorbed
<1> HIDE DEF result
<1> QED
  BY <1>22, <1>25, <1>26, <1>30, <1>31, <1>32, <1>36 DEF result, ts

(* The gate between two frames, and what a frame, the end of the stream or *)
(* a discontinuity does to it.                                             *)
Gate == [ primed : BOOLEAN, segmentCount : Nat, tracks : Seq(Track) ]

GateOk(g, at) ==
  /\ g \in Gate
  /\ \A i \in DOMAIN g.tracks : TrackOk(g.tracks[i], g.segmentCount, at)
  /\ OneTrackEach(g.tracks)
  /\ ~ g.primed => g.tracks = <<>>

LEMMA GateUpdates ==
  ASSUME NEW g \in Gate
  PROVE  /\ \A x \in BOOLEAN :
              /\ [g EXCEPT !.primed = x] \in Gate
              /\ [g EXCEPT !.primed = x].tracks = g.tracks
              /\ [g EXCEPT !.primed = x].segmentCount = g.segmentCount
              /\ [g EXCEPT !.primed = x].primed = x
         /\ \A x \in Nat :
              /\ [g EXCEPT !.segmentCount = x] \in Gate
              /\ [g EXCEPT !.segmentCount = x].tracks = g.tracks
              /\ [g EXCEPT !.segmentCount = x].segmentCount = x
              /\ [g EXCEPT !.segmentCount = x].primed = g.primed
         /\ \A x \in Seq(Track) :
              /\ [g EXCEPT !.tracks = x] \in Gate
              /\ [g EXCEPT !.tracks = x].tracks = x
              /\ [g EXCEPT !.tracks = x].segmentCount = g.segmentCount
              /\ [g EXCEPT !.tracks = x].primed = g.primed
BY DEF Gate

(* The tracks whose segment opens in a frame, and their OPEN events.       *)
OpenedIn(tracks, n) == InOrder(tracks, { i \in DOMAIN tracks : tracks[i].openId > n })

OpenEvents(opened) == [ i \in DOMAIN opened |-> [id |-> opened[i].openId, ts |-> opened[i].backdate] ]

(* An OPEN event carries the next id, and is not older than the buffer.    *)
OpensFit(opens, n, ts) ==
  /\ opens \in Seq(Event)
  /\ \A m \in DOMAIN opens : /\ opens[m].id = n + m /\ opens[m].ts <= ts
                             /\ DebounceFits => ts - opens[m].ts <= Horizon

(* A CLOSE event is of a track that the gate no longer has.                *)
ClosesFit(closes, g, h) ==
  /\ closes \in Seq(Event)
  /\ \A k \in DOMAIN closes : \E i \in DOMAIN g.tracks :
       /\ g.tracks[i].openId # NoId /\ closes[k] = CloseOf(g.tracks[i])
       /\ closes[k].id \notin OpenTracks(h)

(* A track with a segment is an old one, or its segment has just opened.   *)
TracksFrom(tracks, g, opens) ==
  \A k \in DOMAIN tracks : tracks[k].openId # NoId =>
    \/ \E i \in DOMAIN g.tracks : /\ g.tracks[i].openId = tracks[k].openId
                                  /\ g.tracks[i].lastActive <= tracks[k].lastActive
    \/ \E m \in DOMAIN opens : opens[m].id = tracks[k].openId /\ opens[m].ts <= tracks[k].lastActive

GateStep(g, r, ts) ==
  /\ GateOk(r.gate, ts)
  /\ r.gate.segmentCount = g.segmentCount + Len(r.opens)
  /\ OpensFit(r.opens, g.segmentCount, ts)
  /\ ClosesFit(r.closes, g, r.gate)
  /\ TracksFrom(r.gate.tracks, g, r.opens)

LEMMA FlushMultiStep ==
  ASSUME NEW g, NEW at \in Nat, GateOk(g, at)
  PROVE  /\ GateOk(FlushMulti(g).gate, at) /\ GateOk(BreakMulti(g).gate, at)
         /\ FlushMulti(g).gate.tracks = <<>> /\ BreakMulti(g).gate.tracks = <<>>
         /\ FlushMulti(g).gate.segmentCount = g.segmentCount
         /\ BreakMulti(g).gate.segmentCount = g.segmentCount
         /\ ClosesFit(FlushMulti(g).closes, g, FlushMulti(g).gate)
         /\ BreakMulti(g).closes = FlushMulti(g).closes
<1>1. /\ g.primed \in BOOLEAN /\ g.segmentCount \in Nat /\ g.tracks \in Seq(Track) /\ g \in Gate
  BY DEF GateOk, Gate
<1> DEFINE f == [g EXCEPT !.tracks = <<>>]
           b == [f EXCEPT !.primed = FALSE]
           c == Closes(g.tracks)
<1>2. FlushMulti(g).gate = f /\ FlushMulti(g).closes = c
  BY DEF FlushMulti
<1>3. BreakMulti(g).gate = b /\ BreakMulti(g).closes = c
  BY DEF BreakMulti, FlushMulti
<1>4. f \in Gate /\ f.tracks = <<>> /\ f.segmentCount = g.segmentCount
  <2>1. <<>> \in Seq(Track)
    OBVIOUS
  <2> DEFINE x == <<>>
  <2>2. x \in Seq(Track) /\ f = [g EXCEPT !.tracks = x]
    BY <2>1
  <2> HIDE DEF x, f
  <2>3. f \in Gate /\ f.tracks = x /\ f.segmentCount = g.segmentCount
    BY <1>1, <2>2, GateUpdates
  <2> QED
    BY <2>3 DEF x
<1>5. b \in Gate /\ b.tracks = <<>> /\ b.segmentCount = g.segmentCount
  <2> HIDE DEF f
  <2> QED
    BY <1>4, GateUpdates
<1>6. OpenTracks(f) = {}
  BY <1>4 DEF OpenTracks
<1>7. /\ c \in Seq(Event)
      /\ \A k \in DOMAIN c : \E i \in DOMAIN g.tracks :
           g.tracks[i].openId # NoId /\ c[k] = CloseOf(g.tracks[i])
  <2> DEFINE s == g.tracks
  <2>1. Len(s) \in Nat /\ s \in [1 .. Len(s) -> Track] /\ DOMAIN s = 1 .. Len(s)
    BY <1>1
  <2> HIDE DEF s
  <2>2. /\ Closes(s) \in Seq(Event)
        /\ \A k \in DOMAIN Closes(s) : \E i \in 1 .. Len(s) :
             s[i].openId # NoId /\ Closes(s)[k] = CloseOf(s[i])
    BY <2>1, ClosesOf
  <2> QED
    BY <2>1, <2>2 DEF s
<1> HIDE DEF f, b, c
<1>8. ClosesFit(c, g, f)
  BY <1>6, <1>7 DEF ClosesFit
<1>9. GateOk(f, at) /\ GateOk(b, at)
  BY <1>4, <1>5 DEF GateOk, OneTrackEach
<1> QED
  BY <1>2, <1>3, <1>4, <1>5, <1>8, <1>9

LEMMA UpdateMultiStep ==
  ASSUME NEW g, NEW at \in Nat, GateOk(g, at), NEW step \in FrameSteps, NEW mask \in Masks
  PROVE  GateStep(g, UpdateMulti(g, at + step, mask), at + step)
<1> DEFINE ts == at + step
           blobs == SegmentBlobs(mask)
           n == g.segmentCount
           a == Associate(g.tracks, blobs, n, ts)
           r == UpdateMulti(g, ts, mask)
<1>1. /\ g.primed \in BOOLEAN /\ n \in Nat /\ g.tracks \in Seq(Track) /\ g \in Gate
      /\ OneTrackEach(g.tracks) /\ \A i \in DOMAIN g.tracks : TrackOk(g.tracks[i], n, at)
  BY DEF GateOk, Gate
<1>2. ts \in Nat /\ mask \in SUBSET Cells
  BY MultiAssumption
<1>3. blobs \in Seq(Blob)
  BY <1>2, SegmentBlobsType
<1>4. CASE ~ g.primed
  <2> DEFINE h == [g EXCEPT !.primed = TRUE]
  <2>1. r.gate = h /\ r.opens = <<>> /\ r.closes = <<>>
    BY <1>4 DEF UpdateMulti
  <2>2. h \in Gate /\ h.tracks = <<>> /\ h.segmentCount = n
    BY <1>1, <1>4 DEF GateOk, Gate
  <2>3. GateOk(h, ts)
    BY <2>2 DEF GateOk, OneTrackEach
  <2> HIDE DEF h
  <2>4. OpensFit(<<>>, n, ts) /\ ClosesFit(<<>>, g, h) /\ Len(<<>>) = 0
    BY DEF OpensFit, ClosesFit
  <2>5. TracksFrom(<<>>, g, <<>>)
    BY DEF TracksFrom
  <2> HIDE DEF r, ts, n
  <2>6. r.gate.segmentCount = n + Len(r.opens)
    BY <1>1, <2>1, <2>2, <2>4
  <2> QED
    BY <2>1, <2>2, <2>3, <2>4, <2>5, <2>6 DEF GateStep, r, ts, n
<1>5. CASE g.primed
  <2>1. r = Associated(g, a)
    BY <1>5 DEF UpdateMulti
  <2>2. PICK after \in Seq(Track) :
          /\ a.tracks = Numbered(after, n)
          /\ OneTrackEach(after)
          /\ \A i \in DOMAIN after : Grown(after[i], n, ts) /\ Kept(g.tracks, after[i])
          /\ a.closes \in Seq(Event)
          /\ \A k \in DOMAIN a.closes : GivenUp(g.tracks, after, a.closes[k])
    BY <1>1, <1>3, AssociateKeeps
  <2> DEFINE N == Numbered(after, n)
             I == { i \in DOMAIN N : N[i].openId > n }
             o == Ranked(I, Precedes(I))
             c == Cardinality(I)
             opened == OpenedIn(N, n)
             h == [ [ g EXCEPT !.tracks = N ] EXCEPT !.segmentCount = n + Len(opened) ]
             opens == OpenEvents(opened)
  <2>3. r.gate = h /\ r.opens = opens /\ r.closes = a.closes
    <3> DEFINE x == OpenedIn(a.tracks, g.segmentCount)
    <3>1. /\ r.opens = OpenEvents(x) /\ r.closes = a.closes
          /\ r.gate = [ [ g EXCEPT !.tracks = a.tracks ] EXCEPT !.segmentCount = g.segmentCount + Len(x) ]
      <4> HIDE DEF a, r
      <4> QED
        BY <1>1, <2>1 DEF Associated, OpenedIn, OpenEvents, Gate
    <3> HIDE DEF a, r, N
    <3>2. a.tracks = N
      BY <2>2 DEF N
    <3> QED
      BY <3>1, <3>2
  <2> HIDE DEF a, r, ts
  <2>4. /\ N \in Seq(Track) /\ Len(N) = Len(after) /\ OneTrackEach(N)
        /\ c \in Nat /\ DOMAIN o = 1 .. c
        /\ \A i \in DOMAIN N : TrackOk(N[i], n + c, ts)
        /\ \A i \in DOMAIN N : N[i].openId <= n => N[i] = after[i]
        /\ \A i \in DOMAIN N : N[i].lastActive = after[i].lastActive
        /\ \A m \in 1 .. c :
             /\ o[m] \in I /\ N[o[m]].openId = n + m
             /\ N[o[m]].backdate <= ts /\ N[o[m]].backdate <= N[o[m]].lastActive
             /\ DebounceFits => ts - N[o[m]].backdate <= Horizon
    BY <1>1, <1>2, <2>2, NumberedOk
  <2>5. /\ Len(N) \in Nat /\ DOMAIN N = 1 .. Len(N) /\ I \in SUBSET (1 .. Len(N))
    BY <2>4
  <2> HIDE DEF N
  <2>6. /\ opened = [ k \in DOMAIN o |-> N[o[k]] ]
        /\ \A i \in I : \E k \in DOMAIN o : o[k] = i
    <3>1. opened = InOrder(N, I)
      BY DEF OpenedIn
    <3> HIDE DEF I, opened
    <3>2. Len(N) \in Nat /\ I \in SUBSET (1 .. Len(N))
      BY <2>5
    <3>3. /\ InOrder(N, I) = [ k \in DOMAIN o |-> N[o[k]] ]
          /\ \A i \in I : \E k \in DOMAIN o : o[k] = i
      <4>1. ReadAlong(N, I, o)
        BY <3>2, InOrderElements
      <4> HIDE DEF o
      <4> QED
        BY <4>1 DEF ReadAlong
    <3> QED
      BY <3>1, <3>3
  <2>12. h \in Gate /\ h.tracks = N /\ h.segmentCount = n + Len(opened) /\ h.primed
    <3> HIDE DEF opened
    <3>1. n + Len(opened) \in Nat
      <4>1. Len(opened) = c
        BY <2>4, <2>6
      <4> QED
        BY <1>1, <2>4, <4>1
    <3> DEFINE k == [ g EXCEPT !.tracks = N ]
    <3>2. k \in Gate /\ k.tracks = N /\ k.primed
      BY <1>1, <1>5, <2>4, GateUpdates
    <3> HIDE DEF k, n
    <3>3. h = [ k EXCEPT !.segmentCount = n + Len(opened) ]
      BY DEF k
    <3> HIDE DEF h
    <3> QED
      BY <3>1, <3>2, <3>3, GateUpdates
  <2>13. opens = [ i \in DOMAIN opened |-> [id |-> opened[i].openId, ts |-> opened[i].backdate] ]
    BY DEF OpenEvents
  <2> HIDE DEF o, c, opened, opens, h, n
  <2>7. opened = [ k \in 1 .. c |-> N[o[k]] ] /\ Len(opened) = c /\ DOMAIN opened = 1 .. c
    BY <2>4, <2>6
  <2>8. /\ DOMAIN opens = 1 .. c
        /\ \A m \in 1 .. c : opens[m] = [id |-> N[o[m]].openId, ts |-> N[o[m]].backdate]
    BY <2>7, <2>13
  <2>9. opens \in Seq(Event) /\ Len(opens) = c
    <3>1. \A m \in 1 .. c : opens[m] \in Event
      <4> TAKE m \in 1 .. c
      <4>1. N[o[m]] \in Track
        BY <2>4, <2>5 DEF I
      <4>2. N[o[m]].openId \in Nat /\ N[o[m]].backdate \in Nat
        BY <4>1 DEF Track
      <4> QED
        BY <2>8, <4>2 DEF Event
    <3>2. opens = [ m \in 1 .. c |-> opens[m] ]
      BY <2>7, <2>13
    <3> QED
      BY <2>4, <3>1, <3>2
  <2>10. OpensFit(opens, n, ts)
    <3>1. \A m \in 1 .. c : /\ opens[m].id = n + m /\ opens[m].ts <= ts
                            /\ DebounceFits => ts - opens[m].ts <= Horizon
      BY <2>4, <2>8
    <3> QED
      BY <2>8, <2>9, <3>1 DEF OpensFit
  <2>11. GateOk(h, ts)
    BY <2>4, <2>7, <2>12 DEF GateOk
  <2>14. TracksFrom(N, g, opens)
    <3> SUFFICES ASSUME NEW k \in DOMAIN N, N[k].openId # NoId
                 PROVE  \/ \E i \in DOMAIN g.tracks : /\ g.tracks[i].openId = N[k].openId
                                                      /\ g.tracks[i].lastActive <= N[k].lastActive
                        \/ \E m \in DOMAIN opens : opens[m].id = N[k].openId /\ opens[m].ts <= N[k].lastActive
      BY DEF TracksFrom
    <3>1. CASE k \in I
      <4>1. PICK m \in 1 .. c : o[m] = k
        BY <2>4, <2>6, <3>1
      <4> QED
        BY <2>4, <2>8, <4>1
    <3>2. CASE k \notin I
      <4>1. N[k].openId \in Nat
        <5>1. N[k] \in Track
          BY <2>4
        <5> QED
          BY <5>1 DEF Track
      <4>2. N[k].openId <= n
        BY <1>1, <3>2, <4>1 DEF I
      <4>3. N[k] = after[k] /\ k \in DOMAIN after
        BY <2>4, <4>2
      <4> QED
        BY <2>2, <4>3 DEF Kept
    <3> QED
      BY <3>1, <3>2
  <2>15. ClosesFit(a.closes, g, h)
    <3> SUFFICES ASSUME NEW k \in DOMAIN a.closes
                 PROVE  \E i \in DOMAIN g.tracks :
                          /\ g.tracks[i].openId # NoId /\ a.closes[k] = CloseOf(g.tracks[i])
                          /\ a.closes[k].id \notin OpenTracks(h)
      BY <2>2 DEF ClosesFit
    <3>1. PICK i \in DOMAIN g.tracks :
                 /\ g.tracks[i].openId # NoId /\ a.closes[k] = CloseOf(g.tracks[i])
                 /\ \A l \in DOMAIN after : after[l].openId # g.tracks[i].openId
      BY <2>2 DEF GivenUp
    <3>2. a.closes[k].id = g.tracks[i].openId
      BY <3>1 DEF CloseOf
    <3>3. g.tracks[i].openId <= n /\ g.tracks[i].openId \in Nat
      <4>1. g.tracks[i] \in Track /\ TrackOk(g.tracks[i], n, at)
        BY <1>1 DEF n
      <4> QED
        BY <4>1 DEF TrackOk, Track
    <3>4. ASSUME NEW l \in DOMAIN N, N[l].openId = g.tracks[i].openId
          PROVE  FALSE
      <4>1. N[l] = after[l] /\ l \in DOMAIN after
        BY <2>4, <3>3, <3>4
      <4> QED
        BY <3>1, <3>4, <4>1
    <3>5. g.tracks[i].openId \notin OpenTracks(h)
      BY <2>12, <3>4 DEF OpenTracks
    <3> QED
      BY <3>1, <3>2, <3>5
  <2> QED
    BY <2>3, <2>7, <2>9, <2>10, <2>11, <2>12, <2>14, <2>15 DEF GateStep, r, ts, n
<1> QED
  BY <1>1, <1>4, <1>5


-----------------------------------------------------------------------------
(* Part 2.  The tracker, the records and the recorder.                     *)

-----------------------------------------------------------------------------
(* What the ids of a desk must be: U are the bursts submitted before, h    *)
(* the last decode of each segment.                                        *)

Record  == [ id : Nat, close : Nat, deadline : Nat, evidence : Reservoir ]
BurstOf == [ id : Nat, close : Nat, evidence : Reservoir, frames : SUBSET Nat ]

IdsOf(l) == { l[i].id : i \in DOMAIN l }

Distinct(l) == \A i, j \in DOMAIN l : l[i].id = l[j].id => i = j

OneSegmentEach(t) == \A s, u \in t.open : s.id = u.id => s = u

(* A segment is read exactly when it was decoded, and one that was not     *)
(* decoded has no read.                                                    *)
ReadFit(t, h) ==
  /\ ReadIds(t) \subseteq DOMAIN h
  /\ Confirmations = 1 => (MissedIds(t) \cup PendingIds(t)) \cap DOMAIN h = {}
  /\ \A s \in t.open, p \in Payloads : IF s.id \in DOMAIN h THEN s.reads[p] >= 1 ELSE s.reads[p] = 0

IsDesk(d) == /\ d = [ tracker |-> d.tracker, records |-> d.records, out |-> d.out ]
             /\ d.records \in Seq(Record) /\ d.out \in Seq(BurstOf)

Filed(t, l, U, n) ==
  /\ Distinct(l)
  /\ IdsOf(l) \cup U = 1 .. n \ OpenIds(t)
  /\ IdsOf(l) \cap U = {}

Sound(d, U, n, h) ==
  /\ IsDesk(d)
  /\ Accounted(d.tracker, n) /\ OneSegmentEach(d.tracker)
  /\ Filed(d.tracker, d.records, U \cup IdsOf(d.out), n)
  /\ ReadFit(d.tracker, h)

RecordOf(s, close) ==
  [ id |-> s.id, close |-> close, deadline |-> close + RecordPost, evidence |-> s.evidence ]

LEMMA RecordOfType ==
  ASSUME NEW s \in Segment, NEW close \in Nat
  PROVE  /\ RecordOf(s, close) \in Record
         /\ RecordOf(s, close).id = s.id /\ RecordOf(s, close).close = close
         /\ RecordOf(s, close).deadline = close + RecordPost
         /\ RecordOf(s, close).evidence = s.evidence
<1>1. close + RecordPost \in Nat
  BY MultiAssumption
<1> QED
  BY <1>1 DEF RecordOf, Record, Segment

(* _finalize_segment and its record.                                       *)
ClosedOn(d, e, id, close) ==
  /\ e.tracker = OnSegmentClose(d.tracker, id, close) /\ e.out = d.out
  /\ IsDesk(e)
  /\ id \notin OpenIds(d.tracker) => e = d
  /\ id \in OpenIds(d.tracker) =>
       \E s \in d.tracker.open :
         s.id = id /\ e.records = Append(d.records, RecordOf(s, close))

LEMMA CloseOneEffect ==
  ASSUME NEW d, NEW U, NEW n \in Nat, NEW h, Sound(d, U, n, h), NEW id, NEW close \in Nat
  PROVE  ClosedOn(d, CloseOne(d, id, close), id, close)
<1> DEFINE t == d.tracker
           this == { seg \in t.open : seg.id = id }
           e == CloseOne(d, id, close)
           s == CHOOSE seg \in this : TRUE
           r == [ id |-> id, close |-> close, deadline |-> close + RecordPost, evidence |-> s.evidence ]
           more == IF this = {} THEN <<>> ELSE << r >>
<1>1. /\ d = [ tracker |-> t, records |-> d.records, out |-> d.out ]
      /\ d.records \in Seq(Record) /\ d.out \in Seq(BurstOf) /\ IsTracker(t)
  BY DEF Sound, IsDesk, Accounted
<1> DEFINE x == OnSegmentClose(t, id, close)
<1>2. e = [ tracker |-> x, records |-> d.records \o more, out |-> d.out ]
  <2>1. e = [ d EXCEPT !.tracker = x, !.records = d.records \o more ]
    BY DEF CloseOne
  <2> HIDE DEF e, x, more
  <2> QED
    BY <1>1, <2>1
<1>3. CASE this = {}
  <2>1. id \notin OpenIds(t) /\ more = <<>>
    BY <1>3 DEF OpenIds
  <2>2. OnSegmentClose(t, id, close) = t
    BY <1>3 DEF OnSegmentClose
  <2>3. d.records \o <<>> = d.records
    BY <1>1
  <2>4. e = d
    BY <1>1, <1>2, <2>1, <2>2, <2>3
  <2> HIDE DEF e
  <2> QED
    BY <1>1, <2>1, <2>2, <2>4 DEF Sound, ClosedOn, e
<1>4. CASE this # {}
  <2>1. s \in t.open /\ s.id = id /\ id \in OpenIds(t)
    BY <1>4 DEF OpenIds
  <2>2. s \in Segment
    BY <1>1, <2>1, TrackerFields
  <2> HIDE DEF s
  <2>7. r = RecordOf(s, close)
    BY <2>1 DEF RecordOf
  <2>3. r \in Record
    BY <2>2, <2>7, RecordOfType
  <2> HIDE DEF r
  <2>4. d.records \o more = Append(d.records, r) /\ Append(d.records, r) \in Seq(Record)
    BY <1>1, <1>4, <2>3
  <2>5. e = [ tracker |-> OnSegmentClose(t, id, close), records |-> Append(d.records, r), out |-> d.out ]
    BY <1>2, <2>4
  <2> HIDE DEF e, more
  <2>6. /\ e.tracker = OnSegmentClose(t, id, close) /\ e.out = d.out /\ e.records = Append(d.records, r)
        /\ e = [ tracker |-> e.tracker, records |-> e.records, out |-> e.out ]
    BY <2>5
  <2> QED
    BY <1>1, <2>1, <2>4, <2>6, <2>7 DEF IsDesk, ClosedOn, e
<1> QED
  BY <1>3, <1>4

LEMMA CloseReadFit ==
  ASSUME NEW t, NEW n \in Nat, Accounted(t, n), NEW h, ReadFit(t, h), NEW id \in OpenIds(t),
         NEW close \in Nat
  PROVE  ReadFit(OnSegmentClose(t, id, close), h)
<1> DEFINE f == OnSegmentClose(t, id, close)
<1> SUFFICES ReadFit(f, h)
  OBVIOUS
<1>1. CloseEffect(t, f, id, close)
  BY OnSegmentCloseEffect DEF Accounted
<1> HIDE DEF f
<1>2. PICK seg \in t.open :
        /\ seg.id = id
        /\ f.open = { s \in t.open : s.id # id } /\ f.misses = t.misses
        /\ \/ /\ Confirmed(seg) = {} /\ f.pending = Append(t.pending, PendingMiss(seg, close))
              /\ f.passes = t.passes /\ f.merged = t.merged /\ f.recent = t.recent
           \/ /\ Confirmed(seg) # {} /\ f.pending = t.pending
              /\ \E emit \in SUBSET Payloads, rest \in SUBSET Payloads :
                   /\ f.passes = t.passes \cup { Sighting(seg, p, close) : p \in emit }
                   /\ f.merged = t.merged \cup { Sighting(seg, p, close) : p \in rest }
  BY <1>1 DEF CloseEffect
<1>3. /\ seg \in Segment /\ t.pending \in Seq(Waiting) /\ Confirmations \in Nat \ {0}
      /\ \A p \in Payloads : seg.reads[p] \in Nat
  BY TrackerFields, TrackerAssumption DEF Accounted, Segment
<1>4. PICK p0 : p0 \in Payloads
  BY MultiAssumption
<1>5. \A s \in f.open, p \in Payloads : IF s.id \in DOMAIN h THEN s.reads[p] >= 1 ELSE s.reads[p] = 0
  BY <1>2 DEF ReadFit
<1>6. MissedIds(f) = MissedIds(t)
  BY <1>2 DEF MissedIds
<1>7. CASE Confirmed(seg) = {} /\ f.pending = Append(t.pending, PendingMiss(seg, close))
           /\ f.passes = t.passes /\ f.merged = t.merged
  <2>1. PendingMiss(seg, close) \in Waiting /\ PendingMiss(seg, close).id = id
    BY <1>2, <1>3, PendingMissType
  <2>2. PendingIds(f) \subseteq PendingIds(t) \cup {id}
    BY <1>3, <1>7, <2>1 DEF PendingIds
  <2>3. ReadIds(f) = ReadIds(t)
    BY <1>7 DEF ReadIds
  <2>4. Confirmations = 1 => id \notin DOMAIN h
    BY <1>2, <1>3, <1>4, <1>7 DEF ReadFit, Confirmed
  <2> QED
    BY <1>5, <1>6, <2>2, <2>3, <2>4 DEF ReadFit
<1>8. CASE /\ Confirmed(seg) # {} /\ f.pending = t.pending
           /\ \E emit \in SUBSET Payloads, rest \in SUBSET Payloads :
                   /\ f.passes = t.passes \cup { Sighting(seg, p, close) : p \in emit }
                   /\ f.merged = t.merged \cup { Sighting(seg, p, close) : p \in rest }
  <2>1. id \in DOMAIN h
    <3>1. PICK p \in Payloads : seg.reads[p] >= Confirmations
      BY <1>8 DEF Confirmed
    <3>2. seg.reads[p] # 0
      BY <1>3, <3>1
    <3> QED
      BY <1>2, <3>2 DEF ReadFit
  <2>2. \A p : Sighting(seg, p, close).id = id
    BY <1>2 DEF Sighting
  <2>3. ReadIds(f) \subseteq ReadIds(t) \cup {id}
    BY <1>8, <2>2 DEF ReadIds
  <2>4. PendingIds(f) = PendingIds(t)
    BY <1>8 DEF PendingIds
  <2> QED
    BY <1>5, <1>6, <2>1, <2>3, <2>4 DEF ReadFit
<1> QED
  BY <1>2, <1>7, <1>8 DEF f

(* A record more, for a segment that closes.                               *)
LEMMA FiledAppend ==
  ASSUME NEW t, NEW f, NEW l \in Seq(Record), NEW U, NEW n \in Nat, Filed(t, l, U, n),
         NEW r \in Record, r.id \in OpenIds(t), OpenIds(t) \subseteq 1 .. n,
         OpenIds(f) = OpenIds(t) \ {r.id}
  PROVE  Filed(f, Append(l, r), U, n)
<1> DEFINE m == Append(l, r)
           L == Len(l)
<1>1. L \in Nat /\ DOMAIN l = 1 .. L /\ DOMAIN m = 1 .. (L + 1)
  BY DEF Record
<1>2. (\A i \in 1 .. L : m[i] = l[i]) /\ m[L + 1] = r
  OBVIOUS
<1> HIDE DEF m, L
<1>3. IdsOf(m) = IdsOf(l) \cup {r.id}
  <2>1. \A i \in 1 .. L + 1 : i \in 1 .. L \/ i = L + 1
    BY <1>1
  <2>2. \A i \in 1 .. L : i \in 1 .. (L + 1)
    BY <1>1
  <2>3. L + 1 \in 1 .. (L + 1)
    BY <1>1
  <2> QED
    BY <1>1, <1>2, <2>1, <2>2, <2>3 DEF IdsOf
<1>4. r.id \notin IdsOf(l) /\ r.id \notin U
  BY DEF Filed
<1>5. Distinct(m)
  <2> SUFFICES ASSUME NEW i \in 1 .. (L + 1), NEW j \in 1 .. (L + 1), m[i].id = m[j].id
               PROVE  i = j
    BY <1>1 DEF Distinct
  <2>1. \A k \in 1 .. L : m[k].id \in IdsOf(l)
    BY <1>1, <1>2 DEF IdsOf
  <2>2. (i \in 1 .. L \/ i = L + 1) /\ (j \in 1 .. L \/ j = L + 1)
    BY <1>1
  <2>3. CASE i \in 1 .. L /\ j \in 1 .. L
    BY <1>1, <1>2, <2>3 DEF Filed, Distinct
  <2> QED
    BY <1>2, <1>4, <2>1, <2>2, <2>3
<1> QED
  BY <1>3, <1>4, <1>5 DEF Filed, m

LEMMA CloseOneSound ==
  ASSUME NEW d, NEW U, NEW n \in Nat, NEW h, Sound(d, U, n, h), NEW id, NEW close \in Nat
  PROVE  LET e == CloseOne(d, id, close)
         IN  /\ Sound(e, U, n, h)
             /\ OpenIds(e.tracker) = OpenIds(d.tracker) \ {id}
             /\ e.tracker.open \subseteq d.tracker.open
<1> DEFINE e == CloseOne(d, id, close)
           t == d.tracker
           f == e.tracker
<1>1. /\ f = OnSegmentClose(t, id, close) /\ e.out = d.out
      /\ IsDesk(e)
      /\ id \notin OpenIds(t) => e = d
      /\ id \in OpenIds(t) =>
           \E s \in t.open : s.id = id /\ e.records = Append(d.records, RecordOf(s, close))
  <2>1. ClosedOn(d, e, id, close)
    BY CloseOneEffect
  <2> HIDE DEF e
  <2> QED
    BY <2>1 DEF ClosedOn
<1>2. /\ Accounted(t, n) /\ OneSegmentEach(t) /\ IsDesk(d)
      /\ Filed(t, d.records, U \cup IdsOf(d.out), n) /\ ReadFit(t, h)
  BY DEF Sound
<1> HIDE DEF e
<1>3. CASE id \notin OpenIds(t)
  BY <1>1, <1>3 DEF e
<1>4. CASE id \in OpenIds(t)
  <2>1. /\ Accounted(f, n) /\ OpenIds(f) = OpenIds(t) \ {id}
    BY <1>1, <1>2, OnSegmentCloseAccounts
  <2>2. ReadFit(f, h)
    BY <1>1, <1>2, <1>4, CloseReadFit
  <2>3. f.open \subseteq t.open
    BY <1>1, <1>2, <1>4, OnSegmentCloseEffect DEF CloseEffect, Accounted
  <2>4. OneSegmentEach(f)
    BY <1>2, <2>3 DEF OneSegmentEach
  <2>5. PICK s \in t.open : s.id = id /\ e.records = Append(d.records, RecordOf(s, close))
    BY <1>1, <1>4
  <2> DEFINE r == RecordOf(s, close)
  <2>6. r \in Record /\ r.id = id
    <3>1. s \in Segment
      BY <1>2, TrackerFields DEF Accounted
    <3> QED
      BY <2>5, <3>1, RecordOfType
  <2>7. OpenIds(t) \subseteq 1 .. n
    BY <1>2 DEF Accounted, AccountsFor
  <2>8. r.id = id /\ e.records = Append(d.records, r)
    BY <2>5, <2>6
  <2> HIDE DEF r
  <2>9. Filed(f, e.records, U \cup IdsOf(e.out), n)
    BY <1>1, <1>2, <1>4, <2>1, <2>6, <2>7, <2>8, FiledAppend DEF IsDesk
  <2> QED
    BY <1>1, <2>1, <2>2, <2>3, <2>4, <2>9 DEF Sound, e
<1> QED
  BY <1>3, <1>4

(* The bursts of the first k records leave with the step.                  *)
Harvested(d, e, k, b) ==
  /\ IsDesk(e) /\ e.tracker = d.tracker
  /\ e.records = SubSeq(d.records, k + 1, Len(d.records))
  /\ Range(e.out) = Range(d.out) \cup { Burst(d.records[i], b) : i \in 1 .. k }

LEMMA BurstType ==
  ASSUME NEW r \in Record, NEW b \in SUBSET Nat
  PROVE  Burst(r, b) \in BurstOf /\ Burst(r, b).id = r.id /\ Burst(r, b).close = r.close
<1> DEFINE F == Range(r.evidence.frames) \cup { f \in b : r.close < f /\ f <= r.close + RecordPost }
<1>1. Burst(r, b) = [ id |-> r.id, close |-> r.close, evidence |-> r.evidence, frames |-> F ]
  BY DEF Burst, WithPostRoll
<1>2. r.evidence \in Reservoir
  BY DEF Record
<1>3. /\ Range(r.evidence.fed) \in SUBSET Nat
      /\ Range(r.evidence.frames) \subseteq Range(r.evidence.fed)
  BY <1>2, ReservoirShows
<1>4. F \in SUBSET Nat
  BY <1>3
<1> HIDE DEF F
<1> QED
  BY <1>1, <1>2, <1>4 DEF Record, BurstOf

LEMMA HarvestEffect ==
  ASSUME NEW d, IsDesk(d), NEW k \in 0 .. Len(d.records), NEW b \in SUBSET Nat
  PROVE  Harvested(d, Harvest(d, k, b), k, b)
<1> DEFINE l == d.records
           x == [ i \in 1 .. k |-> Burst(l[i], b) ]
           r == SubSeq(l, k + 1, Len(l))
           o == d.out \o x
           e == Harvest(d, k, b)
<1>1. /\ d = [ tracker |-> d.tracker, records |-> d.records, out |-> d.out ]
      /\ l \in Seq(Record) /\ d.out \in Seq(BurstOf) /\ Len(l) \in Nat
  BY DEF IsDesk
<1>2. \A i \in 1 .. k : l[i] \in Record
  BY <1>1
<1>3. \A i \in 1 .. k : Burst(l[i], b) \in BurstOf
  BY <1>2, BurstType
<1>4. x \in Seq(BurstOf) /\ Len(x) = k /\ DOMAIN x = 1 .. k
  BY <1>1, <1>3
<1>5. r \in Seq(Record)
  BY <1>1
<1>6. \A i \in 1 .. k : x[i] = Burst(l[i], b)
  OBVIOUS
<1>7. e = [ d EXCEPT !.records = r, !.out = o ]
  BY DEF Harvest
<1> HIDE DEF x, r, e, l
<1>8. o \in Seq(BurstOf) /\ Range(o) = Range(d.out) \cup Range(x)
  <2> DEFINE u == d.out
  <2>1. u \in Seq(BurstOf)
    BY <1>1
  <2> HIDE DEF u
  <2>2. Len(u) \in Nat /\ DOMAIN u = 1 .. Len(u) /\ DOMAIN (u \o x) = 1 .. (Len(u) + k)
    BY <1>4, <2>1
  <2>3. /\ \A i \in 1 .. Len(u) : i \in DOMAIN (u \o x) /\ (u \o x)[i] = u[i]
        /\ \A i \in 1 .. k : Len(u) + i \in DOMAIN (u \o x) /\ (u \o x)[Len(u) + i] = x[i]
    BY <1>4, <2>1, <2>2
  <2>4. \A i \in DOMAIN (u \o x) :
          \/ i \in 1 .. Len(u) /\ (u \o x)[i] = u[i]
          \/ i - Len(u) \in 1 .. k /\ (u \o x)[i] = x[i - Len(u)]
    BY <1>4, <2>1, <2>2
  <2> DEFINE w == u \o x
  <2>7. DOMAIN w = 1 .. (Len(u) + k) /\ w = u \o x
    BY <2>2
  <2>8. /\ \A i \in 1 .. Len(u) : i \in DOMAIN w /\ w[i] = u[i]
        /\ \A i \in 1 .. k : Len(u) + i \in DOMAIN w /\ w[Len(u) + i] = x[i]
        /\ \A i \in DOMAIN w :
          \/ i \in 1 .. Len(u) /\ w[i] = u[i]
          \/ i - Len(u) \in 1 .. k /\ w[i] = x[i - Len(u)]
    BY <2>3, <2>4
  <2> HIDE DEF w
  <2>9. Range(w) \subseteq Range(u) \cup Range(x)
    BY <1>4, <2>2, <2>8 DEF Range
  <2>10. Range(u) \subseteq Range(w)
    BY <2>2, <2>8 DEF Range
  <2>11. Range(x) \subseteq Range(w)
    BY <1>4, <2>8 DEF Range
  <2>5. Range(u \o x) = Range(u) \cup Range(x)
    BY <2>7, <2>9, <2>10, <2>11
  <2>6. u \o x \in Seq(BurstOf)
    BY <1>4, <2>1
  <2> QED
    BY <2>5, <2>6 DEF u
<1>9. Range(x) = { Burst(l[i], b) : i \in 1 .. k }
  BY <1>4, <1>6 DEF Range
<1> HIDE DEF o
<1>10. e = [ tracker |-> d.tracker, records |-> r, out |-> o ]
  BY <1>1, <1>7
<1>11. /\ e.tracker = d.tracker /\ e.records = r /\ e.out = o
       /\ e = [ tracker |-> e.tracker, records |-> e.records, out |-> e.out ]
  BY <1>10
<1> QED
  BY <1>5, <1>8, <1>9, <1>11 DEF Harvested, IsDesk, e, r, l

LEMMA FiledHarvest ==
  ASSUME NEW t, NEW l \in Seq(Record), NEW U, NEW n, Filed(t, l, U, n), NEW k \in 0 .. Len(l)
  PROVE  Filed(t, SubSeq(l, k + 1, Len(l)), U \cup { l[i].id : i \in 1 .. k }, n)
<1> DEFINE L == Len(l)
           m == SubSeq(l, k + 1, L)
           K == { l[i].id : i \in 1 .. k }
<1>1. L \in Nat /\ DOMAIN l = 1 .. L /\ k \in 0 .. L
  OBVIOUS
<1>2. DOMAIN m = 1 .. (L - k) /\ \A i \in 1 .. (L - k) : m[i] = l[i + k]
  BY <1>1
<1> HIDE DEF m, L
<1>3. \A i \in 1 .. (L - k) : i + k \in 1 .. L /\ i + k \notin 1 .. k
  BY <1>1
<1>4. \A i \in 1 .. L : i \in 1 .. k \/ (i - k \in 1 .. (L - k) /\ (i - k) + k = i)
  BY <1>1
<1>5. 1 .. k \subseteq 1 .. L
  BY <1>1
<1>6. IdsOf(l) = IdsOf(m) \cup K
  <2>1. \A i \in 1 .. (L - k) : m[i].id \in IdsOf(l)
    BY <1>1, <1>2, <1>3 DEF IdsOf
  <2>2. K \subseteq IdsOf(l)
    BY <1>1, <1>5 DEF IdsOf
  <2>3. \A i \in 1 .. L : l[i].id \in IdsOf(m) \cup K
    <3> TAKE i \in 1 .. L
    <3>1. CASE i \in 1 .. k
      BY <3>1
    <3>2. CASE i - k \in 1 .. (L - k) /\ (i - k) + k = i
      <4>1. m[i - k] = l[i]
        BY <1>2, <3>2
      <4> QED
        BY <1>2, <3>2, <4>1 DEF IdsOf
    <3> QED
      BY <1>4, <3>1, <3>2
  <2> HIDE DEF K
  <2>4. IdsOf(m) \subseteq IdsOf(l) /\ IdsOf(l) \subseteq IdsOf(m) \cup K
    BY <1>1, <1>2, <2>1, <2>3 DEF IdsOf
  <2> QED
    BY <2>2, <2>4
<1>7. IdsOf(m) \cap K = {}
  <2> SUFFICES ASSUME NEW i \in 1 .. (L - k), NEW j \in 1 .. k, l[i + k].id = l[j].id
               PROVE  FALSE
    BY <1>2 DEF IdsOf
  <2>1. i + k = j
    BY <1>1, <1>3, <1>5 DEF Filed, Distinct
  <2> QED
    BY <1>3, <2>1
<1>8. Distinct(m)
  <2> SUFFICES ASSUME NEW i \in 1 .. (L - k), NEW j \in 1 .. (L - k), l[i + k].id = l[j + k].id
               PROVE  i = j
    BY <1>2 DEF Distinct
  <2>1. i + k = j + k
    BY <1>1, <1>3 DEF Filed, Distinct
  <2> QED
    BY <1>1, <2>1
<1> HIDE DEF K
<1> QED
  BY <1>6, <1>7, <1>8 DEF Filed, m, L, K

LEMMA HarvestSound ==
  ASSUME NEW d, NEW U, NEW n \in Nat, NEW h, Sound(d, U, n, h),
         NEW k \in 0 .. Len(d.records), NEW b \in SUBSET Nat
  PROVE  Sound(Harvest(d, k, b), U, n, h) /\ Harvested(d, Harvest(d, k, b), k, b)
<1> DEFINE e == Harvest(d, k, b)
           l == d.records
<1>1. /\ IsDesk(d) /\ l \in Seq(Record)
      /\ Accounted(d.tracker, n) /\ OneSegmentEach(d.tracker)
      /\ Filed(d.tracker, l, U \cup IdsOf(d.out), n) /\ ReadFit(d.tracker, h)
  BY DEF Sound, IsDesk
<1>2. Harvested(d, e, k, b)
  BY <1>1, HarvestEffect
<1> HIDE DEF e
<1>3. Filed(d.tracker, SubSeq(l, k + 1, Len(l)),
            (U \cup IdsOf(d.out)) \cup { l[i].id : i \in 1 .. k }, n)
  BY <1>1, FiledHarvest
<1>4. IdsOf(e.out) = IdsOf(d.out) \cup { l[i].id : i \in 1 .. k }
  <2>1. IdsOf(e.out) = { x.id : x \in Range(e.out) } /\ IdsOf(d.out) = { x.id : x \in Range(d.out) }
    BY DEF IdsOf, Range
  <2>2. \A i \in 1 .. k : Burst(l[i], b).id = l[i].id
    BY <1>1, BurstType
  <2>3. Range(e.out) = Range(d.out) \cup { Burst(l[i], b) : i \in 1 .. k }
    BY <1>2 DEF Harvested
  <2> QED
    BY <2>1, <2>2, <2>3
<1>5. U \cup IdsOf(e.out) = (U \cup IdsOf(d.out)) \cup { l[i].id : i \in 1 .. k }
  BY <1>4
<1>6. Sound(e, U, n, h)
  BY <1>1, <1>2, <1>3, <1>5 DEF Sound, Harvested
<1> QED
  BY <1>2, <1>6 DEF e

(* A tracker method that leaves the account as it was.                     *)
LEMMA TrackerReplaced ==
  ASSUME NEW d, NEW U, NEW n \in Nat, NEW h, NEW g, Sound(d, U, n, h),
         NEW f, Accounted(f, n), OneSegmentEach(f), ReadFit(f, g), OpenIds(f) = OpenIds(d.tracker)
  PROVE  LET e == [d EXCEPT !.tracker = f]
         IN  /\ Sound(e, U, n, g)
             /\ e.tracker = f /\ e.records = d.records /\ e.out = d.out
<1> DEFINE e == [d EXCEPT !.tracker = f]
<1>1. IsDesk(d) /\ Filed(d.tracker, d.records, U \cup IdsOf(d.out), n)
  BY DEF Sound
<1>2. e.tracker = f /\ e.records = d.records /\ e.out = d.out
  BY <1>1 DEF IsDesk
<1>3. e = [ tracker |-> e.tracker, records |-> e.records, out |-> e.out ]
  BY <1>1 DEF IsDesk
<1> HIDE DEF e
<1>4. IsDesk(e)
  BY <1>1, <1>2, <1>3 DEF IsDesk
<1>5. Filed(e.tracker, e.records, U \cup IdsOf(e.out), n)
  BY <1>1, <1>2 DEF Filed
<1> QED
  BY <1>2, <1>4, <1>5 DEF Sound, e

LEMMA SameOutcomes ==
  ASSUME NEW t, NEW f, NEW n \in Nat, Accounted(t, n), Accounted(f, n), OpenIds(f) = OpenIds(t),
         f.passes = t.passes, f.merged = t.merged
  PROVE  ReadIds(f) = ReadIds(t) /\ MissedIds(f) \cup PendingIds(f) = MissedIds(t) \cup PendingIds(t)
<1>1. ReadIds(f) = ReadIds(t)
  BY DEF ReadIds
<1> QED
  BY <1>1 DEF Accounted, AccountsFor

LEMMA OnFrameSound ==
  ASSUME NEW t, NEW n \in Nat, Accounted(t, n), OneSegmentEach(t), NEW h, ReadFit(t, h),
         NEW ts \in Nat, NEW b \in SUBSET Nat
  PROVE  LET f == OnFrame(t, ts, b)
         IN  /\ Accounted(f, n) /\ OneSegmentEach(f) /\ ReadFit(f, h) /\ OpenIds(f) = OpenIds(t)
             /\ \A s \in f.open : \E o \in t.open :
                  s.id = o.id /\ s.open = o.open /\ Fed(s) = Fed(o) \cup {ts}
<1> DEFINE f == OnFrame(t, ts, b)
           noted(s) == [ s EXCEPT !.evidence = AddFrame(@, ts) ]
<1>1. IsTracker(t) /\ \A s \in t.open : s \in Segment
  BY TrackerFields DEF Accounted
<1>2. Accounted(f, n) /\ OpenIds(f) = OpenIds(t)
  BY OnFrameAccounts
<1>3. /\ f.open = { noted(s) : s \in t.open }
      /\ f.passes = t.passes /\ f.merged = t.merged
  BY <1>1, OnFrameFields
<1>4. \A s \in t.open : /\ noted(s).id = s.id /\ noted(s).open = s.open /\ noted(s).reads = s.reads
                        /\ Fed(noted(s)) = Fed(s) \cup {ts}
  BY <1>1, SegmentFed
<1> HIDE DEF f, noted
<1>5. \A s \in f.open : \E o \in t.open :
        /\ s = noted(o)
        /\ s.id = o.id /\ s.open = o.open /\ Fed(s) = Fed(o) \cup {ts} /\ s.reads = o.reads
  BY <1>3, <1>4
<1>6. OneSegmentEach(f)
  BY <1>5 DEF OneSegmentEach
<1>7. ReadFit(f, h)
  <2>1. ReadIds(f) = ReadIds(t) /\ MissedIds(f) \cup PendingIds(f) = MissedIds(t) \cup PendingIds(t)
    BY <1>2, <1>3, SameOutcomes
  <2>2. \A s \in f.open, p \in Payloads : IF s.id \in DOMAIN h THEN s.reads[p] >= 1 ELSE s.reads[p] = 0
    <3> TAKE s \in f.open, p \in Payloads
    <3>1. PICK o \in t.open : s.id = o.id /\ s.reads = o.reads
      BY <1>5
    <3> QED
      BY <3>1 DEF ReadFit
  <2> QED
    BY <2>1, <2>2 DEF ReadFit
<1> QED
  BY <1>2, <1>5, <1>6, <1>7 DEF f

(* on_frame: what is due leaves.                                           *)
ClockedTo(d, e, ts, b) ==
  /\ e.tracker = OnFrame(d.tracker, ts, b) /\ OpenIds(e.tracker) = OpenIds(d.tracker)
  /\ e.records = SubSeq(d.records, DueCount(d.records, ts) + 1, Len(d.records))
  /\ Range(e.out) = Range(d.out) \cup { Burst(d.records[i], b) : i \in 1 .. DueCount(d.records, ts) }
  /\ \A s \in e.tracker.open : \E o \in d.tracker.open :
       s.id = o.id /\ s.open = o.open /\ Fed(s) = Fed(o) \cup {ts}

LEMMA ClockedSound ==
  ASSUME NEW d, NEW U, NEW n \in Nat, NEW h, Sound(d, U, n, h), NEW ts \in Nat, NEW b \in SUBSET Nat
  PROVE  Sound(Clocked(d, ts, b), U, n, h) /\ ClockedTo(d, Clocked(d, ts, b), ts, b)
<1> DEFINE t == d.tracker
           f == OnFrame(t, ts, b)
           u == [d EXCEPT !.tracker = f]
           k == DueCount(d.records, ts)
           e == Clocked(d, ts, b)
<1>1. Accounted(t, n) /\ OneSegmentEach(t) /\ ReadFit(t, h) /\ d.records \in Seq(Record)
  BY DEF Sound, IsDesk
<1>2. /\ Accounted(f, n) /\ OneSegmentEach(f) /\ ReadFit(f, h) /\ OpenIds(f) = OpenIds(t)
      /\ \A s \in f.open : \E o \in t.open :
           s.id = o.id /\ s.open = o.open /\ Fed(s) = Fed(o) \cup {ts}
  BY <1>1, OnFrameSound
<1>3. k \in 0 .. Len(d.records)
  BY <1>1, DueCountInRange
<1>4. e = Harvest(u, k, b)
  BY DEF Clocked
<1> HIDE DEF f, k, e
<1>5. Sound(u, U, n, h) /\ u.tracker = f /\ u.records = d.records /\ u.out = d.out
  BY <1>2, TrackerReplaced
<1> HIDE DEF u
<1>6. Sound(e, U, n, h) /\ Harvested(u, e, k, b)
  BY <1>3, <1>4, <1>5, HarvestSound
<1> QED
  BY <1>2, <1>3, <1>5, <1>6 DEF Harvested, ClockedTo, f, k, e

LEMMA FlushPendingFields ==
  ASSUME NEW t, IsTracker(t), NEW b \in SUBSET Nat
  PROVE  LET f == FlushPending(t, b)
             m == Len(t.pending)
         IN  /\ f.open = t.open /\ f.passes = t.passes /\ f.merged = t.merged
             /\ f.misses = t.misses \cup { Miss(t.pending[i], b) : i \in 1 .. m }
             /\ f.pending = SubSeq(t.pending, m + 1, m)
<1> DEFINE m == Len(t.pending)
<1>1. m \in 0 .. Len(t.pending)
  BY TrackerFields
<1> HIDE DEF m
<1>2. /\ FinalizeFirst(t, m, b).open = t.open
      /\ FinalizeFirst(t, m, b).passes = t.passes
      /\ FinalizeFirst(t, m, b).merged = t.merged
      /\ FinalizeFirst(t, m, b).misses = t.misses \cup { Miss(t.pending[i], b) : i \in 1 .. m }
      /\ FinalizeFirst(t, m, b).pending = SubSeq(t.pending, m + 1, Len(t.pending))
  BY <1>1, FinalizeFirstType
<1> QED
  BY <1>2 DEF FlushPending, m

(* flush_pending: everything that waits leaves.                            *)
SettledTo(d, e, b) ==
  /\ e.tracker.open = d.tracker.open /\ PendingIds(e.tracker) = {}
  /\ e.tracker.pending = <<>> /\ e.records = <<>>
  /\ e.tracker.misses = d.tracker.misses \cup
       { Miss(d.tracker.pending[i], b) : i \in 1 .. Len(d.tracker.pending) }
  /\ Range(e.out) = Range(d.out) \cup { Burst(d.records[i], b) : i \in 1 .. Len(d.records) }

LEMMA SettledSound ==
  ASSUME NEW d, NEW U, NEW n \in Nat, NEW h, Sound(d, U, n, h), NEW b \in SUBSET Nat
  PROVE  Sound(Settled(d, b), U, n, h) /\ SettledTo(d, Settled(d, b), b)
<1> DEFINE t == d.tracker
           f == FlushPending(t, b)
           u == [d EXCEPT !.tracker = f]
           k == Len(d.records)
           e == Settled(d, b)
           m == Len(t.pending)
<1>1. /\ Accounted(t, n) /\ OneSegmentEach(t) /\ ReadFit(t, h) /\ d.records \in Seq(Record)
      /\ IsTracker(t) /\ k \in Nat
  BY DEF Sound, IsDesk, Accounted
<1>2. t.pending \in Seq(Waiting) /\ m \in 0 .. m
  BY <1>1, TrackerFields
<1>3. /\ f.open = t.open /\ f.passes = t.passes /\ f.merged = t.merged
      /\ f.misses = t.misses \cup { Miss(t.pending[i], b) : i \in 1 .. m }
      /\ f.pending = SubSeq(t.pending, m + 1, m)
  BY <1>1, FlushPendingFields
<1>4. f.pending = <<>>
  BY <1>2, <1>3
<1>5. Accounted(f, n) /\ OpenIds(f) = OpenIds(t) /\ PendingIds(f) = {}
  BY <1>1, FlushPendingAccounts
<1>6. e = Harvest(u, k, b)
  BY DEF Settled
<1> HIDE DEF f, k, e, m
<1>7. OneSegmentEach(f)
  BY <1>1, <1>3 DEF OneSegmentEach
<1>8. ReadFit(f, h)
  <2>1. ReadIds(f) = ReadIds(t) /\ MissedIds(f) \cup PendingIds(f) = MissedIds(t) \cup PendingIds(t)
    BY <1>1, <1>3, <1>5, SameOutcomes
  <2> QED
    BY <1>1, <1>3, <2>1 DEF ReadFit
<1>9. Sound(u, U, n, h) /\ u.tracker = f /\ u.records = d.records /\ u.out = d.out
  BY <1>5, <1>7, <1>8, TrackerReplaced
<1> HIDE DEF u
<1>10. k \in 0 .. Len(u.records)
  BY <1>1, <1>9 DEF k
<1>11. Sound(e, U, n, h) /\ Harvested(u, e, k, b)
  BY <1>6, <1>9, <1>10, HarvestSound
<1>12. e.records = <<>>
  <2>1. e.records = SubSeq(d.records, k + 1, Len(d.records))
    BY <1>9, <1>11 DEF Harvested
  <2> QED
    BY <1>1, <2>1 DEF k
<1> QED
  BY <1>3, <1>4, <1>5, <1>9, <1>11, <1>12 DEF Harvested, SettledTo, f, k, e, m

-----------------------------------------------------------------------------
(* The OPEN events of a frame, one after another.                          *)
SegmentFor(o, b) ==
  [ id |-> o.id, open |-> o.ts, reads |-> [ p \in Payloads |-> 0 ],
    evidence |-> PreRolled(b, o.ts - PreRoll) ]

LEMMA SegmentForType ==
  ASSUME NEW o \in Event, NEW b \in SUBSET Nat, IsFiniteSet(b)
  PROVE  /\ SegmentFor(o, b) \in Segment
         /\ SegmentFor(o, b).id = o.id /\ SegmentFor(o, b).open = o.ts
         /\ \A f \in b : f >= o.ts - PreRoll => f \in Fed(SegmentFor(o, b))
         /\ \A p \in Payloads : SegmentFor(o, b).reads[p] = 0
<1> DEFINE e == PreRolled(b, o.ts - PreRoll)
           z == [ p \in Payloads |-> 0 ]
<1>1. z \in [ Payloads -> Nat ] /\ \A p \in Payloads : z[p] = 0
  OBVIOUS
<1>2. e \in Reservoir /\ Range(e.fed) = { f \in b : f >= o.ts - PreRoll }
  <2>1. o.ts - PreRoll \in Int
    BY TrackerAssumption DEF Event
  <2> QED
    BY <2>1, PreRolledType
<1>3. SegmentFor(o, b) = [ id |-> o.id, open |-> o.ts, reads |-> z, evidence |-> e ]
  BY DEF SegmentFor
<1> HIDE DEF e, z
<1>4. Fed(SegmentFor(o, b)) = { f \in b : f >= o.ts - PreRoll }
  BY <1>2, <1>3 DEF Fed
<1> QED
  BY <1>1, <1>2, <1>3, <1>4 DEF Segment, Event

(* Two desks whose trackers differ in their open segments only.            *)
SameButOpen(d, e) ==
  /\ e.records = d.records /\ e.out = d.out
  /\ e.tracker.pending = d.tracker.pending /\ e.tracker.misses = d.tracker.misses
  /\ e.tracker.passes = d.tracker.passes /\ e.tracker.merged = d.tracker.merged

(* The segments of the first m events.                                     *)
NewSegments(opens, b, m) == { SegmentFor(opens[k], b) : k \in 1 .. m }

(* The desk e is d with the open segments S more.                          *)
OpenedOn(d, e, S) == SameButOpen(d, e) /\ e.tracker.open = d.tracker.open \cup S

OpenOne(e, o, b) == [ e EXCEPT !.tracker = OnSegmentOpen(@, o.id, o.ts, b) ]

LEMMA OnSegmentOpenFields ==
  ASSUME NEW t, IsTracker(t), NEW o \in Event, o.id \notin OpenIds(t), NEW b \in SUBSET Nat
  PROVE  LET f == OnSegmentOpen(t, o.id, o.ts, b)
         IN  /\ f.open = t.open \cup {SegmentFor(o, b)}
             /\ f.pending = t.pending /\ f.misses = t.misses
             /\ f.passes = t.passes /\ f.merged = t.merged
<1>1. OnSegmentClose(t, o.id, o.ts) = t
  BY DEF OnSegmentClose, OpenIds
<1>2. OnSegmentOpen(t, o.id, o.ts, b) = [ t EXCEPT !.open = @ \cup {SegmentFor(o, b)} ]
  BY <1>1 DEF OnSegmentOpen, SegmentFor
<1> QED
  BY <1>2 DEF IsTracker

LEMMA OpenOneSound ==
  ASSUME NEW d, NEW U, NEW n \in Nat, NEW h, Sound(d, U, n, h), DOMAIN h \subseteq 1 .. n,
         NEW o \in Event, o.id = n + 1, NEW b \in SUBSET Nat, IsFiniteSet(b)
  PROVE  LET e == OpenOne(d, o, b)
         IN  Sound(e, U, n + 1, h) /\ OpenedOn(d, e, {SegmentFor(o, b)})
<1> DEFINE t == d.tracker
           f == OnSegmentOpen(t, n + 1, o.ts, b)
           e == OpenOne(d, o, b)
           s == SegmentFor(o, b)
<1>1. /\ Accounted(t, n) /\ OneSegmentEach(t) /\ IsDesk(d) /\ IsTracker(t)
      /\ Filed(t, d.records, U \cup IdsOf(d.out), n) /\ ReadFit(t, h)
  BY DEF Sound, Accounted
<1>2. OpenIds(t) \subseteq 1 .. n /\ o.ts \in Nat
  BY <1>1 DEF Accounted, AccountsFor, Event
<1>3. n + 1 \notin 1 .. n /\ 1 .. (n + 1) = (1 .. n) \cup {n + 1}
  OBVIOUS
<1>4. /\ f.open = t.open \cup {s} /\ f.pending = t.pending /\ f.misses = t.misses
      /\ f.passes = t.passes /\ f.merged = t.merged
  <2> DEFINE g == OnSegmentOpen(t, o.id, o.ts, b)
  <2>1. o.id \notin OpenIds(t) /\ g = f
    BY <1>2, <1>3
  <2>2. /\ g.open = t.open \cup {s} /\ g.pending = t.pending /\ g.misses = t.misses
        /\ g.passes = t.passes /\ g.merged = t.merged
    BY <1>1, <2>1, OnSegmentOpenFields
  <2> HIDE DEF f, g
  <2> QED
    BY <2>1, <2>2
<1>5. Accounted(f, n + 1) /\ OpenIds(f) = OpenIds(t) \cup {n + 1}
  BY <1>1, <1>2, OnSegmentOpenAccounts
<1>6. s.id = n + 1 /\ \A p \in Payloads : s.reads[p] = 0
  BY SegmentForType
<1>7. e = [ d EXCEPT !.tracker = f ]
  BY DEF OpenOne
<1> HIDE DEF f, s, e
<1>8. e.tracker = f /\ e.records = d.records /\ e.out = d.out /\ IsDesk(e)
  BY <1>1, <1>7 DEF IsDesk
<1>9. OneSegmentEach(f)
  BY <1>1, <1>2, <1>3, <1>4, <1>6 DEF OneSegmentEach, OpenIds
<1>10. Filed(f, d.records, U \cup IdsOf(d.out), n + 1)
  BY <1>1, <1>2, <1>3, <1>5 DEF Filed
<1>11. ReadFit(f, h)
  <2>1. ReadIds(f) = ReadIds(t) /\ MissedIds(f) = MissedIds(t) /\ PendingIds(f) = PendingIds(t)
    BY <1>4 DEF ReadIds, MissedIds, PendingIds
  <2>2. s.id \notin DOMAIN h
    BY <1>3, <1>6
  <2> QED
    BY <1>1, <1>4, <1>6, <2>1, <2>2 DEF ReadFit
<1> QED
  BY <1>1, <1>4, <1>5, <1>8, <1>9, <1>10, <1>11 DEF Sound, SameButOpen, OpenedOn, e, s

OpenRound(c, e, o) == OpenOne(e, o, c.b)

OpenInv(c, m, e) ==
  Sound(e, c.U, c.n + m, c.h) /\ OpenedOn(c.d, e, NewSegments(c.opens, c.b, m))

OpenLoop == INSTANCE Iteration WITH Op <- OpenRound, Inv <- OpenInv

LEMMA OpenAllIsFold ==
  ASSUME NEW c, NEW d, NEW opens
  PROVE  OpenAll(d, opens, c.b) = OpenLoop!Fold(c, d, opens)
BY DEF OpenAll, OpenLoop!Fold, OpenLoop!Last, FoldLeft, MapThenFoldSet, Max, OpenRound, OpenOne

LEMMA OpenAllSound ==
  ASSUME NEW d, NEW U, NEW n \in Nat, NEW h, Sound(d, U, n, h), DOMAIN h \subseteq 1 .. n,
         NEW opens \in Seq(Event), \A m \in DOMAIN opens : opens[m].id = n + m,
         NEW b \in SUBSET Nat, IsFiniteSet(b)
  PROVE  LET e == OpenAll(d, opens, b)
         IN  Sound(e, U, n + Len(opens), h) /\ OpenedOn(d, e, NewSegments(opens, b, Len(opens)))
<1> DEFINE c == [ d |-> d, U |-> U, n |-> n, h |-> h, opens |-> opens, b |-> b ]
           L == Len(opens)
<1>1. L \in Nat /\ DOMAIN opens = 1 .. L /\ \A k \in 1 .. L : opens[k] \in Event
  OBVIOUS
<1>2. c.d = d /\ c.U = U /\ c.n = n /\ c.h = h /\ c.opens = opens /\ c.b = b
  OBVIOUS
<1> HIDE DEF c, L
<1>3. OpenInv(c, 0, d)
  <2>1. n + 0 = n /\ 1 .. 0 = {}
    OBVIOUS
  <2>2. OpenedOn(d, d, NewSegments(opens, b, 0))
    BY <2>1 DEF SameButOpen, OpenedOn, NewSegments
  <2> QED
    BY <1>2, <2>1, <2>2 DEF OpenInv
<1>4. ASSUME NEW i \in 1 .. L, NEW e, OpenInv(c, i - 1, e)
      PROVE  OpenInv(c, i, OpenRound(c, e, opens[i]))
  <2> DEFINE k == n + (i - 1)
             o == opens[i]
             f == OpenOne(e, o, b)
  <2>1. /\ k \in Nat /\ k + 1 = n + i /\ 1 .. n \subseteq 1 .. k
        /\ 1 .. i = (1 .. (i - 1)) \cup {i}
    BY <1>1
  <2>2. o \in Event /\ o.id = k + 1 /\ DOMAIN h \subseteq 1 .. k
    BY <1>1, <2>1
  <2>3. Sound(e, U, k, h) /\ OpenedOn(d, e, NewSegments(opens, b, i - 1))
    BY <1>2, <1>4 DEF OpenInv
  <2> HIDE DEF k, f, o
  <2>4. Sound(f, U, k + 1, h) /\ OpenedOn(e, f, {SegmentFor(o, b)})
    BY <2>2, <2>1, <2>3, OpenOneSound DEF f
  <2>5. NewSegments(opens, b, i) = NewSegments(opens, b, i - 1) \cup {SegmentFor(o, b)}
    BY <2>1 DEF NewSegments, o
  <2>6. OpenedOn(d, f, NewSegments(opens, b, i))
    BY <2>3, <2>4, <2>5 DEF OpenedOn, SameButOpen
  <2>7. OpenInv(c, i, f)
    BY <1>2, <2>1, <2>4, <2>6 DEF OpenInv
  <2>8. f = OpenRound(c, e, opens[i])
    BY <1>2 DEF f, o, OpenRound
  <2> QED
    BY <2>7, <2>8
<1>5. OpenInv(c, L, OpenLoop!Fold(c, d, opens))
  BY <1>1, <1>3, <1>4, OpenLoop!FoldInvariant
<1>6. OpenInv(c, L, OpenAll(d, opens, b))
  BY <1>2, <1>5, OpenAllIsFold
<1> QED
  BY <1>2, <1>6 DEF OpenInv, L

-----------------------------------------------------------------------------
(* The decodes of a frame.                                                 *)
Counted(s, ids) == IF s.id \in ids THEN [s EXCEPT !.reads = [p \in Payloads |-> @[p] + 1]] ELSE s

(* The segments of S are those of T, as far as times and evidence go.      *)
Alike(S, T) == \A s \in S : \E o \in T : s.id = o.id /\ s.open = o.open /\ s.evidence = o.evidence

LEMMA CountedType ==
  ASSUME NEW s \in Segment, NEW ids
  PROVE  /\ Counted(s, ids) \in Segment
         /\ Counted(s, ids).id = s.id /\ Counted(s, ids).open = s.open
         /\ Counted(s, ids).evidence = s.evidence
         /\ \A p \in Payloads :
              Counted(s, ids).reads[p] = IF s.id \in ids THEN s.reads[p] + 1 ELSE s.reads[p]
<1> DEFINE r == [ p \in Payloads |-> s.reads[p] + 1 ]
<1>1. \A p \in Payloads : s.reads[p] + 1 \in Nat
  BY DEF Segment
<1>2. r \in [ Payloads -> Nat ] /\ \A p \in Payloads : r[p] = s.reads[p] + 1
  BY <1>1
<1>3. [s EXCEPT !.reads = r] \in Segment /\ [s EXCEPT !.reads = r].reads = r
      /\ [s EXCEPT !.reads = r].id = s.id /\ [s EXCEPT !.reads = r].open = s.open
      /\ [s EXCEPT !.reads = r].evidence = s.evidence
  <2> HIDE DEF r
  <2> QED
    BY <1>2 DEF Segment
<1>4. Counted(s, ids) = IF s.id \in ids THEN [s EXCEPT !.reads = r] ELSE s
  BY DEF Counted
<1> HIDE DEF r
<1> QED
  BY <1>2, <1>3, <1>4

DecodedTo(d, e) ==
  /\ SameButOpen(d, e)
  /\ Alike(e.tracker.open, d.tracker.open) /\ OpenIds(e.tracker) = OpenIds(d.tracker)

LEMMA DecodeAllSound ==
  ASSUME NEW d, NEW U, NEW n \in Nat, NEW h, Sound(d, U, n, h),
         NEW ids, ids \subseteq OpenIds(d.tracker), NEW g, DOMAIN g = DOMAIN h \cup ids
  PROVE  Sound(DecodeAll(d, ids), U, n, g) /\ DecodedTo(d, DecodeAll(d, ids))
<1> DEFINE t == d.tracker
           S == { Counted(s, ids) : s \in t.open }
           f == [ t EXCEPT !.open = S ]
           e == DecodeAll(d, ids)
           r == [ d EXCEPT !.tracker = f ]
<1>1. /\ Accounted(t, n) /\ OneSegmentEach(t) /\ IsDesk(d) /\ IsTracker(t) /\ ReadFit(t, h)
      /\ \A s \in t.open : s \in Segment
  BY TrackerFields DEF Sound, Accounted
<1>2. /\ S \in SUBSET Segment
      /\ \A x \in S : \E s \in t.open :
           /\ x.id = s.id /\ x.open = s.open /\ x.evidence = s.evidence
           /\ \A p \in Payloads : x.reads[p] = IF s.id \in ids THEN s.reads[p] + 1 ELSE s.reads[p]
           /\ x = Counted(s, ids)
      /\ \A s \in t.open : \E x \in S : x.id = s.id
  BY <1>1, CountedType
<1>3. { x.id : x \in S } = OpenIds(t)
  BY <1>2 DEF OpenIds
<1>4. e = r
  BY <1>1 DEF DecodeAll, Counted, IsDesk, IsTracker
<1> HIDE DEF S
<1>5. Accounted(f, n) /\ OpenIds(f) = OpenIds(t)
  BY <1>1, <1>2, <1>3, RewriteOpenAccounts
<1>6. /\ f.open = S /\ f.pending = t.pending /\ f.misses = t.misses
      /\ f.passes = t.passes /\ f.merged = t.merged
  BY <1>1 DEF IsTracker
<1> HIDE DEF f, e, r
<1>7. OneSegmentEach(f)
  BY <1>1, <1>2, <1>6 DEF OneSegmentEach
<1>8. ReadFit(f, g)
  <2>1. ReadIds(f) = ReadIds(t) /\ MissedIds(f) = MissedIds(t) /\ PendingIds(f) = PendingIds(t)
    BY <1>6 DEF ReadIds, MissedIds, PendingIds
  <2>2. OpenIds(t) \cap (PendingIds(t) \cup MissedIds(t)) = {}
    BY <1>1 DEF Accounted, AccountsFor
  <2>3. \A x \in f.open, p \in Payloads : IF x.id \in DOMAIN g THEN x.reads[p] >= 1 ELSE x.reads[p] = 0
    <3> TAKE x \in f.open, p \in Payloads
    <3>1. PICK s \in t.open :
            /\ x.id = s.id
            /\ x.reads[p] = IF s.id \in ids THEN s.reads[p] + 1 ELSE s.reads[p]
      BY <1>2, <1>6
    <3>2. s.reads[p] \in Nat
      BY <1>1 DEF Segment
    <3>3. IF s.id \in DOMAIN h THEN s.reads[p] >= 1 ELSE s.reads[p] = 0
      BY <1>1 DEF ReadFit
    <3> QED
      BY <3>1, <3>2, <3>3
  <2> QED
    BY <1>1, <2>1, <2>2, <2>3 DEF ReadFit
<1>9. /\ Sound(r, U, n, g) /\ r.tracker = f /\ r.records = d.records /\ r.out = d.out
  BY <1>5, <1>7, <1>8, TrackerReplaced DEF r
<1>10. Alike(f.open, t.open)
  BY <1>2, <1>6 DEF Alike
<1> QED
  BY <1>4, <1>5, <1>6, <1>9, <1>10 DEF SameButOpen, DecodedTo, e

(* Where the decodes of a frame go: to the tracks it saw.                  *)
LEMMA HitsAreOpen ==
  ASSUME NEW g \in Gate, NEW ts \in Nat, NEW run \in Runs(Len(Live(g)))
  PROVE  HitIds(Live(g), ts, run) \subseteq OpenTracks(g)
<1> DEFINE T == g.tracks
           I == { i \in DOMAIN T : IsLive(T[i]) }
           x == Live(g)
           n == Len(x)
<1>1. T \in Seq(Track) /\ Len(T) \in Nat /\ DOMAIN T = 1 .. Len(T) /\ T \in [1 .. Len(T) -> Track]
  <2>1. T \in Seq(Track)
    BY DEF Gate
  <2> QED
    BY <2>1
<1>2. x \in Seq(Track) /\ Picks(T, I, x)
  <2> DEFINE m == Len(T)
  <2>1. m \in Nat /\ T \in [1 .. m -> Track] /\ I \in SUBSET (1 .. m)
    BY <1>1
  <2> HIDE DEF m, I, T
  <2>2. InOrder(T, I) \in Seq(Track) /\ Picks(T, I, InOrder(T, I))
    BY <2>1, InOrderType
  <2> QED
    BY <2>2 DEF Live, I, T
<1>3. n \in Nat /\ \A k \in 1 .. n : \E i \in I : x[k] = T[i]
  <2> HIDE DEF x, I, T
  <2> QED
    BY <1>2 DEF Picks
<1>4. \A k \in 1 .. n : x[k].openId \in OpenTracks(g)
  <2> HIDE DEF x
  <2> QED
    BY <1>3 DEF IsLive, OpenTracks
<1>5. \A k \in DOMAIN run : k \in 1 .. n
  <2> HIDE DEF n
  <2>1. PICK k \in 0 .. n : run \in [1 .. k -> BOOLEAN]
    BY DEF Runs, n
  <2> QED
    BY <1>3, <2>1
<1>6. \A k \in 1 .. n : Turn(ts, n, k) \in 1 .. n
  <2> HIDE DEF n
  <2> TAKE k \in 1 .. n
  <2>1. n \in Nat /\ n > 0 /\ k - 1 \in Nat
    BY <1>3
  <2>2. ts % n \in Nat
    BY <2>1
  <2> DEFINE z == (ts % n) + (k - 1)
  <2>3. z \in Nat
    BY <2>1, <2>2
  <2> HIDE DEF z
  <2>4. z % n \in 0 .. (n - 1)
    BY <2>1, <2>3
  <2> QED
    BY <2>1, <2>4 DEF Turn, z
<1> HIDE DEF x, n
<1>7. \A y \in HitIds(x, ts, run) : \E k \in DOMAIN run : y = x[Turn(ts, n, k)].openId
  BY DEF HitIds, n
<1> QED
  BY <1>4, <1>5, <1>6, <1>7 DEF x

-----------------------------------------------------------------------------
(* Times.  at is the time of the last frame, S the frames seen so far and  *)
(* D the discontinuities among them.                                       *)

(* A frame a segment took: it is evidence, unless it was crowded out of    *)
(* the buffer.  And a frame that a burst shows, or need not show.          *)
Took(x, f, S) == f \in Fed(x) \/ Crowded(S, f, Horizon)

Thinned(e, f) == f \in Range(e.fed) /\ Len(e.fed) > ReservoirCap

Shows(x, f, S) ==
  f \in x.frames \/ Thinned(x.evidence, f) \/ Crowded(S, f, Horizon)

(* An open segment took every frame since its opening.                     *)
OpenFit(s, at, S, h) ==
  /\ s.open <= at
  /\ \A f \in S : f >= s.open => Took(s, f, S)
  /\ s.id \in DOMAIN h => s.open <= h[s.id]

(* A list of waiting misses or records: what a burst has when it is queued *)
(* reaches to every close before it; and the list is held up by a burst    *)
(* that is not due, or the burst took every frame so far.                  *)
ListFit(l, post, at, S) ==
  /\ \A i \in DOMAIN l : l[i].deadline = l[i].close + post /\ l[i].close <= at
  /\ \A i, j \in DOMAIN l : j <= i =>
       \A f \in S : l[i].close <= f /\ f <= l[j].close => Took(l[i], f, S)
  /\ \A i \in DOMAIN l : \/ \E j \in DOMAIN l : j <= i /\ l[j].close + post > at
                         \/ \A f \in S : l[i].close <= f => Took(l[i], f, S)

(* A burst that is out shows its post-roll on its side of a discontinuity, *)
(* and no frame to come is part of it, unless the stream is over.          *)
DoneFit(x, post, at, S, D, over) ==
  /\ x.close <= at
  /\ \A f \in S : x.close <= f /\ f < x.close + post /\ (~ \E d \in D : x.close < d /\ d <= f) => Shows(x, f, S)
  /\ over \/ x.close + post <= at \/ \E d \in D : x.close < d /\ d <= at

(* The burst x of r, finalized with the buffer b.                          *)
IsBurst(x, r, post, b) ==
  /\ x.close = r.close /\ x.evidence = r.evidence
  /\ x.frames = WithPostRoll(r.evidence, r.close, post, b)

(* What was crowded out stays so.                                          *)
LEMMA TookStays ==
  ASSUME NEW S \in SUBSET Nat, NEW at \in Nat, \A f \in S : f <= at, NEW ts
  PROVE  /\ \A x, f : Took(x, f, S) => Took(x, f, S \cup {ts})
         /\ \A x, f : Shows(x, f, S) => Shows(x, f, S \cup {ts})
<1>1. IsFiniteSet(S \cup {ts})
  BY FiniteFrames, FS_AddElement
<1>2. \A f : Crowded(S, f, Horizon) => Crowded(S \cup {ts}, f, Horizon)
  BY <1>1, CrowdedStays
<1> QED
  BY <1>2 DEF Took, Shows

LEMMA AppendFit ==
  ASSUME NEW T, NEW l \in Seq(T), NEW x \in T, NEW post \in Nat, NEW at \in Nat, NEW S \in SUBSET Nat,
         ListFit(l, post, at, S), x.deadline = x.close + post, x.close <= at,
         \A f \in S : f >= x.close => Took(x, f, S)
  PROVE  ListFit(Append(l, x), post, at, S)
<1> DEFINE m == Append(l, x)
           L == Len(l)
<1>1. L \in Nat /\ DOMAIN l = 1 .. L /\ DOMAIN m = 1 .. (L + 1)
  OBVIOUS
<1>2. (\A i \in 1 .. L : m[i] = l[i]) /\ m[L + 1] = x
  OBVIOUS
<1> HIDE DEF m, L
<1>3. \A i \in 1 .. (L + 1) : i = L + 1 \/ (i \in 1 .. L /\ \A j \in 1 .. (L + 1) : j <= i => j \in 1 .. L)
  BY <1>1
<1>4. \A j \in 1 .. L : j \in 1 .. (L + 1)
  BY <1>1
<1>5. \A i \in DOMAIN m : m[i].deadline = m[i].close + post /\ m[i].close <= at
  BY <1>1, <1>2, <1>3 DEF ListFit
<1>6. \A f \in S : x.close <= f => Took(x, f, S)
  <2> TAKE f \in S
  <2>1. x.close <= f <=> f >= x.close
    OBVIOUS
  <2> QED
    BY <2>1
<1>7. \A i, j \in DOMAIN m : j <= i =>
       \A f \in S : m[i].close <= f /\ f <= m[j].close => Took(m[i], f, S)
  BY <1>1, <1>2, <1>3, <1>6 DEF ListFit
<1>8. \A i \in DOMAIN m : \/ \E j \in DOMAIN m : j <= i /\ m[j].close + post > at
                          \/ \A f \in S : m[i].close <= f => Took(m[i], f, S)
  BY <1>1, <1>2, <1>3, <1>4, <1>6 DEF ListFit
<1> QED
  BY <1>5, <1>7, <1>8 DEF ListFit, m

(* What is not due stays, in a list whose head is not due.                 *)
LEMMA RemainFit ==
  ASSUME NEW T, NEW l \in Seq(T), \A x \in T : x.close \in Nat, NEW post \in Nat, NEW at \in Nat,
         NEW S \in SUBSET Nat, \A f \in S : f <= at,
         ListFit(l, post, at, S), NEW ts \in Nat, at < ts
  PROVE  ListFit(SubSeq(l, DueCount(l, ts) + 1, Len(l)), post, ts, S \cup {ts})
<1> DEFINE L == Len(l)
           k == DueCount(l, ts)
           m == SubSeq(l, k + 1, L)
<1>1. L \in Nat /\ DOMAIN l = 1 .. L /\ k \in 0 .. L /\ \A i \in 1 .. L : l[i].close \in Nat
  BY DueCountInRange
<1>2. /\ \A i \in 1 .. k : l[i].deadline <= ts
      /\ \A n \in 1 .. L : (\A i \in 1 .. n : l[i].deadline <= ts) => n <= k
  BY DueCountIsDue
<1> HIDE DEF L, k
<1>3. DOMAIN m = 1 .. (L - k) /\ \A i \in 1 .. (L - k) : m[i] = l[i + k]
  BY <1>1
<1> HIDE DEF m
<1>4. \A i \in 1 .. (L - k) : i + k \in 1 .. L /\ 1 \in 1 .. (L - k) /\ 1 <= i
  BY <1>1
<1>5. \A i \in DOMAIN m : m[i].deadline = m[i].close + post /\ m[i].close <= ts /\ m[i].close <= at
  <2> TAKE i \in DOMAIN m
  <2>1. i + k \in 1 .. L /\ m[i] = l[i + k]
    BY <1>3, <1>4
  <2>2. l[i + k].deadline = l[i + k].close + post /\ l[i + k].close <= at /\ l[i + k].close \in Nat
    BY <1>1, <2>1 DEF ListFit
  <2> QED
    BY <2>1, <2>2
<1>6. \A i, j \in DOMAIN m : j <= i =>
       \A f \in S \cup {ts} : m[i].close <= f /\ f <= m[j].close => Took(m[i], f, S \cup {ts})
  <2> TAKE i, j \in DOMAIN m
  <2> HAVE j <= i
  <2> TAKE f \in S \cup {ts}
  <2> HAVE m[i].close <= f /\ f <= m[j].close
  <2>1. /\ i + k \in 1 .. L /\ j + k \in 1 .. L /\ j + k <= i + k
        /\ m[i] = l[i + k] /\ m[j] = l[j + k]
    BY <1>1, <1>3, <1>4
  <2>2. f # ts
    BY <1>1, <1>5, <2>1
  <2>3. Took(m[i], f, S)
    BY <1>1, <2>1, <2>2 DEF ListFit
  <2> QED
    BY <2>3, TookStays
<1>7. \A i \in DOMAIN m : \E j \in DOMAIN m : j <= i /\ m[j].close + post > ts
  <2> TAKE i \in DOMAIN m
  <2>1. 1 \in DOMAIN m /\ 1 <= i /\ 1 + k \in 1 .. L /\ m[1] = l[1 + k]
    BY <1>3, <1>4
  <2>2. ~ (l[1 + k].deadline <= ts)
    <3>1. \A n \in 1 .. (1 + k) : n \in 1 .. k \/ n = 1 + k
      BY <1>1
    <3>2. ~ (1 + k <= k)
      BY <1>1
    <3> QED
      BY <1>2, <2>1, <3>1, <3>2
  <2>3. m[1].deadline = m[1].close + post /\ m[1].close \in Nat
    BY <1>1, <1>5, <2>1
  <2> QED
    BY <2>1, <2>2, <2>3
<1> QED
  BY <1>5, <1>6, <1>7 DEF ListFit, m, k, L

(* The frames a burst owes were taken as evidence or are in the buffer.    *)
LEMMA OwedFrames ==
  ASSUME NEW T, NEW l \in Seq(T), \A x \in T : x.close \in Nat /\ x.evidence \in Reservoir,
         NEW post \in Nat, post <= Horizon,
         NEW at \in Nat, NEW S \in SUBSET Nat, \A f \in S : f <= at, ListFit(l, post, at, S),
         NEW i \in 1 .. Len(l), NEW x, IsBurst(x, l[i], post, Held(S, at, Horizon)),
         NEW f \in S, l[i].close <= f, f < l[i].close + post
  PROVE  Shows(x, f, S)
<1>1. DOMAIN l = 1 .. Len(l) /\ \A j \in 1 .. Len(l) : l[j].close \in Nat
  OBVIOUS
<1>2. f \in Nat /\ i <= i /\ Horizon \in Nat
  BY HorizonNatural
<1>3. CASE Took(l[i], f, S)
  <2>1. CASE f \in Fed(l[i])
    <3>1. l[i].evidence \in Reservoir /\ f \in Range(l[i].evidence.fed)
      BY <2>1 DEF Fed
    <3>2. ~ (Len(l[i].evidence.fed) > ReservoirCap) => f \in Range(l[i].evidence.frames)
      BY <3>1, ReservoirShows
    <3> QED
      BY <3>1, <3>2 DEF IsBurst, WithPostRoll, Shows, Thinned
  <2> QED
    BY <1>3, <2>1 DEF Took, Shows
<1>4. CASE ~ Took(l[i], f, S)
  <2>1. PICK j \in DOMAIN l : j <= i /\ l[j].close + post > at
    BY <1>1, <1>4 DEF ListFit
  <2>2. ~ (f <= l[j].close) /\ ~ (f <= l[i].close)
    BY <1>1, <1>2, <1>4, <2>1 DEF ListFit
  <2>3. l[j].close \in Nat /\ l[i].close \in Nat
    BY <1>1, <2>1
  <2>4. f >= at - Horizon
    BY <1>2, <2>1, <2>2, <2>3
  <2>5. l[i].close < f /\ f <= l[i].close + post
    BY <1>2, <2>2, <2>3
  <2>6. f \in Held(S, at, Horizon) \/ Crowded(S, f, Horizon)
    BY <1>2, <2>4, FiniteFrames, HeldUnlessCrowded
  <2> QED
    BY <2>5, <2>6 DEF IsBurst, WithPostRoll, Shows
<1> QED
  BY <1>3, <1>4

(* A burst that is out stays complete.                                     *)
LEMMA DoneGoesOn ==
  ASSUME NEW x, x.close \in Nat, NEW post \in Nat, NEW at \in Nat,
         NEW S \in SUBSET Nat, \A f \in S : f <= at, NEW D \in SUBSET Nat,
         NEW over \in BOOLEAN, DoneFit(x, post, at, S, D, over), NEW ts \in Nat, at < ts,
         NEW E \in SUBSET Nat, D \subseteq E, over => ts \in E
  PROVE  DoneFit(x, post, ts, S \cup {ts}, E, FALSE)
<1>1. x.close <= at /\ x.close <= ts /\ x.close < ts /\ ts <= ts
  BY DEF DoneFit
<1>2. x.close + post <= ts \/ \E d \in E : x.close < d /\ d <= ts
  <2>1. CASE over
    BY <1>1, <2>1
  <2>2. CASE x.close + post <= at
    BY <2>2
  <2>3. CASE \E d \in D : x.close < d /\ d <= at
    BY <2>3
  <2> QED
    BY <2>1, <2>2, <2>3 DEF DoneFit
<1>3. ASSUME NEW f \in S \cup {ts}, x.close <= f, f < x.close + post, ~ \E d \in E : x.close < d /\ d <= f
      PROVE  Shows(x, f, S \cup {ts})
  <2>1. f # ts
    BY <1>2, <1>3
  <2>2. Shows(x, f, S)
    BY <1>3, <2>1 DEF DoneFit
  <2> QED
    BY <2>2, TookStays
<1> QED
  BY <1>1, <1>2, <1>3 DEF DoneFit

(* A burst that leaves the list because it is due, or because the segments *)
(* are settled.                                                            *)
LEMMA DueIsDone ==
  ASSUME NEW T, NEW l \in Seq(T), \A x \in T : x.close \in Nat /\ x.evidence \in Reservoir,
         NEW post \in Nat, post <= Horizon,
         NEW at \in Nat, NEW S \in SUBSET Nat, \A f \in S : f <= at, ListFit(l, post, at, S),
         NEW ts \in Nat, at < ts, NEW E \in SUBSET Nat, NEW i \in 1 .. DueCount(l, ts),
         NEW x, IsBurst(x, l[i], post, Held(S, at, Horizon))
  PROVE  DoneFit(x, post, ts, S \cup {ts}, E, FALSE)
<1>1. DueCount(l, ts) \in 0 .. Len(l) /\ Len(l) \in Nat
  BY DueCountInRange
<1>2. l[i].deadline <= ts
  BY DueCountIsDue
<1>3. i \in 1 .. Len(l) /\ i \in DOMAIN l /\ l[i].close \in Nat
  BY <1>1
<1>4. l[i].close + post <= ts /\ l[i].close <= at /\ l[i].close <= ts
  BY <1>2, <1>3 DEF ListFit
<1>5. ASSUME NEW f \in S \cup {ts}, l[i].close <= f, f < l[i].close + post
      PROVE  Shows(x, f, S \cup {ts})
  <2>1. f \in S
    BY <1>3, <1>4, <1>5
  <2>2. Shows(x, f, S)
    BY <1>3, <1>5, <2>1, OwedFrames
  <2> QED
    BY <2>2, TookStays
<1> QED
  BY <1>4, <1>5 DEF DoneFit, IsBurst

LEMMA SettledIsDone ==
  ASSUME NEW T, NEW l \in Seq(T), \A x \in T : x.close \in Nat /\ x.evidence \in Reservoir,
         NEW post \in Nat, post <= Horizon,
         NEW at \in Nat, NEW S \in SUBSET Nat, \A f \in S : f <= at, ListFit(l, post, at, S),
         NEW D \in SUBSET Nat,
         NEW i \in 1 .. Len(l), NEW x, IsBurst(x, l[i], post, Held(S, at, Horizon))
  PROVE  DoneFit(x, post, at, S, D, TRUE)
<1>1. i \in DOMAIN l /\ l[i].close <= at
  BY DEF ListFit
<1>2. ASSUME NEW f \in S, l[i].close <= f, f < l[i].close + post
      PROVE  Shows(x, f, S)
  BY <1>2, OwedFrames
<1> QED
  BY <1>1, <1>2 DEF DoneFit, IsBurst

-----------------------------------------------------------------------------
(* A desk between two events of a step, B the bursts of earlier steps.     *)
Timely(d, B, h, at, S, D, over) ==
  /\ \A s \in d.tracker.open : OpenFit(s, at, S, h)
  /\ ListFit(d.tracker.pending, PostRoll, at, S)
  /\ ListFit(d.records, RecordPost, at, S)
  /\ \A x \in d.tracker.misses : DoneFit(x, PostRoll, at, S, D, over)
  /\ \A x \in B \cup Range(d.out) : DoneFit(x, RecordPost, at, S, D, over)

LEMMA DeskTypes ==
  ASSUME NEW d, NEW U, NEW n, NEW h, Sound(d, U, n, h)
  PROVE  /\ IsTracker(d.tracker) /\ d.tracker.pending \in Seq(Waiting) /\ d.records \in Seq(Record)
         /\ d.tracker.open \subseteq Segment /\ d.tracker.misses \subseteq Lost
         /\ Range(d.out) \subseteq BurstOf
<1>1. IsTracker(d.tracker) /\ d.records \in Seq(Record) /\ d.out \in Seq(BurstOf)
  BY DEF Sound, Accounted, IsDesk
<1> DEFINE o == d.out
<1>2. o \in Seq(BurstOf)
  BY <1>1
<1> HIDE DEF o
<1>3. Range(o) \subseteq BurstOf
  BY <1>2 DEF Range
<1> QED
  BY <1>1, <1>3, TrackerFields DEF o

LEMMA Closings ==
  /\ \A x \in Waiting : x.close \in Nat /\ x.evidence \in Reservoir
  /\ \A x \in Record : x.close \in Nat /\ x.evidence \in Reservoir
  /\ \A x \in Lost : x.close \in Nat
  /\ \A x \in BurstOf : x.close \in Nat
  /\ PostRoll \in Nat /\ RecordPost \in Nat /\ PostRoll <= Horizon /\ RecordPost <= Horizon
BY TrackerAssumption, MultiAssumption, HorizonNatural DEF Waiting, Record, Lost, BurstOf

LEMMA CloseOneTimely ==
  ASSUME NEW d, NEW U, NEW n \in Nat, NEW h, Sound(d, U, n, h), NEW id, NEW close \in Nat,
         NEW B, NEW at \in Nat, NEW S \in SUBSET Nat, NEW D, NEW over,
         Timely(d, B, h, at, S, D, over), close <= at,
         \A s \in d.tracker.open : s.id = id => s.open <= close
  PROVE  Timely(CloseOne(d, id, close), B, h, at, S, D, over)
<1> DEFINE e == CloseOne(d, id, close)
           t == d.tracker
           f == e.tracker
<1>1. ClosedOn(d, e, id, close)
  BY CloseOneEffect
<1> HIDE DEF e
<1>2. CASE id \notin OpenIds(t)
  BY <1>1, <1>2 DEF ClosedOn, e
<1>3. CASE id \in OpenIds(t)
  <2>1. /\ IsTracker(t) /\ t.pending \in Seq(Waiting) /\ d.records \in Seq(Record)
        /\ t.open \subseteq Segment
    BY DeskTypes
  <2>2. f = OnSegmentClose(t, id, close) /\ e.out = d.out
    BY <1>1 DEF ClosedOn
  <2>3. CloseEffect(t, f, id, close)
    BY <1>3, <2>1, <2>2, OnSegmentCloseEffect
  <2>4. ASSUME NEW s \in t.open, s.id = id
        PROVE  \A x \in S : x >= close => Took(s, x, S)
    <3>1. OpenFit(s, at, S, h) /\ s.open <= close /\ s.open \in Nat
      BY <2>1, <2>4 DEF Timely, Segment
    <3> TAKE x \in S
    <3>2. x >= close => x >= s.open
      BY <3>1
    <3> QED
      BY <3>1, <3>2 DEF OpenFit
  <2>5. f.open \subseteq t.open /\ f.misses = t.misses
    BY <2>3 DEF CloseEffect
  <2>6. ListFit(f.pending, PostRoll, at, S)
    <3>1. ListFit(t.pending, PostRoll, at, S)
      BY DEF Timely
    <3>2. PICK s \in t.open : s.id = id /\ (f.pending = t.pending \/ f.pending = Append(t.pending, PendingMiss(s, close)))
      BY <2>3 DEF CloseEffect
    <3>3. PendingMiss(s, close) \in Waiting
      BY <2>1, PendingMissType
    <3>4. /\ PendingMiss(s, close).deadline = close + PostRoll
          /\ PendingMiss(s, close).close = close /\ PendingMiss(s, close).evidence = s.evidence
      BY DEF PendingMiss
    <3> DEFINE x == PendingMiss(s, close)
               l == t.pending
    <3>5. \A y \in S : y >= close => Took(x, y, S)
      <4>1. \A y : Took(s, y, S) <=> Took(x, y, S)
        BY <3>4 DEF Took, Fed
      <4> HIDE DEF x
      <4> QED
        BY <2>4, <3>2, <4>1
    <3> HIDE DEF x, l
    <3>6. ListFit(Append(l, x), PostRoll, at, S)
      BY <2>1, <3>1, <3>3, <3>4, <3>5, AppendFit, Closings DEF x, l
    <3> QED
      BY <3>1, <3>2, <3>6 DEF x, l
  <2>7. ListFit(e.records, RecordPost, at, S)
    <3>1. ListFit(d.records, RecordPost, at, S)
      BY DEF Timely
    <3>2. PICK s \in t.open : s.id = id /\ e.records = Append(d.records, RecordOf(s, close))
      BY <1>1, <1>3 DEF ClosedOn
    <3>3. /\ RecordOf(s, close) \in Record /\ RecordOf(s, close).close = close
          /\ RecordOf(s, close).deadline = close + RecordPost /\ RecordOf(s, close).evidence = s.evidence
      BY <2>1, RecordOfType
    <3> DEFINE x == RecordOf(s, close)
               l == d.records
    <3>5. \A y \in S : y >= close => Took(x, y, S)
      <4>1. \A y : Took(s, y, S) <=> Took(x, y, S)
        BY <3>3 DEF Took, Fed
      <4> HIDE DEF x
      <4> QED
        BY <2>4, <3>2, <4>1
    <3> HIDE DEF x, l
    <3>6. ListFit(Append(l, x), RecordPost, at, S)
      BY <2>1, <3>1, <3>3, <3>5, AppendFit, Closings DEF x, l
    <3> QED
      BY <3>2, <3>6 DEF x, l
  <2> QED
    BY <2>2, <2>5, <2>6, <2>7 DEF Timely, e
<1> QED
  BY <1>2, <1>3

LEMMA MissShown ==
  ASSUME NEW m, NEW b
  PROVE  IsBurst(Miss(m, b), m, PostRoll, b)
BY DEF Miss, IsBurst

LEMMA BurstShown ==
  ASSUME NEW r, NEW b
  PROVE  IsBurst(Burst(r, b), r, RecordPost, b)
BY DEF Burst, IsBurst

LEMMA ClockedTimely ==
  ASSUME NEW d, NEW U, NEW n \in Nat, NEW h, Sound(d, U, n, h),
         NEW B \in SUBSET BurstOf, NEW at \in Nat, NEW S \in SUBSET Nat, \A f \in S : f <= at,
         NEW D \in SUBSET Nat,
         NEW over \in BOOLEAN, Timely(d, B, h, at, S, D, over),
         NEW ts \in Nat, at < ts, NEW E \in SUBSET Nat, D \subseteq E, over => ts \in E
  PROVE  Timely(Clocked(d, ts, Held(S, at, Horizon)), B, h, ts, S \cup {ts}, E, FALSE)
<1> DEFINE b == Held(S, at, Horizon)
           e == Clocked(d, ts, b)
           t == d.tracker
           f == OnFrame(t, ts, b)
           P == t.pending
           l == d.records
<1>1. b \in SUBSET Nat
  BY DEF Held
<1>2. /\ IsTracker(t) /\ P \in Seq(Waiting) /\ l \in Seq(Record)
      /\ t.open \subseteq Segment /\ t.misses \subseteq Lost /\ Range(d.out) \subseteq BurstOf
  BY DeskTypes
<1> HIDE DEF b
<1>3. /\ e.tracker = f
      /\ e.records = SubSeq(l, DueCount(l, ts) + 1, Len(l))
      /\ Range(e.out) = Range(d.out) \cup { Burst(l[i], b) : i \in 1 .. DueCount(l, ts) }
      /\ \A s \in f.open : \E o \in t.open :
           s.id = o.id /\ s.open = o.open /\ Fed(s) = Fed(o) \cup {ts}
  <2>1. ClockedTo(d, e, ts, b)
    BY <1>1, ClockedSound
  <2> HIDE DEF e
  <2> QED
    BY <2>1 DEF ClockedTo
<1>4. DueCount(P, ts) \in 0 .. Len(P) /\ Len(P) \in Nat
  BY <1>2, DueCountInRange
<1>5. /\ f.pending = SubSeq(P, DueCount(P, ts) + 1, Len(P))
      /\ f.misses = t.misses \cup { Miss(P[i], b) : i \in 1 .. DueCount(P, ts) }
  <2> DEFINE k == DueCount(P, ts)
             v == FinalizeFirst(t, k, b)
  <2>1. f.pending = v.pending /\ f.misses = v.misses
    BY <1>1, <1>2, OnFrameFields
  <2> HIDE DEF k, f
  <2>2. k \in 0 .. Len(t.pending)
    BY <1>4 DEF k
  <2>3. /\ v.misses = t.misses \cup { Miss(t.pending[i], b) : i \in 1 .. k }
        /\ v.pending = SubSeq(t.pending, k + 1, Len(t.pending))
    <3> HIDE DEF P, l, t, v
    <3>1. /\ FinalizeFirst(t, k, b).misses = t.misses \cup { Miss(t.pending[i], b) : i \in 1 .. k }
          /\ FinalizeFirst(t, k, b).pending = SubSeq(t.pending, k + 1, Len(t.pending))
      BY <1>1, <1>2, <2>2, FinalizeFirstType
    <3> QED
      BY <3>1 DEF v
  <2> QED
    BY <2>1, <2>3 DEF k
<1> HIDE DEF e, f
<1>6. \A s \in f.open : OpenFit(s, ts, S \cup {ts}, h)
  <2> TAKE s \in f.open
  <2>1. PICK o \in t.open : s.id = o.id /\ s.open = o.open /\ Fed(s) = Fed(o) \cup {ts}
    BY <1>3
  <2>2. OpenFit(o, at, S, h) /\ o.open \in Nat
    BY <1>2 DEF Timely, Segment
  <2>3. s.open <= ts /\ (s.id \in DOMAIN h => s.open <= h[s.id])
    BY <2>1, <2>2 DEF OpenFit
  <2>4. ASSUME NEW g \in S \cup {ts}, g >= s.open
        PROVE  Took(s, g, S \cup {ts})
    <3>1. CASE g = ts
      BY <2>1, <3>1 DEF Took
    <3>2. CASE g # ts
      <4>1. Took(o, g, S)
        BY <2>1, <2>2, <2>4, <3>2 DEF OpenFit
      <4>2. Took(o, g, S \cup {ts})
        BY <4>1, TookStays
      <4> QED
        BY <2>1, <4>2 DEF Took
    <3> QED
      BY <3>1, <3>2
  <2> QED
    BY <2>3, <2>4 DEF OpenFit
<1>7. ListFit(P, PostRoll, at, S) /\ ListFit(l, RecordPost, at, S)
  BY DEF Timely
<1>8. ListFit(f.pending, PostRoll, ts, S \cup {ts})
  <2> HIDE DEF P
  <2> QED
    BY <1>2, <1>5, <1>7, RemainFit, Closings
<1>9. ListFit(e.records, RecordPost, ts, S \cup {ts})
  <2>1. ListFit(SubSeq(l, DueCount(l, ts) + 1, Len(l)), RecordPost, ts, S \cup {ts})
    <3> HIDE DEF l
    <3> QED
      BY <1>2, <1>7, RemainFit, Closings
  <2> QED
    BY <1>3, <2>1
<1>10. \A x \in f.misses : DoneFit(x, PostRoll, ts, S \cup {ts}, E, FALSE)
  <2>1. ASSUME NEW x \in t.misses
        PROVE  DoneFit(x, PostRoll, ts, S \cup {ts}, E, FALSE)
    <3>1. x.close \in Nat /\ DoneFit(x, PostRoll, at, S, D, over) /\ PostRoll \in Nat
      BY <1>2, Closings DEF Timely
    <3> QED
      BY <3>1, DoneGoesOn
  <2>2. ASSUME NEW i \in 1 .. DueCount(P, ts)
        PROVE  DoneFit(Miss(P[i], b), PostRoll, ts, S \cup {ts}, E, FALSE)
    <3> DEFINE x == Miss(P[i], b)
    <3>1. IsBurst(x, P[i], PostRoll, Held(S, at, Horizon))
      BY MissShown DEF b
    <3> HIDE DEF x, P
    <3>2. DoneFit(x, PostRoll, ts, S \cup {ts}, E, FALSE)
      BY <1>2, <1>7, <3>1, DueIsDone, Closings
    <3> QED
      BY <3>2 DEF x
  <2> QED
    BY <1>5, <2>1, <2>2
<1>11. \A x \in B \cup Range(e.out) : DoneFit(x, RecordPost, ts, S \cup {ts}, E, FALSE)
  <2>1. ASSUME NEW x \in B \cup Range(d.out)
        PROVE  DoneFit(x, RecordPost, ts, S \cup {ts}, E, FALSE)
    <3>1. x.close \in Nat /\ DoneFit(x, RecordPost, at, S, D, over) /\ RecordPost \in Nat
      BY <1>2, Closings DEF Timely
    <3> QED
      BY <3>1, DoneGoesOn
  <2>2. ASSUME NEW i \in 1 .. DueCount(l, ts)
        PROVE  DoneFit(Burst(l[i], b), RecordPost, ts, S \cup {ts}, E, FALSE)
    <3> DEFINE x == Burst(l[i], b)
    <3>1. IsBurst(x, l[i], RecordPost, Held(S, at, Horizon))
      BY BurstShown DEF b
    <3> HIDE DEF x, l
    <3>2. DoneFit(x, RecordPost, ts, S \cup {ts}, E, FALSE)
      BY <1>2, <1>7, <3>1, DueIsDone, Closings
    <3> QED
      BY <3>2 DEF x
  <2> QED
    BY <1>3, <2>1, <2>2
<1> QED
  BY <1>3, <1>6, <1>8, <1>9, <1>10, <1>11 DEF Timely, e, b

LEMMA SettledTimely ==
  ASSUME NEW d, NEW U, NEW n \in Nat, NEW h, Sound(d, U, n, h),
         NEW B \in SUBSET BurstOf, NEW at \in Nat, NEW S \in SUBSET Nat, \A f \in S : f <= at,
         NEW D \in SUBSET Nat,
         NEW over \in BOOLEAN, Timely(d, B, h, at, S, D, over)
  PROVE  Timely(Settled(d, Held(S, at, Horizon)), B, h, at, S, D, TRUE)
<1> DEFINE b == Held(S, at, Horizon)
           e == Settled(d, b)
           t == d.tracker
           f == e.tracker
           P == t.pending
           l == d.records
<1>1. b \in SUBSET Nat
  BY DEF Held
<1>2. /\ IsTracker(t) /\ P \in Seq(Waiting) /\ l \in Seq(Record)
      /\ t.open \subseteq Segment /\ t.misses \subseteq Lost /\ Range(d.out) \subseteq BurstOf
  BY DeskTypes
<1> HIDE DEF b
<1>3. /\ f.open = t.open /\ f.pending = <<>> /\ e.records = <<>>
      /\ f.misses = t.misses \cup { Miss(P[i], b) : i \in 1 .. Len(P) }
      /\ Range(e.out) = Range(d.out) \cup { Burst(l[i], b) : i \in 1 .. Len(l) }
  <2>1. SettledTo(d, e, b)
    BY <1>1, SettledSound
  <2> HIDE DEF e
  <2> QED
    BY <2>1 DEF SettledTo
<1> HIDE DEF e
<1>7. ListFit(P, PostRoll, at, S) /\ ListFit(l, RecordPost, at, S)
  BY DEF Timely
<1>8. ListFit(<<>>, PostRoll, at, S) /\ ListFit(<<>>, RecordPost, at, S)
  BY DEF ListFit
<1>9. \A x, post : DoneFit(x, post, at, S, D, over) => DoneFit(x, post, at, S, D, TRUE)
  BY DEF DoneFit
<1>10. \A x \in f.misses : DoneFit(x, PostRoll, at, S, D, TRUE)
  <2>2. ASSUME NEW i \in 1 .. Len(P)
        PROVE  DoneFit(Miss(P[i], b), PostRoll, at, S, D, TRUE)
    <3> DEFINE x == Miss(P[i], b)
    <3>1. IsBurst(x, P[i], PostRoll, Held(S, at, Horizon))
      BY MissShown DEF b
    <3> HIDE DEF x, P
    <3>2. DoneFit(x, PostRoll, at, S, D, TRUE)
      BY <1>2, <1>7, <3>1, SettledIsDone, Closings
    <3> QED
      BY <3>2 DEF x
  <2> QED
    BY <1>3, <1>9, <2>2 DEF Timely
<1>11. \A x \in B \cup Range(e.out) : DoneFit(x, RecordPost, at, S, D, TRUE)
  <2>2. ASSUME NEW i \in 1 .. Len(l)
        PROVE  DoneFit(Burst(l[i], b), RecordPost, at, S, D, TRUE)
    <3> DEFINE x == Burst(l[i], b)
    <3>1. IsBurst(x, l[i], RecordPost, Held(S, at, Horizon))
      BY BurstShown DEF b
    <3> HIDE DEF x, l
    <3>2. DoneFit(x, RecordPost, at, S, D, TRUE)
      BY <1>2, <1>7, <3>1, SettledIsDone, Closings
    <3> QED
      BY <3>2 DEF x
  <2> QED
    BY <1>3, <1>9, <2>2 DEF Timely
<1> QED
  BY <1>3, <1>8, <1>10, <1>11 DEF Timely, e, b

-----------------------------------------------------------------------------
(* CLOSE events, one after another.                                        *)
IdsUpTo(l, m) == { l[k].id : k \in 1 .. m }

ClosesAfter(open, closes, at) ==
  \A k \in DOMAIN closes :
    closes[k].ts <= at /\ \A s \in open : s.id = closes[k].id => s.open <= closes[k].ts

CloseRound(c, e, x) == CloseOne(e, x.id, x.ts)

CloseInv(c, m, e) ==
  /\ Sound(e, c.U, c.n, c.h)
  /\ OpenIds(e.tracker) = OpenIds(c.d.tracker) \ IdsUpTo(c.closes, m)
  /\ e.tracker.open \subseteq c.d.tracker.open
  /\ DebounceFits => Timely(e, c.B, c.h, c.at, c.S, c.D, c.over)

CloseLoop == INSTANCE Iteration WITH Op <- CloseRound, Inv <- CloseInv

LEMMA CloseAllIsFold ==
  ASSUME NEW c, NEW d, NEW closes
  PROVE  CloseAll(d, closes) = CloseLoop!Fold(c, d, closes)
BY DEF CloseAll, CloseLoop!Fold, CloseLoop!Last, FoldLeft, MapThenFoldSet, Max, CloseRound

ClosedAll(d, e, closes) ==
  /\ OpenIds(e.tracker) = OpenIds(d.tracker) \ IdsOf(closes)
  /\ e.tracker.open \subseteq d.tracker.open

LEMMA CloseAllSound ==
  ASSUME NEW d, NEW U, NEW n \in Nat, NEW h, Sound(d, U, n, h), NEW closes \in Seq(Event),
         NEW B, NEW at \in Nat, NEW S \in SUBSET Nat, NEW D, NEW over,
         DebounceFits => Timely(d, B, h, at, S, D, over) /\ ClosesAfter(d.tracker.open, closes, at)
  PROVE  /\ Sound(CloseAll(d, closes), U, n, h) /\ ClosedAll(d, CloseAll(d, closes), closes)
         /\ DebounceFits => Timely(CloseAll(d, closes), B, h, at, S, D, over)
<1> DEFINE c == [ d |-> d, U |-> U, n |-> n, h |-> h, closes |-> closes,
                  B |-> B, at |-> at, S |-> S, D |-> D, over |-> over ]
           L == Len(closes)
<1>1. L \in Nat /\ DOMAIN closes = 1 .. L /\ \A k \in 1 .. L : closes[k] \in Event
  OBVIOUS
<1>2. /\ c.d = d /\ c.U = U /\ c.n = n /\ c.h = h /\ c.closes = closes
      /\ c.B = B /\ c.at = at /\ c.S = S /\ c.D = D /\ c.over = over
  OBVIOUS
<1> HIDE DEF c, L
<1>3. CloseInv(c, 0, d)
  <2>1. IdsUpTo(closes, 0) = {}
    BY DEF IdsUpTo
  <2> QED
    BY <1>2, <2>1 DEF CloseInv
<1>4. ASSUME NEW i \in 1 .. L, NEW e, CloseInv(c, i - 1, e)
      PROVE  CloseInv(c, i, CloseRound(c, e, closes[i]))
  <2> DEFINE x == closes[i]
             f == CloseOne(e, x.id, x.ts)
  <2>1. 1 .. i = (1 .. (i - 1)) \cup {i}
    BY <1>1
  <2>2. x \in Event /\ x.ts \in Nat
    BY <1>1 DEF Event
  <2>3. /\ Sound(e, U, n, h) /\ OpenIds(e.tracker) = OpenIds(d.tracker) \ IdsUpTo(closes, i - 1)
        /\ e.tracker.open \subseteq d.tracker.open
        /\ DebounceFits => Timely(e, B, h, at, S, D, over)
    BY <1>2, <1>4 DEF CloseInv
  <2>4. IdsUpTo(closes, i) = IdsUpTo(closes, i - 1) \cup {x.id}
    BY <2>1 DEF IdsUpTo
  <2>5. /\ Sound(f, U, n, h) /\ OpenIds(f.tracker) = OpenIds(e.tracker) \ {x.id}
        /\ f.tracker.open \subseteq e.tracker.open
    <3> DEFINE id == x.id
               ts == x.ts
    <3>1. ts \in Nat
      BY <2>2
    <3> HIDE DEF id, ts, x
    <3> QED
      BY <2>3, <3>1, CloseOneSound DEF id, ts
  <2>6. DebounceFits => Timely(f, B, h, at, S, D, over)
    <3> SUFFICES ASSUME DebounceFits
                 PROVE  Timely(f, B, h, at, S, D, over)
      OBVIOUS
    <3> DEFINE id == x.id
               ts == x.ts
    <3>1. ts \in Nat /\ ts <= at /\ \A s \in e.tracker.open : s.id = id => s.open <= ts
      <4>1. ClosesAfter(d.tracker.open, closes, at) /\ i \in DOMAIN closes
        BY <1>1
      <4> QED
        BY <2>2, <2>3, <4>1 DEF ClosesAfter
    <3> HIDE DEF id, ts, x
    <3> QED
      BY <2>3, <3>1, CloseOneTimely DEF id, ts
  <2> HIDE DEF f, x
  <2>7. OpenIds(f.tracker) = OpenIds(d.tracker) \ IdsUpTo(closes, i)
    BY <2>3, <2>4, <2>5
  <2>8. CloseInv(c, i, f)
    BY <1>2, <2>3, <2>5, <2>6, <2>7 DEF CloseInv
  <2>9. f = CloseRound(c, e, closes[i])
    BY DEF f, x, CloseRound
  <2> QED
    BY <2>8, <2>9
<1>5. CloseInv(c, L, CloseLoop!Fold(c, d, closes))
  BY <1>1, <1>3, <1>4, CloseLoop!FoldInvariant
<1>6. CloseInv(c, L, CloseAll(d, closes))
  BY <1>5, CloseAllIsFold
<1>7. IdsUpTo(closes, L) = IdsOf(closes)
  BY <1>1 DEF IdsUpTo, IdsOf
<1> QED
  BY <1>2, <1>6, <1>7 DEF CloseInv, ClosedAll

LEMMA OpenedTimely ==
  ASSUME NEW d, NEW e, NEW h, NEW B, NEW ts \in Nat, NEW S \in SUBSET Nat, \A f \in S : f <= ts,
         NEW D, NEW over, Timely(d, B, h, ts, S, D, over), NEW opens \in Seq(Event),
         OpenedOn(d, e, NewSegments(opens, Held(S, ts, Horizon), Len(opens))),
         \A m \in DOMAIN opens :
           opens[m].id \notin DOMAIN h /\ opens[m].ts <= ts /\ ts - opens[m].ts <= Horizon
  PROVE  Timely(e, B, h, ts, S, D, over)
<1> DEFINE b == Held(S, ts, Horizon)
<1>1. \A m \in 1 .. Len(opens) : opens[m] \in Event /\ m \in DOMAIN opens
  OBVIOUS
<1>2. b \in SUBSET Nat /\ IsFiniteSet(b) /\ Horizon \in Nat /\ PreRoll \in Nat
  BY HorizonNatural, TrackerAssumption, HeldInside, FiniteFrames, FiniteNewer
<1>3. ASSUME NEW m \in 1 .. Len(opens)
      PROVE  OpenFit(SegmentFor(opens[m], b), ts, S, h)
  <2> DEFINE o == opens[m]
             s == SegmentFor(o, b)
  <2>1. /\ o \in Event /\ o.id \notin DOMAIN h /\ o.ts <= ts /\ ts - o.ts <= Horizon /\ o.ts \in Nat
    BY <1>1 DEF Event
  <2> HIDE DEF o, b
  <2>2. s.id = o.id /\ s.open = o.ts /\ \A f \in b : f >= o.ts - PreRoll => f \in Fed(s)
    BY <1>2, <2>1, SegmentForType
  <2> HIDE DEF s
  <2>3. ASSUME NEW f \in S, f >= o.ts
        PROVE  Took(s, f, S)
    <3>1. f >= ts - Horizon /\ f >= o.ts - PreRoll
      <4> DEFINE v == o.ts
      <4>1. f \in Nat /\ v \in Nat /\ ts - v <= Horizon /\ f >= v
        BY <2>1, <2>3
      <4> HIDE DEF v
      <4>2. f >= ts - Horizon /\ f >= v - PreRoll
        BY <1>2, <4>1
      <4> QED
        BY <4>2 DEF v
    <3>2. f \in b \/ Crowded(S, f, Horizon)
      BY <1>2, <3>1, FiniteFrames, HeldUnlessCrowded DEF b
    <3> QED
      BY <2>2, <3>1, <3>2 DEF Took
  <2> QED
    BY <2>1, <2>2, <2>3 DEF OpenFit, s, o, b
<1>4. \A s \in e.tracker.open : OpenFit(s, ts, S, h)
  BY <1>3 DEF OpenedOn, NewSegments, Timely
<1> QED
  BY <1>4 DEF OpenedOn, SameButOpen, Timely

LEMMA DecodedTimely ==
  ASSUME NEW d, NEW e, NEW h, NEW B, NEW ts \in Nat, NEW S \in SUBSET Nat, NEW D, NEW over,
         Timely(d, B, h, ts, S, D, over), SameButOpen(d, e), Alike(e.tracker.open, d.tracker.open),
         NEW ids, NEW g, DOMAIN g = DOMAIN h \cup ids,
         \A id \in DOMAIN g : g[id] = IF id \in ids THEN ts ELSE h[id]
  PROVE  Timely(e, B, g, ts, S, D, over)
<1>1. \A s \in e.tracker.open : OpenFit(s, ts, S, g)
  <2> TAKE s \in e.tracker.open
  <2>1. PICK o \in d.tracker.open : s.id = o.id /\ s.open = o.open /\ s.evidence = o.evidence
    BY DEF Alike
  <2>2. OpenFit(o, ts, S, h)
    BY DEF Timely
  <2>3. \A f : Took(o, f, S) => Took(s, f, S)
    BY <2>1 DEF Took, Fed
  <2> QED
    BY <2>1, <2>2, <2>3 DEF OpenFit
<1> QED
  BY <1>1 DEF SameButOpen, Timely

-----------------------------------------------------------------------------
(* flush: the segments that are still open, in the order of their ids.     *)
ById(S) == Sorted(S, LAMBDA s, t : s.id < t.id)

Enumerates(o, S) ==
  /\ o \in Seq(Segment) /\ \A k \in DOMAIN o : o[k] \in S
  /\ \A x \in S : \E k \in DOMAIN o : o[k] = x

LEMMA SortedById ==
  ASSUME NEW S \in SUBSET Segment, NEW n \in Nat, \A s \in S : s.id \in 1 .. n,
         \A s, u \in S : s.id = u.id => s = u
  PROVE  Enumerates(ById(S), S)
<1> DEFINE R == { p \in S \X S : p[1].id < p[2].id }
           F == [ s \in S |-> s.id ]
<1>1. \A a, b \in S : <<a, b>> \in R <=> a.id < b.id
  OBVIOUS
<1>2. \A a \in S : a.id \in Int
  BY DEF Segment
<1>3. IsFiniteSet(S)
  <2>1. F \in [ S -> 1 .. n ] /\ \A s, u \in S : F[s] = F[u] => s = u
    OBVIOUS
  <2> HIDE DEF F
  <2>2. F \in Injection(S, 1 .. n)
    BY <2>1 DEF Injection, IsInjective
  <2>3. IsFiniteSet(1 .. n)
    BY FS_Interval
  <2> QED
    BY <2>2, <2>3, FS_Injection
<1> HIDE DEF R
<1>4. IsOrder(S, R)
  BY <1>1, <1>2 DEF IsOrder
<1>5. \A x \in S : Below(S, R, x) = { y \in S : y.id < x.id }
  BY <1>1 DEF Below
<1>6. ById(S) = [ k \in 1 .. Cardinality(S) |->
                    CHOOSE x \in S : Cardinality({ y \in S : y.id < x.id }) = k - 1 ]
  BY DEF ById, Sorted
<1>7. ById(S) = Ranked(S, R)
  BY <1>5, <1>6 DEF Ranked
<1> DEFINE o == Ranked(S, R)
<1>8. /\ Cardinality(S) \in Nat /\ DOMAIN o = 1 .. Cardinality(S) /\ \A k \in DOMAIN o : o[k] \in S
      /\ \A x \in S : \E k \in DOMAIN o : o[k] = x
  <2>1. Lists(o, S, R)
    BY <1>3, <1>4, RankedOrder
  <2> HIDE DEF o, R
  <2> QED
    BY <2>1 DEF Lists
<1>9. o = [ k \in 1 .. Cardinality(S) |-> o[k] ]
  BY DEF Ranked
<1> HIDE DEF o
<1>10. o \in Seq(Segment)
  BY <1>8, <1>9
<1> QED
  BY <1>7, <1>8, <1>10 DEF o, Enumerates

LastDecode(s) == IF s.id \in DOMAIN hits THEN hits[s.id] ELSE s.open

LastCloses(open) == [ i \in DOMAIN open |-> [id |-> open[i].id, ts |-> LastDecode(open[i])] ]

LEMMA FlushedIs ==
  ASSUME NEW d, NEW b
  PROVE  Flushed(d, b) = Settled(CloseAll(d, LastCloses(ById(d.tracker.open))), b)
BY DEF Flushed, LastCloses, LastDecode, ById

FlushedTo(e) == OpenIds(e.tracker) = {} /\ PendingIds(e.tracker) = {} /\ e.records = <<>>

LEMMA FlushedSound ==
  ASSUME NEW d, NEW U, NEW n \in Nat, Sound(d, U, n, hits),
         NEW B \in SUBSET BurstOf, NEW at \in Nat, NEW S \in SUBSET Nat, \A f \in S : f <= at, NEW D \in SUBSET Nat,
         NEW over \in BOOLEAN, \A id \in DOMAIN hits : hits[id] \in Nat /\ hits[id] <= at,
         DebounceFits => Timely(d, B, hits, at, S, D, over)
  PROVE  LET e == Flushed(d, Held(S, at, Horizon))
         IN  /\ Sound(e, U, n, hits) /\ FlushedTo(e)
             /\ DebounceFits => Timely(e, B, hits, at, S, D, TRUE)
<1> DEFINE b == Held(S, at, Horizon)
           t == d.tracker
           o == ById(t.open)
           closes == LastCloses(o)
           u == CloseAll(d, closes)
           e == Settled(u, b)
<1>1. /\ t.open \in SUBSET Segment /\ OneSegmentEach(t) /\ OpenIds(t) \subseteq 1 .. n
  BY DeskTypes DEF Sound, Accounted, AccountsFor
<1>2. Enumerates(o, t.open)
  BY <1>1, SortedById DEF OneSegmentEach, OpenIds
<1> HIDE DEF o
<1>3. Len(o) \in Nat /\ DOMAIN o = 1 .. Len(o) /\ \A k \in DOMAIN o : o[k] \in t.open /\ o[k] \in Segment
  <2>1. o \in Seq(Segment)
    BY <1>2 DEF Enumerates
  <2> QED
    BY <1>1, <1>2, <2>1 DEF Enumerates
<1>4. \A s \in t.open : LastDecode(s) \in Nat /\ s.id \in Nat
  BY <1>1 DEF LastDecode, Segment
<1>5. \A k \in DOMAIN o : [id |-> o[k].id, ts |-> LastDecode(o[k])] \in Event
  BY <1>3, <1>4 DEF Event
<1>6. /\ closes \in Seq(Event) /\ DOMAIN closes = DOMAIN o
      /\ \A k \in DOMAIN closes : closes[k].id = o[k].id /\ closes[k].ts = LastDecode(o[k])
  BY <1>3, <1>5 DEF LastCloses
<1> HIDE DEF closes
<1>7. ASSUME DebounceFits
      PROVE  ClosesAfter(t.open, closes, at)
  <2> SUFFICES ASSUME NEW k \in DOMAIN closes
               PROVE  closes[k].ts <= at /\ \A s \in t.open : s.id = closes[k].id => s.open <= closes[k].ts
    BY DEF ClosesAfter
  <2>1. o[k] \in t.open
    BY <1>3, <1>6
  <2>2. OpenFit(o[k], at, S, hits)
    BY <1>7, <2>1 DEF Timely
  <2>3. o[k].open \in Nat
    BY <1>1, <2>1 DEF Segment
  <2>4. o[k].open <= LastDecode(o[k]) /\ LastDecode(o[k]) <= at
    BY <2>2, <2>3 DEF OpenFit, LastDecode
  <2>5. \A s \in t.open : s.id = o[k].id => s = o[k]
    BY <1>1, <2>1 DEF OneSegmentEach
  <2> QED
    BY <1>6, <2>4, <2>5
<1>8. /\ Sound(u, U, n, hits) /\ ClosedAll(d, u, closes)
      /\ DebounceFits => Timely(u, B, hits, at, S, D, over)
  BY <1>6, <1>7, CloseAllSound
<1> HIDE DEF u
<1>9. OpenIds(u.tracker) = {}
  <2>1. \A id \in OpenIds(t) : id \in IdsOf(closes)
    <3> TAKE id \in OpenIds(t)
    <3>1. PICK s \in t.open : s.id = id
      BY DEF OpenIds
    <3>2. PICK k \in DOMAIN o : o[k] = s
      BY <1>2 DEF Enumerates
    <3> QED
      BY <1>6, <3>1, <3>2 DEF IdsOf
  <2> QED
    BY <1>8, <2>1 DEF ClosedAll
<1>10. b \in SUBSET Nat
  BY HeldInside
<1>11. Sound(e, U, n, hits) /\ SettledTo(u, e, b)
  BY <1>8, <1>10, SettledSound
<1>12. DebounceFits => Timely(e, B, hits, at, S, D, TRUE)
  BY <1>8, SettledTimely
<1>13. e = Flushed(d, b)
  BY FlushedIs DEF u, closes, o
<1> HIDE DEF e, b
<1>14. OpenIds(e.tracker) = {}
  BY <1>9, <1>11 DEF SettledTo, OpenIds
<1> QED
  BY <1>11, <1>12, <1>13, <1>14 DEF SettledTo, FlushedTo, b

-----------------------------------------------------------------------------
(* The recorder.  The end mark is the last thing in the queue, and it is   *)
(* put by a shutdown.                                                      *)
RecorderOk(r) ==
  /\ r \in RecorderType
  /\ \A i \in DOMAIN r.queue :
       /\ r.queue[i] # NoBurst
       /\ r.queue[i] = EndMark => i = Len(r.queue) /\ r.stop \notin {"running", "putting"}
  /\ r.ended => r.queue = <<>> /\ r.writing = NoBurst /\ r.stop \notin {"running", "putting"}
  /\ r.stop = "drained" => r.ended

LEMMA QueueFields ==
  ASSUME NEW r \in RecorderType
  PROVE  /\ r.queue \in Seq(Nat \cup {EndMark}) /\ Len(r.queue) \in Nat
         /\ DOMAIN r.queue = 1 .. Len(r.queue)
         /\ \A i \in 1 .. Len(r.queue) : r.queue[i] \in Nat \cup {EndMark}
<1>1. r.queue \in Seq(Nat \cup {EndMark})
  BY DEF RecorderType
<1> QED
  BY <1>1

LEMMA AppendElements ==
  ASSUME NEW T, NEW q \in Seq(T), NEW x \in T
  PROVE  LET a == Append(q, x)
         IN  /\ a \in Seq(T) /\ Len(a) = Len(q) + 1 /\ Range(a) = Range(q) \cup {x}
             /\ \A i \in DOMAIN q : a[i] = q[i] /\ i \in DOMAIN a
             /\ \A i \in DOMAIN a : (i \in DOMAIN q /\ a[i] = q[i]) \/ (i = Len(a) /\ a[i] = x)
<1> DEFINE a == Append(q, x)
           L == Len(q)
<1>1. L \in Nat /\ DOMAIN q = 1 .. L /\ DOMAIN a = 1 .. (L + 1) /\ a \in Seq(T) /\ Len(a) = L + 1
  OBVIOUS
<1>2. (\A i \in 1 .. L : a[i] = q[i]) /\ a[L + 1] = x
  OBVIOUS
<1> HIDE DEF a, L
<1>3. (\A i \in 1 .. (L + 1) : i \in 1 .. L \/ i = L + 1) /\ (\A i \in 1 .. L : i \in 1 .. (L + 1))
      /\ L + 1 \in 1 .. (L + 1)
  BY <1>1
<1>4. Range(a) = Range(q) \cup {x}
  BY <1>1, <1>2, <1>3 DEF Range
<1> QED
  BY <1>1, <1>2, <1>3, <1>4 DEF a, L

LEMMA TailElements ==
  ASSUME NEW T, NEW q \in Seq(T), q # <<>>
  PROVE  LET a == Tail(q)
         IN  /\ a \in Seq(T) /\ Len(a) = Len(q) - 1 /\ Range(q) = Range(a) \cup {Head(q)}
             /\ \A i \in DOMAIN a : i + 1 \in DOMAIN q /\ a[i] = q[i + 1]
             /\ 1 \in DOMAIN q /\ Head(q) = q[1]
<1> DEFINE a == Tail(q)
           L == Len(q)
<1>1. /\ L \in Nat /\ L > 0 /\ DOMAIN q = 1 .. L /\ DOMAIN a = 1 .. (L - 1) /\ a \in Seq(T)
      /\ Len(a) = L - 1 /\ Head(q) = q[1]
  OBVIOUS
<1>2. \A i \in 1 .. (L - 1) : a[i] = q[i + 1]
  OBVIOUS
<1> HIDE DEF a, L
<1>3. /\ \A i \in 1 .. L : i = 1 \/ (i - 1 \in 1 .. (L - 1) /\ (i - 1) + 1 = i)
      /\ \A i \in 1 .. (L - 1) : i + 1 \in 1 .. L
      /\ 1 \in 1 .. L
  BY <1>1
<1>4. Range(q) \subseteq Range(a) \cup {q[1]}
  <2> SUFFICES ASSUME NEW i \in 1 .. L
               PROVE  q[i] \in Range(a) \cup {q[1]}
    BY <1>1 DEF Range
  <2>1. CASE i - 1 \in 1 .. (L - 1) /\ (i - 1) + 1 = i
    <3>1. a[i - 1] = q[i]
      BY <1>2, <2>1
    <3> QED
      BY <1>1, <2>1, <3>1 DEF Range
  <2> QED
    BY <1>3, <2>1
<1>5. Range(a) \cup {q[1]} \subseteq Range(q)
  BY <1>1, <1>2, <1>3 DEF Range
<1> QED
  BY <1>1, <1>2, <1>3, <1>4, <1>5 DEF a, L

LEMMA SubmittedIs ==
  ASSUME NEW r
  PROVE  Submitted(r) = (Range(r.queue) \ {EndMark}) \cup ({r.writing} \ {NoBurst})
                          \cup r.dropped \cup r.written \cup r.failed
BY DEF Submitted, Queued, InWriter, Range

LEMMA SubmitOne ==
  ASSUME NEW r, RecorderOk(r), r.stop = "running", NEW id \in Nat \ {NoBurst}
  PROVE  LET s == Submit(r, id)
         IN  RecorderOk(s) /\ s.stop = "running" /\ Submitted(s) = Submitted(r) \cup {id}
<1> DEFINE s == Submit(r, id)
<1>1. /\ r \in RecorderType /\ ~ r.ended /\ id \in Nat /\ id # NoBurst /\ id # EndMark
      /\ r.queue \in Seq(Nat \cup {EndMark}) /\ r.dropped \in SUBSET Nat
  BY QueueFields DEF RecorderOk, NoBurst, EndMark, RecorderType
<1>2. CASE HasRoom(r)
  <2> DEFINE q == Append(r.queue, id)
  <2>1. s = [ r EXCEPT !.queue = q ]
    BY <1>2 DEF Submit
  <2>2. /\ q \in Seq(Nat \cup {EndMark}) /\ Range(q) = Range(r.queue) \cup {id}
        /\ \A i \in DOMAIN q : (i \in DOMAIN r.queue /\ q[i] = r.queue[i]) \/ (i = Len(q) /\ q[i] = id)
    BY <1>1, AppendElements
  <2> HIDE DEF q, s
  <2>3. /\ s \in RecorderType /\ s.queue = q /\ s.writing = r.writing /\ s.dropped = r.dropped
        /\ s.written = r.written /\ s.failed = r.failed /\ s.ended = r.ended /\ s.stop = r.stop
    BY <1>1, <2>1, <2>2 DEF RecorderType
  <2>4. RecorderOk(s)
    BY <1>1, <2>2, <2>3 DEF RecorderOk
  <2>5. Submitted(s) = Submitted(r) \cup {id}
    BY <1>1, <2>2, <2>3, SubmittedIs
  <2> QED
    BY <2>3, <2>4, <2>5 DEF s
<1>3. CASE ~ HasRoom(r)
  <2> DEFINE x == r.dropped \cup {id}
  <2>1. s = [ r EXCEPT !.dropped = x ] /\ x \in SUBSET Nat
    BY <1>1, <1>3 DEF Submit
  <2>2. x = r.dropped \cup {id}
    OBVIOUS
  <2> HIDE DEF x, s
  <2>3. /\ s \in RecorderType /\ s.queue = r.queue /\ s.writing = r.writing /\ s.dropped = x
        /\ s.written = r.written /\ s.failed = r.failed /\ s.ended = r.ended /\ s.stop = r.stop
    BY <1>1, <2>1 DEF RecorderType
  <2>4. RecorderOk(s)
    BY <1>1, <2>3 DEF RecorderOk
  <2>5. Submitted(s) = Submitted(r) \cup {id}
    BY <2>2, <2>3, SubmittedIs
  <2> QED
    BY <2>3, <2>4, <2>5 DEF s
<1> QED
  BY <1>2, <1>3

SubmitRound(c, r, x) == Submit(r, x.id)

SubmitInv(c, m, r) ==
  RecorderOk(r) /\ r.stop = "running" /\ Submitted(r) = Submitted(c.r) \cup IdsUpTo(c.out, m)

SubmitLoop == INSTANCE Iteration WITH Op <- SubmitRound, Inv <- SubmitInv

SubmitAll(r, out) == FoldLeft(LAMBDA e, x : Submit(e, x.id), r, out)

LEMMA SubmitAllIsFold ==
  ASSUME NEW c, NEW r, NEW out
  PROVE  SubmitAll(r, out) = SubmitLoop!Fold(c, r, out)
BY DEF SubmitAll, SubmitLoop!Fold, SubmitLoop!Last, FoldLeft, MapThenFoldSet, Max, SubmitRound

LEMMA SubmitAllSound ==
  ASSUME NEW r, RecorderOk(r), r.stop = "running", NEW out \in Seq(BurstOf), NoBurst \notin IdsOf(out)
  PROVE  LET s == SubmitAll(r, out)
         IN  RecorderOk(s) /\ s.stop = "running" /\ Submitted(s) = Submitted(r) \cup IdsOf(out)
<1> DEFINE c == [ r |-> r, out |-> out ]
           L == Len(out)
<1>1. L \in Nat /\ DOMAIN out = 1 .. L /\ \A k \in 1 .. L : out[k] \in BurstOf
  OBVIOUS
<1>2. c.r = r /\ c.out = out
  OBVIOUS
<1> HIDE DEF c, L
<1>3. \A k \in 1 .. L : out[k].id \in Nat \ {NoBurst}
  BY <1>1 DEF BurstOf, IdsOf
<1>4. SubmitInv(c, 0, r)
  <2>1. IdsUpTo(out, 0) = {}
    BY DEF IdsUpTo
  <2> QED
    BY <1>2, <2>1 DEF SubmitInv
<1>5. ASSUME NEW i \in 1 .. L, NEW e, SubmitInv(c, i - 1, e)
      PROVE  SubmitInv(c, i, SubmitRound(c, e, out[i]))
  <2> DEFINE id == out[i].id
             f == Submit(e, id)
  <2>1. 1 .. i = (1 .. (i - 1)) \cup {i}
    BY <1>1
  <2>2. id \in Nat \ {NoBurst}
    BY <1>3
  <2>3. RecorderOk(e) /\ e.stop = "running" /\ Submitted(e) = Submitted(r) \cup IdsUpTo(out, i - 1)
    BY <1>2, <1>5 DEF SubmitInv
  <2>4. IdsUpTo(out, i) = IdsUpTo(out, i - 1) \cup {id}
    BY <2>1 DEF IdsUpTo
  <2> HIDE DEF id
  <2>5. RecorderOk(f) /\ f.stop = "running" /\ Submitted(f) = Submitted(e) \cup {id}
    BY <2>2, <2>3, SubmitOne
  <2> HIDE DEF f
  <2>6. SubmitInv(c, i, f)
    BY <1>2, <2>3, <2>4, <2>5 DEF SubmitInv
  <2>7. f = SubmitRound(c, e, out[i])
    BY DEF f, id, SubmitRound
  <2> QED
    BY <2>6, <2>7
<1>6. SubmitInv(c, L, SubmitLoop!Fold(c, r, out))
  BY <1>1, <1>4, <1>5, SubmitLoop!FoldInvariant
<1>7. SubmitInv(c, L, SubmitAll(r, out))
  BY <1>6, SubmitAllIsFold
<1>8. IdsUpTo(out, L) = IdsOf(out)
  BY <1>1 DEF IdsUpTo, IdsOf
<1> QED
  BY <1>2, <1>7, <1>8 DEF SubmitInv

(* The writer and the shutdown lose no burst and count none twice.         *)
LEMMA RecorderSteps ==
  ASSUME RecorderOk(recorder), Writer \/ Stopper \/ StopBegins
  PROVE  /\ RecorderOk(recorder') /\ Submitted(recorder') = Submitted(recorder)
         /\ recorder'.stop # "running" => recorder.stop # "running" \/ StopBegins
<1> DEFINE r == recorder
           s == recorder'
<1>1. r \in RecorderType /\ r.queue \in Seq(Nat \cup {EndMark})
  BY QueueFields DEF RecorderOk
<1>2. CASE WriterTakes
  <2> DEFINE job == Head(r.queue)
             q == Tail(r.queue)
             w == IF job = EndMark THEN NoBurst ELSE job
  <2>1. /\ r.writing = NoBurst /\ ~ r.ended /\ r.queue # <<>>
        /\ s = [ r EXCEPT !.queue = q, !.ended = (job = EndMark), !.writing = w ]
    BY <1>2 DEF WriterTakes
  <2>2. /\ q \in Seq(Nat \cup {EndMark}) /\ Len(q) = Len(r.queue) - 1
        /\ Range(r.queue) = Range(q) \cup {job}
        /\ \A i \in DOMAIN q : i + 1 \in DOMAIN r.queue /\ q[i] = r.queue[i + 1]
        /\ 1 \in DOMAIN r.queue /\ job = r.queue[1]
    BY <1>1, <2>1, TailElements
  <2>3. Len(r.queue) \in Nat /\ Len(q) \in Nat /\ DOMAIN q = 1 .. Len(q) /\ DOMAIN r.queue = 1 .. Len(r.queue)
    BY <1>1, <2>2
  <2>4. job \in Nat \cup {EndMark} /\ job # NoBurst
    BY <1>1, <2>2 DEF RecorderOk
  <2>5. w \in Nat
    BY <2>4 DEF NoBurst
  <2> HIDE DEF job, q, w
  <2>6. /\ s \in RecorderType /\ s.queue = q /\ s.writing = w /\ s.dropped = r.dropped
        /\ s.written = r.written /\ s.failed = r.failed /\ s.ended = (job = EndMark) /\ s.stop = r.stop
    BY <1>1, <2>1, <2>2, <2>5 DEF RecorderType
  <2>7. job = EndMark => /\ Len(r.queue) = 1 /\ q = <<>> /\ Range(q) = {}
                         /\ r.stop \notin {"running", "putting"}
    <3> SUFFICES ASSUME job = EndMark
                 PROVE  /\ Len(r.queue) = 1 /\ q = <<>> /\ Range(q) = {}
                        /\ r.stop \notin {"running", "putting"}
      OBVIOUS
    <3>1. 1 = Len(r.queue) /\ r.stop \notin {"running", "putting"}
      BY <2>2 DEF RecorderOk
    <3>2. Len(q) = 0
      BY <2>2, <3>1
    <3>3. q = <<>>
      BY <2>2, <3>2
    <3> QED
      BY <3>1, <3>3 DEF Range
  <2>8. RecorderOk(s)
    <3>1. \A i \in DOMAIN q : i + 1 = Len(r.queue) => i = Len(q)
      BY <2>2, <2>3
    <3>2. \A i \in DOMAIN q :
            /\ q[i] # NoBurst
            /\ q[i] = EndMark => i = Len(q) /\ r.stop \notin {"running", "putting"}
      BY <2>2, <3>1 DEF RecorderOk
    <3>3. s.ended => s.queue = <<>> /\ s.writing = NoBurst /\ s.stop \notin {"running", "putting"}
      BY <2>6, <2>7 DEF w
    <3>4. s.stop = "drained" => s.ended
      BY <2>1, <2>6 DEF RecorderOk
    <3> QED
      BY <2>6, <3>2, <3>3, <3>4 DEF RecorderOk
  <2>9. Submitted(s) = Submitted(r)
    <3>1. Submitted(r) = (Range(r.queue) \ {EndMark}) \cup ({r.writing} \ {NoBurst})
                          \cup r.dropped \cup r.written \cup r.failed
      BY SubmittedIs
    <3>2. Submitted(s) = (Range(q) \ {EndMark}) \cup ({w} \ {NoBurst})
                          \cup r.dropped \cup r.written \cup r.failed
      BY <2>6, SubmittedIs
    <3> QED
      BY <2>1, <2>2, <2>4, <3>1, <3>2 DEF w
  <2> QED
    BY <2>6, <2>8, <2>9
<1>3. CASE WriterEnds
  <2>1. r.writing # NoBurst /\ r.writing \in Nat /\ ~ r.ended
    BY <1>1, <1>3 DEF WriterEnds, RecorderOk, RecorderType
  <2>2. /\ NoBurst \in Nat
        /\ r.written \cup {r.writing} \in SUBSET Nat /\ r.failed \cup {r.writing} \in SUBSET Nat
    BY <1>1, <2>1 DEF RecorderType, NoBurst
  <2>3. /\ s \in RecorderType /\ s.queue = r.queue /\ s.writing = NoBurst /\ s.dropped = r.dropped
        /\ s.ended = r.ended /\ s.stop = r.stop
        /\ \/ s.written = r.written \cup {r.writing} /\ s.failed = r.failed
           \/ s.written = r.written /\ s.failed = r.failed \cup {r.writing}
    BY <1>1, <1>3, <2>2 DEF WriterEnds, RecorderType
  <2>4. RecorderOk(s)
    BY <2>1, <2>3 DEF RecorderOk
  <2>5. Submitted(s) = Submitted(r)
    BY <2>1, <2>3, SubmittedIs
  <2> QED
    BY <2>3, <2>4, <2>5
<1>4. CASE WriterWedges
  <2>1. /\ s \in RecorderType /\ s.queue = r.queue /\ s.writing = r.writing /\ s.dropped = r.dropped
        /\ s.ended = r.ended /\ s.stop = r.stop /\ s.written = r.written /\ s.failed = r.failed
    BY <1>1, <1>4 DEF WriterWedges, RecorderType
  <2>2. RecorderOk(s)
    BY <2>1 DEF RecorderOk
  <2>3. Submitted(s) = Submitted(r)
    BY <2>1, SubmittedIs
  <2> QED
    BY <2>1, <2>2, <2>3
<1>5. CASE StopBegins
  <2>1. /\ s \in RecorderType /\ s.queue = r.queue /\ s.writing = r.writing /\ s.dropped = r.dropped
        /\ s.ended = r.ended /\ s.stop = "putting" /\ r.stop = "running"
        /\ s.written = r.written /\ s.failed = r.failed
    BY <1>1, <1>5 DEF StopBegins, RecorderType
  <2>2. RecorderOk(s)
    BY <2>1 DEF RecorderOk
  <2>3. Submitted(s) = Submitted(r)
    BY <2>1, SubmittedIs
  <2> QED
    BY <1>5, <2>1, <2>2, <2>3
<1>6. CASE StopPuts
  <2> DEFINE q == Append(r.queue, EndMark)
  <2>1. r.stop = "putting" /\ ~ r.ended /\ s = [ r EXCEPT !.queue = q, !.stop = "joining" ]
    BY <1>6 DEF StopPuts, RecorderOk
  <2>2. /\ q \in Seq(Nat \cup {EndMark}) /\ Range(q) = Range(r.queue) \cup {EndMark}
        /\ \A i \in DOMAIN q : (i \in DOMAIN r.queue /\ q[i] = r.queue[i]) \/ (i = Len(q) /\ q[i] = EndMark)
    BY <1>1, AppendElements
  <2> HIDE DEF q
  <2>3. /\ s \in RecorderType /\ s.queue = q /\ s.writing = r.writing /\ s.dropped = r.dropped
        /\ s.written = r.written /\ s.failed = r.failed /\ s.ended = r.ended /\ s.stop = "joining"
    BY <1>1, <2>1, <2>2 DEF RecorderType
  <2>4. RecorderOk(s)
    BY <2>1, <2>2, <2>3 DEF RecorderOk, NoBurst, EndMark
  <2>5. Submitted(s) = Submitted(r)
    BY <2>2, <2>3, SubmittedIs
  <2> QED
    BY <2>1, <2>4, <2>5
<1>7. CASE StopGivesUp
  <2>1. /\ s \in RecorderType /\ s.queue = r.queue /\ s.writing = r.writing /\ s.dropped = r.dropped
        /\ s.ended = r.ended /\ s.stop = "joining" /\ r.stop = "putting"
        /\ s.written = r.written /\ s.failed = r.failed
    BY <1>1, <1>7 DEF StopGivesUp, RecorderType
  <2>2. RecorderOk(s)
    BY <2>1 DEF RecorderOk
  <2>3. Submitted(s) = Submitted(r)
    BY <2>1, SubmittedIs
  <2> QED
    BY <2>1, <2>2, <2>3
<1>8. CASE StopJoins
  <2>1. /\ s \in RecorderType /\ s.queue = r.queue /\ s.writing = r.writing /\ s.dropped = r.dropped
        /\ s.ended = r.ended /\ s.stop = (IF r.ended THEN "drained" ELSE "abandoned") /\ r.stop = "joining"
        /\ s.written = r.written /\ s.failed = r.failed
    BY <1>1, <1>8 DEF StopJoins, RecorderType
  <2>2. RecorderOk(s)
    BY <2>1 DEF RecorderOk
  <2>3. Submitted(s) = Submitted(r)
    BY <2>1, SubmittedIs
  <2> QED
    BY <2>1, <2>2, <2>3
<1> QED
  BY <1>2, <1>3, <1>4, <1>5, <1>6, <1>7, <1>8 DEF Writer, Stopper

-----------------------------------------------------------------------------
(* A step of the pipeline thread, stage after stage.  r is the recorder    *)
(* and B the bursts that were out before the step, g the gate.             *)
Matched(open, g) ==
  \A s \in open, i \in DOMAIN g.tracks :
    s.id = g.tracks[i].openId => s.open <= g.tracks[i].lastActive

Ready(d, r, B, n, h, g, at, S, D, over) ==
  /\ Sound(d, Submitted(r), n, h)
  /\ OpenTracks(g) \subseteq OpenIds(d.tracker)
  /\ Matched(d.tracker.open, g)
  /\ DebounceFits => Timely(d, B, h, at, S, D, over)

LEMMA ClosesAreEvents ==
  ASSUME NEW closes, NEW g, NEW h, ClosesFit(closes, g, h), NEW open, Matched(open, g),
         NEW at \in Nat, GateOk(g, at)
  PROVE  closes \in Seq(Event) /\ ClosesAfter(open, closes, at)
<1>1. \A i \in DOMAIN g.tracks : g.tracks[i].lastActive <= at
  BY DEF GateOk, TrackOk, Debounced
<1>2. \A i \in DOMAIN g.tracks : CloseOf(g.tracks[i]).id = g.tracks[i].openId
                                 /\ CloseOf(g.tracks[i]).ts = g.tracks[i].lastActive
  BY DEF CloseOf
<1>3. ASSUME NEW k \in DOMAIN closes
      PROVE  closes[k].ts <= at /\ \A s \in open : s.id = closes[k].id => s.open <= closes[k].ts
  <2>1. PICK i \in DOMAIN g.tracks : closes[k] = CloseOf(g.tracks[i])
    BY DEF ClosesFit
  <2> QED
    BY <1>1, <1>2, <2>1 DEF Matched
<1> QED
  BY <1>3 DEF ClosesFit, ClosesAfter

LEMMA ClosedReady ==
  ASSUME NEW d, NEW r, NEW B, NEW n \in Nat, NEW h, NEW g, NEW at \in Nat, NEW S \in SUBSET Nat, NEW D, NEW over,
         Ready(d, r, B, n, h, g, at, S, D, over),
         NEW closes \in Seq(Event), ClosesAfter(d.tracker.open, closes, at),
         NEW f, OpenTracks(f) \subseteq OpenTracks(g), Matched(d.tracker.open, f),
         \A k \in DOMAIN closes : closes[k].id \notin OpenTracks(f)
  PROVE  Ready(CloseAll(d, closes), r, B, n, h, f, at, S, D, over)
<1> DEFINE e == CloseAll(d, closes)
<1>1. /\ Sound(d, Submitted(r), n, h) /\ OpenTracks(g) \subseteq OpenIds(d.tracker)
      /\ DebounceFits => Timely(d, B, h, at, S, D, over) /\ ClosesAfter(d.tracker.open, closes, at)
  BY DEF Ready
<1>2. /\ Sound(e, Submitted(r), n, h) /\ ClosedAll(d, e, closes)
      /\ DebounceFits => Timely(e, B, h, at, S, D, over)
  BY <1>1, CloseAllSound
<1> HIDE DEF e
<1>3. OpenTracks(f) \subseteq OpenIds(e.tracker)
  BY <1>1, <1>2 DEF ClosedAll, IdsOf
<1>4. Matched(e.tracker.open, f)
  BY <1>2 DEF ClosedAll, Matched
<1> QED
  BY <1>2, <1>3, <1>4 DEF Ready, e

LEMMA ClockedReady ==
  ASSUME NEW d, NEW r, NEW B \in SUBSET BurstOf, NEW n \in Nat, NEW h, NEW g, NEW at \in Nat,
         NEW S \in SUBSET Nat, \A f \in S : f <= at, NEW D \in SUBSET Nat, NEW over \in BOOLEAN,
         Ready(d, r, B, n, h, g, at, S, D, over),
         NEW ts \in Nat, at < ts, NEW E \in SUBSET Nat, D \subseteq E, over => ts \in E
  PROVE  Ready(Clocked(d, ts, Held(S, at, Horizon)), r, B, n, h, g, ts, S \cup {ts}, E, FALSE)
<1> DEFINE b == Held(S, at, Horizon)
           e == Clocked(d, ts, b)
<1>1. /\ Sound(d, Submitted(r), n, h) /\ OpenTracks(g) \subseteq OpenIds(d.tracker)
      /\ Matched(d.tracker.open, g)
      /\ DebounceFits => Timely(d, B, h, at, S, D, over)
  BY DEF Ready
<1>2. b \in SUBSET Nat
  BY HeldInside
<1>3. Sound(e, Submitted(r), n, h) /\ ClockedTo(d, e, ts, b)
  BY <1>1, <1>2, ClockedSound
<1>4. DebounceFits => Timely(e, B, h, ts, S \cup {ts}, E, FALSE)
  <2> SUFFICES ASSUME DebounceFits
               PROVE  Timely(e, B, h, ts, S \cup {ts}, E, FALSE)
    OBVIOUS
  <2>1. Timely(d, B, h, at, S, D, over)
    BY <1>1
  <2> HIDE DEF e
  <2>2. Timely(Clocked(d, ts, Held(S, at, Horizon)), B, h, ts, S \cup {ts}, E, FALSE)
    BY <1>1, <2>1, ClockedTimely
  <2> QED
    BY <2>2 DEF e
<1> HIDE DEF e, b
<1>5. OpenIds(e.tracker) = OpenIds(d.tracker)
  BY <1>3 DEF ClockedTo
<1>6. Matched(e.tracker.open, g)
  <2> SUFFICES ASSUME NEW s \in e.tracker.open, NEW i \in DOMAIN g.tracks, s.id = g.tracks[i].openId
               PROVE  s.open <= g.tracks[i].lastActive
    BY DEF Matched
  <2>1. PICK o \in d.tracker.open : s.id = o.id /\ s.open = o.open
    BY <1>3 DEF ClockedTo
  <2>2. Matched(d.tracker.open, g)
    BY <1>1
  <2>3. o.open <= g.tracks[i].lastActive
    BY <2>1, <2>2 DEF Matched
  <2> QED
    BY <2>1, <2>3
<1> QED
  BY <1>1, <1>3, <1>4, <1>5, <1>6 DEF Ready, e, b

LEMMA OpenedReady ==
  ASSUME NEW d, NEW r, NEW B, NEW h, NEW g, NEW ts \in Nat, NEW S \in SUBSET Nat, \A f \in S : f <= ts, NEW D, NEW over,
         Ready(d, r, B, g.segmentCount, h, g, ts, S, D, over), g.segmentCount \in Nat,
         DOMAIN h \subseteq 1 .. g.segmentCount,
         \A i \in DOMAIN g.tracks : g.tracks[i].openId <= g.segmentCount /\ g.tracks[i].lastActive \in Nat,
         NEW x, GateStep(g, x, ts)
  PROVE  LET e == OpenAll(d, x.opens, Held(S, ts, Horizon))
         IN  /\ Ready(e, r, B, x.gate.segmentCount, h, x.gate, ts, S, D, over)
             /\ Matched(e.tracker.open, g) /\ OpenTracks(g) \subseteq OpenIds(e.tracker)
<1> DEFINE n == g.segmentCount
           opens == x.opens
           m == x.gate.segmentCount
           b == Held(S, ts, Horizon)
           e == OpenAll(d, opens, b)
<1>1. /\ Sound(d, Submitted(r), n, h) /\ OpenTracks(g) \subseteq OpenIds(d.tracker)
      /\ Matched(d.tracker.open, g)
      /\ DebounceFits => Timely(d, B, h, ts, S, D, over)
  BY DEF Ready
<1>2. /\ opens \in Seq(Event) /\ m = n + Len(opens) /\ n \in Nat /\ DOMAIN opens = 1 .. Len(opens)
      /\ \A k \in DOMAIN opens : /\ opens[k].id = n + k /\ opens[k].ts <= ts
                                 /\ DebounceFits => ts - opens[k].ts <= Horizon
      /\ TracksFrom(x.gate.tracks, g, opens)
  BY DEF GateStep, OpensFit
<1>3. b \in SUBSET Nat /\ IsFiniteSet(b)
  <2>1. IsFiniteSet(S) /\ b \in SUBSET S
    BY FiniteFrames, HeldInside
  <2> QED
    BY <2>1, FS_Subset
<1> HIDE DEF n, opens, m
<1>4. Sound(e, Submitted(r), m, h) /\ OpenedOn(d, e, NewSegments(opens, b, Len(opens)))
  <2>1. Sound(e, Submitted(r), n + Len(opens), h) /\ OpenedOn(d, e, NewSegments(opens, b, Len(opens)))
    BY <1>1, <1>2, <1>3, OpenAllSound DEF n
  <2> QED
    BY <1>2, <2>1
<1>5. DebounceFits => Timely(e, B, h, ts, S, D, over)
  <2> SUFFICES ASSUME DebounceFits
               PROVE  Timely(e, B, h, ts, S, D, over)
    OBVIOUS
  <2>1. \A k \in DOMAIN opens :
          opens[k].id \notin DOMAIN h /\ opens[k].ts <= ts /\ ts - opens[k].ts <= Horizon
    <3> TAKE k \in DOMAIN opens
    <3>1. n + k \notin 1 .. n
      BY <1>2
    <3> QED
      BY <1>2, <3>1 DEF n
  <2>2. Timely(d, B, h, ts, S, D, over) /\ opens \in Seq(Event)
        /\ OpenedOn(d, e, NewSegments(opens, Held(S, ts, Horizon), Len(opens)))
    BY <1>1, <1>2, <1>4
  <2> HIDE DEF e
  <2> QED
    BY <2>1, <2>2, OpenedTimely
<1> HIDE DEF e, b
<1>6. e.tracker.open = d.tracker.open \cup NewSegments(opens, b, Len(opens))
  BY <1>4 DEF OpenedOn
<1>7. \A k \in DOMAIN opens : /\ SegmentFor(opens[k], b) \in e.tracker.open
                              /\ SegmentFor(opens[k], b).id = n + k
                              /\ SegmentFor(opens[k], b).open = opens[k].ts
  BY <1>2, <1>6 DEF NewSegments, SegmentFor
<1>8. \A s \in e.tracker.open :
        s \in d.tracker.open \/ \E k \in DOMAIN opens : s = SegmentFor(opens[k], b)
  BY <1>2, <1>6 DEF NewSegments
<1>9. \A k \in DOMAIN opens : n + k > n /\ k \in Nat
  BY <1>2
<1>10. Matched(e.tracker.open, g)
  <2> SUFFICES ASSUME NEW s \in e.tracker.open, NEW i \in DOMAIN g.tracks, s.id = g.tracks[i].openId
               PROVE  s.open <= g.tracks[i].lastActive
    BY DEF Matched
  <2>1. g.tracks[i].openId <= n
    BY DEF n
  <2>2. s \in d.tracker.open
    <3> SUFFICES ASSUME NEW k \in DOMAIN opens, s = SegmentFor(opens[k], b)
                 PROVE  FALSE
      BY <1>8
    <3>1. n + k <= n
      BY <1>7, <2>1
    <3> QED
      BY <1>2, <1>9, <3>1
  <2>3. Matched(d.tracker.open, g)
    BY <1>1
  <2> QED
    BY <2>2, <2>3 DEF Matched
<1>11. OpenIds(d.tracker) \subseteq OpenIds(e.tracker)
  BY <1>6 DEF OpenIds
<1>12. OpenTracks(x.gate) \subseteq OpenIds(e.tracker)
  <2> SUFFICES ASSUME NEW k \in DOMAIN x.gate.tracks, x.gate.tracks[k].openId # NoId
               PROVE  x.gate.tracks[k].openId \in OpenIds(e.tracker)
    BY DEF OpenTracks
  <2>1. CASE \E i \in DOMAIN g.tracks : g.tracks[i].openId = x.gate.tracks[k].openId
    BY <1>1, <1>11, <2>1 DEF OpenTracks
  <2>2. CASE \E j \in DOMAIN opens : opens[j].id = x.gate.tracks[k].openId
    BY <1>2, <1>7, <2>2 DEF OpenIds
  <2> QED
    BY <1>2, <2>1, <2>2 DEF TracksFrom
<1>13. Matched(e.tracker.open, x.gate)
  <2> SUFFICES ASSUME NEW s \in e.tracker.open, NEW k \in DOMAIN x.gate.tracks, s.id = x.gate.tracks[k].openId
               PROVE  s.open <= x.gate.tracks[k].lastActive
    BY DEF Matched
  <2> DEFINE t == x.gate.tracks[k]
  <2>0. s.id \in Nat \ {NoId} /\ s.open \in Nat
    <3>1. OpenIds(e.tracker) \subseteq 1 .. m /\ e.tracker.open \subseteq Segment
      BY <1>4, DeskTypes DEF Sound, Accounted, AccountsFor
    <3>2. s.id \in 1 .. m
      BY <3>1 DEF OpenIds
    <3> QED
      BY <3>1, <3>2 DEF NoId, Segment
  <2>1. CASE \E i \in DOMAIN g.tracks : g.tracks[i].openId = t.openId /\ g.tracks[i].lastActive <= t.lastActive
    <3>1. PICK i \in DOMAIN g.tracks : g.tracks[i].openId = t.openId /\ g.tracks[i].lastActive <= t.lastActive
      BY <2>1
    <3>2. s.open <= g.tracks[i].lastActive
      BY <1>10, <3>1 DEF Matched
    <3>3. g.tracks[i].lastActive \in Nat /\ t.lastActive \in Nat
      <4>1. \A q \in DOMAIN x.gate.tracks : x.gate.tracks[q].lastActive \in Nat
        <5> DEFINE T == x.gate.tracks
        <5>1. T \in Seq(Track)
          BY DEF GateStep, GateOk, Gate
        <5> HIDE DEF T
        <5>2. \A q \in DOMAIN T : T[q] \in Track
          BY <5>1
        <5> QED
          BY <5>2 DEF Track, T
      <4> QED
        BY <4>1
    <3> QED
      BY <2>0, <3>1, <3>2, <3>3
  <2>2. CASE \E j \in DOMAIN opens : opens[j].id = t.openId /\ opens[j].ts <= t.lastActive
    <3>1. PICK j \in DOMAIN opens : opens[j].id = t.openId /\ opens[j].ts <= t.lastActive
      BY <2>2
    <3>2. s = SegmentFor(opens[j], b)
      BY <1>2, <1>4, <1>7, <3>1 DEF Sound, OneSegmentEach
    <3> QED
      BY <1>7, <3>1, <3>2
  <2> QED
    BY <1>2, <2>0, <2>1, <2>2 DEF TracksFrom
<1> QED
  BY <1>1, <1>4, <1>5, <1>10, <1>11, <1>12, <1>13 DEF Ready, e, b, opens, m

(* k is h after the decodes of ids.                                        *)
DecodedAt(k, h, ids, ts) ==
  /\ DOMAIN k = DOMAIN h \cup ids
  /\ \A id \in DOMAIN k : k[id] = IF id \in ids THEN ts ELSE h[id]

(* The decodes of a frame; f is the gate before the frame, whose tracks    *)
(* the CLOSE events are taken from.                                        *)
LEMMA DecodedReady ==
  ASSUME NEW d, NEW r, NEW B, NEW n \in Nat, NEW h, NEW g, NEW ts \in Nat, NEW S \in SUBSET Nat, NEW D, NEW over,
         Ready(d, r, B, n, h, g, ts, S, D, over),
         NEW ids, ids \subseteq OpenTracks(g), NEW k, DecodedAt(k, h, ids, ts),
         NEW f, Matched(d.tracker.open, f)
  PROVE  LET e == DecodeAll(d, ids)
         IN  Ready(e, r, B, n, k, g, ts, S, D, over) /\ Matched(e.tracker.open, f)
<1> DEFINE e == DecodeAll(d, ids)
<1>0. /\ DOMAIN k = DOMAIN h \cup ids
      /\ \A id \in DOMAIN k : k[id] = IF id \in ids THEN ts ELSE h[id]
  BY DEF DecodedAt
<1>1. /\ Sound(d, Submitted(r), n, h) /\ OpenTracks(g) \subseteq OpenIds(d.tracker)
      /\ Matched(d.tracker.open, g)
      /\ DebounceFits => Timely(d, B, h, ts, S, D, over)
  BY DEF Ready
<1>2. ids \subseteq OpenIds(d.tracker)
  BY <1>1
<1>3. /\ Sound(e, Submitted(r), n, k) /\ SameButOpen(d, e)
      /\ Alike(e.tracker.open, d.tracker.open) /\ OpenIds(e.tracker) = OpenIds(d.tracker)
  <2>1. Sound(DecodeAll(d, ids), Submitted(r), n, k) /\ DecodedTo(d, DecodeAll(d, ids))
    BY <1>0, <1>1, <1>2, DecodeAllSound
  <2> QED
    BY <2>1 DEF DecodedTo, e
<1> HIDE DEF e
<1>4. DebounceFits => Timely(e, B, k, ts, S, D, over)
  <2> SUFFICES ASSUME DebounceFits
               PROVE  Timely(e, B, k, ts, S, D, over)
    OBVIOUS
  <2>1. Timely(d, B, h, ts, S, D, over)
    BY <1>1
  <2> QED
    BY <1>0, <1>3, <2>1, DecodedTimely
<1>5. ASSUME NEW q, Matched(d.tracker.open, q)
      PROVE  Matched(e.tracker.open, q)
  <2> SUFFICES ASSUME NEW s \in e.tracker.open, NEW i \in DOMAIN q.tracks, s.id = q.tracks[i].openId
               PROVE  s.open <= q.tracks[i].lastActive
    BY DEF Matched
  <2>1. PICK o \in d.tracker.open : s.id = o.id /\ s.open = o.open
    BY <1>3 DEF Alike
  <2>2. o.open <= q.tracks[i].lastActive
    BY <1>5, <2>1 DEF Matched
  <2> QED
    BY <2>1, <2>2
<1> QED
  BY <1>1, <1>3, <1>4, <1>5 DEF Ready, e

(* What a step leaves behind.                                              *)
DeskOf(t, l) == [ tracker |-> t, records |-> l, out |-> <<>> ]

LEMMA LeaveReady ==
  ASSUME NEW d, NEW n \in Nat, NEW h, NEW g, NEW at \in Nat, NEW S \in SUBSET Nat, NEW D, NEW over,
         Ready(d, recorder, bursts, n, h, g, at, S, D, over),
         bursts \in SUBSET BurstOf, RecorderOk(recorder), recorder.stop = "running", Leave(d)
  PROVE  /\ Ready(DeskOf(tracker', records'), recorder', bursts', n, h, g, at, S, D, over)
         /\ bursts' \in SUBSET BurstOf /\ RecorderOk(recorder') /\ recorder'.stop = "running"
         /\ tracker' = d.tracker /\ records' = d.records
<1> DEFINE out == d.out
           t == d.tracker
           l == d.records
           e == DeskOf(t, l)
           U == Submitted(recorder)
<1>1. /\ Sound(d, U, n, h) /\ OpenTracks(g) \subseteq OpenIds(t)
      /\ Matched(t.open, g)
      /\ DebounceFits => Timely(d, bursts, h, at, S, D, over)
  BY DEF Ready
<1>2. out \in Seq(BurstOf) /\ l \in Seq(Record)
  BY <1>1 DEF Sound, IsDesk
<1>3. Filed(t, l, U \cup IdsOf(out), n) /\ Accounted(t, n) /\ OneSegmentEach(t) /\ ReadFit(t, h)
  BY <1>1 DEF Sound
<1>4. tracker' = t /\ records' = l /\ bursts' = bursts \cup Range(out)
  BY DEF Leave, Range, FoldLeft, MapThenFoldSet
<1>5. recorder' = SubmitAll(recorder, out)
  BY DEF Leave, SubmitAll, FoldLeft, MapThenFoldSet
<1>6. /\ e.tracker = t /\ e.records = l /\ e.out = <<>>
      /\ e = [ tracker |-> e.tracker, records |-> e.records, out |-> e.out ]
  BY DEF DeskOf
<1> HIDE DEF e, out, t, l
<1>7. NoBurst \notin IdsOf(out)
  <2>1. IdsOf(out) \subseteq 1 .. n
    BY <1>3 DEF Filed
  <2> QED
    BY <2>1 DEF NoBurst
<1>8. RecorderOk(recorder') /\ recorder'.stop = "running" /\ Submitted(recorder') = U \cup IdsOf(out)
  BY <1>2, <1>5, <1>7, SubmitAllSound
<1>9. IdsOf(<<>>) = {} /\ Range(<<>>) = {} /\ <<>> \in Seq(BurstOf)
  BY DEF IdsOf, Range
<1>10. Sound(e, Submitted(recorder'), n, h)
  <2>1. IsDesk(e)
    BY <1>2, <1>6, <1>9 DEF IsDesk
  <2>2. Filed(t, l, Submitted(recorder') \cup IdsOf(<<>>), n)
    BY <1>3, <1>8, <1>9
  <2> QED
    BY <1>3, <1>6, <2>1, <2>2 DEF Sound
<1>11. DebounceFits => Timely(e, bursts', h, at, S, D, over)
  <2> SUFFICES ASSUME DebounceFits
               PROVE  Timely(e, bursts', h, at, S, D, over)
    OBVIOUS
  <2>1. Timely(d, bursts, h, at, S, D, over)
    BY <1>1
  <2>2. bursts' \cup Range(e.out) = bursts \cup Range(d.out)
    BY <1>4, <1>6, <1>9 DEF out
  <2> QED
    BY <1>6, <2>1, <2>2 DEF Timely, t, l
<1>12. bursts' \in SUBSET BurstOf
  <2>1. Range(out) \subseteq BurstOf
    BY <1>2 DEF Range
  <2> QED
    BY <1>4, <2>1
<1>13. Ready(e, recorder', bursts', n, h, g, at, S, D, over)
  BY <1>1, <1>6, <1>10, <1>11 DEF Ready
<1> QED
  BY <1>4, <1>8, <1>12, <1>13 DEF e, t, l

LEMMA SettledReady ==
  ASSUME NEW d, NEW r, NEW B \in SUBSET BurstOf, NEW n \in Nat, NEW h, NEW g, NEW at \in Nat,
         NEW S \in SUBSET Nat, \A f \in S : f <= at, NEW D \in SUBSET Nat, NEW over \in BOOLEAN,
         Ready(d, r, B, n, h, g, at, S, D, over)
  PROVE  Ready(Settled(d, Held(S, at, Horizon)), r, B, n, h, g, at, S, D, TRUE)
<1> DEFINE b == Held(S, at, Horizon)
           e == Settled(d, b)
<1>1. /\ Sound(d, Submitted(r), n, h) /\ OpenTracks(g) \subseteq OpenIds(d.tracker)
      /\ Matched(d.tracker.open, g)
      /\ DebounceFits => Timely(d, B, h, at, S, D, over)
  BY DEF Ready
<1>2. b \in SUBSET Nat
  BY HeldInside
<1>3. Sound(e, Submitted(r), n, h) /\ SettledTo(d, e, b)
  BY <1>1, <1>2, SettledSound
<1>4. DebounceFits => Timely(e, B, h, at, S, D, TRUE)
  <2> SUFFICES ASSUME DebounceFits
               PROVE  Timely(e, B, h, at, S, D, TRUE)
    OBVIOUS
  <2>1. Timely(d, B, h, at, S, D, over)
    BY <1>1
  <2>2. Timely(Settled(d, Held(S, at, Horizon)), B, h, at, S, D, TRUE)
    BY <1>1, <2>1, SettledTimely
  <2> QED
    BY <2>2
<1> HIDE DEF e, b
<1>5. e.tracker.open = d.tracker.open
  BY <1>3 DEF SettledTo
<1>6. OpenIds(e.tracker) = OpenIds(d.tracker)
  BY <1>5 DEF OpenIds
<1> QED
  BY <1>1, <1>3, <1>4, <1>5, <1>6 DEF Ready, e, b

(* The cut at a discontinuity.                                             *)
LEMMA CutReady ==
  ASSUME NEW n \in Nat, GateOk(gate, now), now \in Nat, seen \in SUBSET Nat, \A f \in seen : f <= now, marks \in SUBSET Nat,
         bursts \in SUBSET BurstOf, buffer = Held(seen, now, Horizon),
         Ready(Desk, recorder, bursts, n, hits, gate, now, seen, marks, FALSE),
         NEW mark \in BOOLEAN
  PROVE  LET g == IF mark THEN BreakMulti(gate).gate ELSE gate
         IN  /\ Ready(Cut(mark), recorder, bursts, n, hits, g, now, seen, marks, mark)
             /\ GateOk(g, now) /\ g.segmentCount = gate.segmentCount
<1>1. CASE ~ mark
  BY <1>1 DEF Cut
<1>2. CASE mark
  <2> DEFINE g == BreakMulti(gate).gate
             closes == BreakMulti(gate).closes
             d == Desk
             e == CloseAll(d, closes)
             f == FlushMulti(gate).gate
  <2>1. /\ GateOk(g, now) /\ g.tracks = <<>> /\ f.tracks = <<>> /\ g.segmentCount = gate.segmentCount
        /\ ClosesFit(closes, gate, f)
    BY FlushMultiStep
  <2>2. Cut(mark) = Settled(e, Held(seen, now, Horizon))
    BY <1>2 DEF Cut
  <2>3. Ready(d, recorder, bursts, n, hits, gate, now, seen, marks, FALSE)
    OBVIOUS
  <2> HIDE DEF g, f, closes, d, e
  <2>4. OpenTracks(g) = {} /\ \A S : Matched(S, g)
    BY <2>1 DEF OpenTracks, Matched
  <2>5. closes \in Seq(Event) /\ ClosesAfter(d.tracker.open, closes, now)
    <3>1. Matched(d.tracker.open, gate)
      BY <2>3 DEF Ready
    <3> QED
      BY <2>1, <3>1, ClosesAreEvents
  <2>6. Ready(e, recorder, bursts, n, hits, g, now, seen, marks, FALSE)
    <3>1. \A k \in DOMAIN closes : closes[k].id \notin OpenTracks(g)
      BY <2>4
    <3>2. OpenTracks(g) \subseteq OpenTracks(gate) /\ Matched(d.tracker.open, g)
      BY <2>4
    <3>3. Ready(CloseAll(d, closes), recorder, bursts, n, hits, g, now, seen, marks, FALSE)
      BY <2>3, <2>5, <3>1, <3>2, ClosedReady
    <3> QED
      BY <3>3 DEF e
  <2>7. Ready(Settled(e, Held(seen, now, Horizon)), recorder, bursts, n, hits, g, now, seen, marks, TRUE)
    BY <2>6, SettledReady
  <2> QED
    BY <1>2, <2>1, <2>2, <2>7 DEF g
<1> QED
  BY <1>1, <1>2

(* What the decodes of the segments are, n of them opened.                 *)
HitsOk(h, n, at) ==
  DOMAIN h \subseteq 1 .. n /\ \A id \in DOMAIN h : h[id] \in Nat /\ h[id] <= at

RecorderOpen(r, B) == RecorderOk(r) /\ r.stop = "running" /\ B \in SUBSET BurstOf

(* What follows the gate, in one step: g is the gate before the frame and  *)
(* x what it made of the frame.                                            *)
LEMMA ClassifiedReady ==
  ASSUME NEW g, NEW at \in Nat, GateOk(g, at), NEW ts \in Nat, at < ts,
         NEW S \in SUBSET Nat, \A f \in S : f <= ts, NEW D, NEW over, NEW d,
         Ready(d, recorder, bursts, g.segmentCount, hits, g, ts, S, D, over),
         RecorderOpen(recorder, bursts), HitsOk(hits, g.segmentCount, at),
         NEW x, GateStep(g, x, ts),
         DecodeStep(ts, OpenAll(d, x.opens, Held(S, ts, Horizon)), Live(x.gate), x.closes)
  PROVE  /\ Ready(DeskOf(tracker', records'), recorder', bursts',
                  x.gate.segmentCount, hits', x.gate, ts, S, D, over)
         /\ RecorderOpen(recorder', bursts') /\ HitsOk(hits', x.gate.segmentCount, ts)
<1> DEFINE e == OpenAll(d, x.opens, Held(S, ts, Horizon))
           n == x.gate.segmentCount
           live == Live(x.gate)
<1>1. /\ g.segmentCount \in Nat
      /\ \A i \in DOMAIN g.tracks : g.tracks[i].openId <= g.segmentCount /\ g.tracks[i].lastActive \in Nat
  <2> DEFINE T == g.tracks
  <2>1. T \in Seq(Track) /\ g.segmentCount \in Nat
    BY DEF GateOk, Gate
  <2>2. \A i \in DOMAIN T : T[i].openId <= g.segmentCount
    BY DEF GateOk, TrackOk
  <2> HIDE DEF T
  <2>3. \A i \in DOMAIN T : T[i] \in Track
    BY <2>1
  <2>4. \A i \in DOMAIN T : T[i].lastActive \in Nat
    BY <2>3 DEF Track
  <2> QED
    BY <2>1, <2>2, <2>4 DEF T
<1>2. /\ Ready(e, recorder, bursts, n, hits, x.gate, ts, S, D, over)
      /\ Matched(e.tracker.open, g) /\ OpenTracks(g) \subseteq OpenIds(e.tracker)
  <2>1. DOMAIN hits \subseteq 1 .. g.segmentCount
    BY DEF HitsOk
  <2> QED
    BY <1>1, <2>1, OpenedReady
<1>3. PICK run \in Runs(Len(live)), raised \in BOOLEAN :
        LET ids  == HitIds(live, ts, run)
            read == DecodeAll(e, Routed(live, ids))
        IN  /\ hits' = [ id \in DOMAIN hits \cup ids |-> IF id \in ids THEN ts ELSE hits[id] ]
            /\ Leave(IF raised THEN read ELSE CloseAll(read, x.closes))
  BY DEF DecodeStep
<1> DEFINE ids == HitIds(live, ts, run)
           u == DecodeAll(e, ids)
           v == CloseAll(u, x.closes)
<1>4. /\ hits' = [ id \in DOMAIN hits \cup ids |-> IF id \in ids THEN ts ELSE hits[id] ]
      /\ Leave(IF raised THEN u ELSE v)
  BY <1>3 DEF Routed
<1>5. GateOk(x.gate, ts) /\ n \in Nat /\ n >= g.segmentCount /\ x.gate \in Gate /\ ClosesFit(x.closes, g, x.gate)
  <2>1. n = g.segmentCount + Len(x.opens) /\ x.opens \in Seq(Event)
    BY DEF GateStep, OpensFit
  <2> QED
    BY <1>1, <2>1 DEF GateStep, GateOk
<1>6. ids \subseteq OpenTracks(x.gate)
  BY <1>5, HitsAreOpen
<1>7. OpenTracks(x.gate) \subseteq 1 .. n
  BY <1>2 DEF Ready, Sound, Accounted, AccountsFor
<1> HIDE DEF e, n, live, ids, u, v
<1>8. HitsOk(hits', n, ts)
  <2>1. DOMAIN hits' = DOMAIN hits \cup ids
    BY <1>4
  <2>2. DOMAIN hits \subseteq 1 .. g.segmentCount /\ 1 .. g.segmentCount \subseteq 1 .. n
    BY <1>1, <1>5 DEF HitsOk
  <2>3. \A id \in DOMAIN hits' : hits'[id] \in Nat /\ hits'[id] <= ts
    BY <1>4 DEF HitsOk
  <2> QED
    BY <1>6, <1>7, <2>1, <2>2, <2>3 DEF HitsOk
<1>9. Ready(u, recorder, bursts, n, hits', x.gate, ts, S, D, over) /\ Matched(u.tracker.open, g)
  <2> DEFINE k == hits'
  <2>1. DecodedAt(k, hits, ids, ts)
    BY <1>4 DEF DecodedAt
  <2> HIDE DEF k
  <2>2. Ready(u, recorder, bursts, n, k, x.gate, ts, S, D, over) /\ Matched(u.tracker.open, g)
    BY <1>2, <1>5, <1>6, <2>1, DecodedReady DEF u
  <2> QED
    BY <2>2 DEF k
<1>10. Ready(v, recorder, bursts, n, hits', x.gate, ts, S, D, over)
  <2> DEFINE closes == x.closes
             f == x.gate
  <2>1. closes \in Seq(Event) /\ ClosesAfter(u.tracker.open, closes, at)
    BY <1>5, <1>9, ClosesAreEvents
  <2>2. ClosesAfter(u.tracker.open, closes, ts)
    <3> HIDE DEF closes
    <3>1. \A k \in DOMAIN closes : closes[k] \in Event
      BY <2>1
    <3>2. \A k \in DOMAIN closes : closes[k].ts \in Nat
      BY <3>1 DEF Event
    <3> QED
      BY <2>1, <3>2 DEF ClosesAfter
  <2>3. \A k \in DOMAIN closes : closes[k].id \notin OpenTracks(f)
    BY <1>5 DEF ClosesFit
  <2>4. Matched(u.tracker.open, f)
    BY <1>9 DEF Ready
  <2> HIDE DEF closes, f
  <2>5. Ready(CloseAll(u, closes), recorder, bursts, n, hits', f, ts, S, D, over)
    BY <1>5, <1>9, <2>1, <2>2, <2>3, <2>4, ClosedReady DEF f
  <2> QED
    BY <2>5 DEF v, closes, f
<1>11. PICK w \in {u, v} : Leave(w) /\ Ready(w, recorder, bursts, n, hits', x.gate, ts, S, D, over)
  BY <1>4, <1>9, <1>10
<1>12. /\ Ready(DeskOf(tracker', records'), recorder', bursts', n, hits', x.gate, ts, S, D, over)
       /\ RecorderOpen(recorder', bursts')
  BY <1>5, <1>11, LeaveReady DEF RecorderOpen
<1> QED
  BY <1>8, <1>12 DEF n

-----------------------------------------------------------------------------
(* Part 3.  The invariant.                                                 *)
ClocksOk == /\ now \in Nat /\ seen \in SUBSET Nat /\ marks \in SUBSET Nat /\ done \in BOOLEAN
            /\ buffer = Held(seen, now, Horizon) /\ \A f \in seen : f <= now

IInv ==
  /\ ClocksOk
  /\ GateOk(gate, now) /\ HitsOk(hits, gate.segmentCount, now)
  /\ RecorderOk(recorder) /\ bursts \in SUBSET BurstOf
  /\ recorder.stop # "running" => done
  /\ Ready(DeskOf(tracker, records), recorder, bursts, gate.segmentCount, hits, gate, now, seen, marks, done)
  /\ done => FlushedTo(DeskOf(tracker, records))

LEMMA InitIInv == Init => IInv
<1> SUFFICES ASSUME Init
             PROVE  IInv
  OBVIOUS
<1> DEFINE seeds == [ p \in {} |-> 0 ]
           t == NewTracker(seeds)
           d == DeskOf(t, <<>>)
           none == [ id \in {} |-> 0 ]
           U == Submitted(NewRecorder)
<1>1. IsWindow(seeds)
  <2>1. DOMAIN seeds = {}
    OBVIOUS
  <2> QED
    BY <2>1 DEF IsWindow
<1>2. DOMAIN none = {}
  OBVIOUS
<1> HIDE DEF seeds, none
<1>4. /\ t.open = {} /\ t.pending = <<>> /\ t.passes = {} /\ t.merged = {} /\ t.misses = {}
      /\ IsTracker(t)
  BY <1>1 DEF NewTracker, IsTracker
<1> HIDE DEF t
<1>5. OpenIds(t) = {} /\ PendingIds(t) = {} /\ ReadIds(t) = {} /\ MissedIds(t) = {}
  BY <1>4 DEF OpenIds, PendingIds, ReadIds, MissedIds
<1>3. Accounted(t, 0)
  <2>1. 1 .. 0 = {}
    OBVIOUS
  <2> QED
    BY <1>4, <1>5, <2>1 DEF Accounted, AccountsFor, NoDoubleMiss
<1>6. RecorderOk(NewRecorder) /\ U = {} /\ NewRecorder.stop = "running"
  <2>1. /\ NewRecorder \in RecorderType /\ NewRecorder.queue = <<>> /\ ~ NewRecorder.ended
        /\ NewRecorder.stop = "running" /\ NewRecorder.writing = NoBurst
        /\ NewRecorder.dropped = {} /\ NewRecorder.written = {} /\ NewRecorder.failed = {}
    BY DEF NewRecorder, RecorderType, NoBurst
  <2>2. Range(NewRecorder.queue) = {}
    BY <2>1 DEF Range
  <2> HIDE DEF NewRecorder
  <2> QED
    BY <2>1, <2>2, SubmittedIs DEF RecorderOk
<1>7. /\ NewMultiGate \in Gate /\ NewMultiGate.tracks = <<>> /\ NewMultiGate.segmentCount = 0
  BY DEF NewMultiGate, Gate
<1>8. GateOk(NewMultiGate, 0) /\ OpenTracks(NewMultiGate) = {}
  BY <1>7 DEF GateOk, OneTrackEach, OpenTracks
<1>9. /\ d.tracker = t /\ d.records = <<>> /\ d.out = <<>>
      /\ d = [ tracker |-> d.tracker, records |-> d.records, out |-> d.out ]
  BY DEF DeskOf
<1> HIDE DEF d, U
<1>10. IdsOf(<<>>) = {} /\ Range(<<>>) = {} /\ <<>> \in Seq(BurstOf) /\ <<>> \in Seq(Record) /\ Distinct(<<>>)
       /\ 1 .. 0 = {}
  BY DEF IdsOf, Range, Distinct
<1>11. Sound(d, U, 0, none)
  <2>1. IsDesk(d)
    BY <1>9, <1>10 DEF IsDesk
  <2>2. OneSegmentEach(t) /\ ReadFit(t, none)
    BY <1>4, <1>5 DEF OneSegmentEach, ReadFit
  <2>3. Filed(t, <<>>, U \cup IdsOf(<<>>), 0)
    BY <1>5, <1>6, <1>10 DEF Filed, U
  <2> QED
    BY <1>3, <1>9, <2>1, <2>2, <2>3 DEF Sound
<1>12. Timely(d, {}, none, 0, {}, {}, FALSE)
  <2>1. \A post \in {PostRoll, RecordPost} : ListFit(<<>>, post, 0, {})
    BY DEF ListFit
  <2> QED
    BY <1>4, <1>9, <1>10, <2>1 DEF Timely
<1>13. Ready(d, NewRecorder, {}, 0, none, NewMultiGate, 0, {}, {}, FALSE)
  <2>1. Matched(d.tracker.open, NewMultiGate)
    BY <1>7 DEF Matched
  <2> QED
    BY <1>8, <1>11, <1>12, <2>1 DEF Ready, U
<1>14. /\ gate = NewMultiGate /\ tracker = t /\ records = <<>> /\ bursts = {} /\ buffer = {}
       /\ seen = {} /\ marks = {} /\ hits = none /\ now = 0 /\ done = FALSE /\ recorder = NewRecorder
  BY DEF Init, t, seeds, none
<1>15. ClocksOk /\ HitsOk(hits, 0, 0)
  BY <1>2, <1>14 DEF ClocksOk, Held, HitsOk
<1> QED
  BY <1>6, <1>7, <1>8, <1>13, <1>14, <1>15 DEF IInv, d

LEMMA FrameIInv == IInv /\ FrameStep => IInv'
<1> SUFFICES ASSUME IInv, NEW step \in FrameSteps, NEW mark \in BOOLEAN, NEW mask \in Masks,
                    ProcessFrame(step, mark, mask)
             PROVE  IInv'
  BY DEF FrameStep
<1> DEFINE ts == now + step
           n == gate.segmentCount
           g == IF mark THEN BreakMulti(gate).gate ELSE gate
           S == seen \cup {ts}
           D == IF mark THEN marks \cup {ts} ELSE marks
           x == UpdateMulti(g, ts, mask)
           d == Clocked(Cut(mark), ts, buffer)
<1>1. /\ now \in Nat /\ seen \in SUBSET Nat /\ marks \in SUBSET Nat /\ buffer = Held(seen, now, Horizon)
      /\ done \in BOOLEAN /\ GateOk(gate, now) /\ HitsOk(hits, n, now)
      /\ RecorderOk(recorder) /\ bursts \in SUBSET BurstOf
      /\ (\A f \in seen : f <= now)
      /\ recorder.stop # "running" => done
      /\ Ready(DeskOf(tracker, records), recorder, bursts, n, hits, gate, now, seen, marks, done)
  BY DEF IInv, ClocksOk
<1>2. ~ done /\ now' = ts /\ seen' = S /\ marks' = D /\ buffer' = Buffered(buffer, ts) /\ done' = done
      /\ gate' = x.gate
      /\ DecodeStep(ts, OpenAll(d, x.opens, Buffered(buffer, ts)), Live(x.gate), x.closes)
  BY DEF ProcessFrame, Classified
<1>3. ts \in Nat /\ now < ts /\ S \in SUBSET Nat /\ D \in SUBSET Nat /\ marks \subseteq D
      /\ (mark => ts \in D) /\ n \in Nat
  BY <1>1, MultiAssumption DEF GateOk, Gate
<1>4. \A f \in S : f <= ts
  <2>1. \A f \in seen : f \in Nat /\ f <= now
    BY <1>1
  <2>2. \A f \in S : f \in seen \/ f = ts
    OBVIOUS
  <2> HIDE DEF S
  <2>3. ts \in Nat /\ now \in Nat /\ now < ts
    BY <1>1, <1>3
  <2> HIDE DEF ts
  <2> QED
    BY <2>1, <2>2, <2>3
<1>5. Buffered(buffer, ts) = Held(S, ts, Horizon)
  <2>1. IsFiniteSet(seen) /\ \A f \in seen : f < ts
    <3>1. IsFiniteSet(seen)
      BY <1>1, FiniteFrames
    <3>2. \A f \in seen : f \in Nat /\ f <= now
      BY <1>1
    <3>3. ts \in Nat /\ now \in Nat /\ now < ts
      BY <1>1, <1>3
    <3> HIDE DEF ts
    <3> QED
      BY <3>1, <3>2, <3>3
  <2>2. Buffered(buffer, ts) = Appended(Held(seen, now, Horizon), ts, Horizon)
    BY <1>1 DEF Buffered
  <2>3. now <= ts /\ Horizon \in Nat
    BY <1>1, <1>3, HorizonNatural
  <2> HIDE DEF ts
  <2> QED
    BY <1>1, <1>3, <2>1, <2>2, <2>3, HeldGoesOn DEF S
<1>6. /\ Ready(Cut(mark), recorder, bursts, n, hits, g, now, seen, marks, mark)
      /\ GateOk(g, now) /\ g.segmentCount = n
  <2>1. Ready(Desk, recorder, bursts, n, hits, gate, now, seen, marks, FALSE)
    <3>1. Desk = DeskOf(tracker, records) /\ done = FALSE
      BY <1>1, <1>2 DEF Desk, DeskOf
    <3> QED
      BY <1>1, <3>1
  <2> QED
    BY <1>1, <1>3, <2>1, CutReady
<1>7. GateStep(g, x, ts)
  BY <1>1, <1>6, UpdateMultiStep
<1> HIDE DEF ts, n, g, S, D, x
<1>8. Ready(d, recorder, bursts, n, hits, g, ts, S, D, FALSE)
  <2> DEFINE c == Cut(mark)
  <2>1. Ready(c, recorder, bursts, n, hits, g, now, seen, marks, mark)
    BY <1>6
  <2> HIDE DEF c
  <2>2. Ready(Clocked(c, ts, Held(seen, now, Horizon)), recorder, bursts, n, hits, g, ts, seen \cup {ts}, D, FALSE)
    BY <1>1, <1>3, <2>1, ClockedReady
  <2> QED
    BY <1>1, <2>2 DEF c, S
<1> HIDE DEF d
<1>9. RecorderOpen(recorder, bursts)
  BY <1>1, <1>2 DEF RecorderOpen
<1>10. /\ Ready(DeskOf(tracker', records'), recorder', bursts',
               x.gate.segmentCount, hits', x.gate, ts, S, D, FALSE)
      /\ RecorderOpen(recorder', bursts') /\ HitsOk(hits', x.gate.segmentCount, ts)
  <2>1. DecodeStep(ts, OpenAll(d, x.opens, Held(S, ts, Horizon)), Live(x.gate), x.closes)
    BY <1>2, <1>5
  <2>2. /\ Ready(d, recorder, bursts, g.segmentCount, hits, g, ts, S, D, FALSE)
        /\ HitsOk(hits, g.segmentCount, now)
    BY <1>1, <1>6, <1>8
  <2> QED
    BY <1>1, <1>3, <1>4, <1>6, <1>7, <1>9, <2>1, <2>2, ClassifiedReady
<1>11. GateOk(x.gate, ts)
  BY <1>7 DEF GateStep
<1>12. ClocksOk' /\ done' = FALSE
  BY <1>1, <1>2, <1>3, <1>4, <1>5 DEF ClocksOk
<1> QED
  BY <1>2, <1>10, <1>11, <1>12 DEF IInv, RecorderOpen

LEMMA EndIInv == IInv /\ EndOfStream => IInv'
<1> SUFFICES ASSUME IInv, EndOfStream
             PROVE  IInv'
  OBVIOUS
<1> DEFINE n == gate.segmentCount
           g == FlushMulti(gate).gate
           closes == FlushMulti(gate).closes
           d == Desk
           u == CloseAll(d, closes)
           e == Flushed(u, buffer)
<1>1. /\ now \in Nat /\ seen \in SUBSET Nat /\ marks \in SUBSET Nat /\ buffer = Held(seen, now, Horizon)
      /\ done \in BOOLEAN /\ GateOk(gate, now) /\ HitsOk(hits, n, now)
      /\ RecorderOk(recorder) /\ bursts \in SUBSET BurstOf
      /\ (\A f \in seen : f <= now)
      /\ recorder.stop # "running" => done
      /\ Ready(DeskOf(tracker, records), recorder, bursts, n, hits, gate, now, seen, marks, done)
  BY DEF IInv, ClocksOk
<1>2. /\ ~ done /\ done' = TRUE /\ gate' = g /\ Leave(e)
      /\ UNCHANGED <<buffer, hits, now, seen, marks>>
  BY DEF EndOfStream
<1>3. n \in Nat
  BY <1>1 DEF GateOk, Gate
<1>4. Ready(d, recorder, bursts, n, hits, gate, now, seen, marks, FALSE)
  <2>1. d = DeskOf(tracker, records) /\ done = FALSE
    BY <1>1, <1>2 DEF Desk, DeskOf
  <2> HIDE DEF d
  <2> QED
    BY <1>1, <2>1
<1>5. /\ GateOk(g, now) /\ g.tracks = <<>> /\ g.segmentCount = n /\ ClosesFit(closes, gate, g)
  BY <1>1, FlushMultiStep
<1> HIDE DEF n, g, closes, d
<1>6. OpenTracks(g) = {} /\ \A S : Matched(S, g)
  BY <1>5 DEF OpenTracks, Matched
<1>7. closes \in Seq(Event) /\ ClosesAfter(d.tracker.open, closes, now)
  <2>1. Matched(d.tracker.open, gate)
    BY <1>4 DEF Ready
  <2> QED
    BY <1>1, <1>5, <2>1, ClosesAreEvents
<1>8. Ready(u, recorder, bursts, n, hits, g, now, seen, marks, FALSE)
  <2>1. \A k \in DOMAIN closes : closes[k].id \notin OpenTracks(g)
    BY <1>6
  <2>2. OpenTracks(g) \subseteq OpenTracks(gate) /\ Matched(d.tracker.open, g)
    BY <1>6
  <2> QED
    BY <1>1, <1>3, <1>4, <1>7, <2>1, <2>2, ClosedReady
<1> HIDE DEF u
<1>9. Ready(e, recorder, bursts, n, hits, g, now, seen, marks, TRUE) /\ FlushedTo(e)
  <2>1. /\ Sound(u, Submitted(recorder), n, hits)
        /\ DebounceFits => Timely(u, bursts, hits, now, seen, marks, FALSE)
    BY <1>8 DEF Ready
  <2>2. \A id \in DOMAIN hits : hits[id] \in Nat /\ hits[id] <= now
    BY <1>1 DEF HitsOk
  <2>3. /\ Sound(e, Submitted(recorder), n, hits) /\ FlushedTo(e)
        /\ DebounceFits => Timely(e, bursts, hits, now, seen, marks, TRUE)
    BY <1>1, <1>3, <2>1, <2>2, FlushedSound
  <2> HIDE DEF e
  <2> QED
    BY <1>6, <2>3 DEF Ready
<1> HIDE DEF e
<1>10. recorder.stop = "running"
  BY <1>1, <1>2
<1>11. /\ Ready(DeskOf(tracker', records'), recorder', bursts', n, hits, g, now, seen, marks, TRUE)
       /\ bursts' \in SUBSET BurstOf /\ RecorderOk(recorder') /\ recorder'.stop = "running"
       /\ tracker' = e.tracker /\ records' = e.records
  BY <1>1, <1>2, <1>3, <1>9, <1>10, LeaveReady
<1>12. FlushedTo(DeskOf(tracker', records'))
  BY <1>9, <1>11 DEF FlushedTo, DeskOf
<1>13. ClocksOk'
  BY <1>1, <1>2 DEF ClocksOk
<1> QED
  BY <1>1, <1>2, <1>5, <1>11, <1>12, <1>13 DEF IInv

LEMMA OnlyShutdownStops ==
  ASSUME RecorderOk(recorder), Writer \/ Stopper, recorder'.stop # "running"
  PROVE  recorder.stop # "running"
<1>1. recorder \in RecorderType
  BY DEF RecorderOk
<1>2. CASE Writer
  <2>1. recorder'.stop = recorder.stop
    BY <1>1, <1>2 DEF Writer, WriterTakes, WriterEnds, WriterWedges, RecorderType
  <2> QED
    BY <2>1
<1>3. CASE Stopper
  BY <1>3 DEF Stopper, StopPuts, StopGivesUp, StopJoins
<1> QED
  BY <1>2, <1>3

LEMMA RecorderIInv == IInv /\ RecorderStep => IInv'
<1> SUFFICES ASSUME IInv, RecorderStep
             PROVE  IInv'
  OBVIOUS
<1>1. /\ UNCHANGED <<gate, tracker, records, buffer, hits, now, seen, marks, bursts, done>>
      /\ Writer \/ Stopper \/ (done /\ StopBegins)
  BY DEF RecorderStep, pipelineVars
<1>2. RecorderOk(recorder)
  BY DEF IInv
<1>3. RecorderOk(recorder') /\ Submitted(recorder') = Submitted(recorder)
  BY <1>1, <1>2, RecorderSteps
<1>4. recorder'.stop # "running" => done
  <2>1. recorder.stop # "running" => done
    BY DEF IInv
  <2> QED
    BY <1>1, <1>2, <2>1, OnlyShutdownStops
<1>5. ClocksOk'
  BY <1>1 DEF IInv, ClocksOk
<1>6. Ready(DeskOf(tracker, records), recorder', bursts, gate.segmentCount, hits, gate, now, seen, marks, done)
  BY <1>3 DEF IInv, Ready
<1> QED
  BY <1>1, <1>3, <1>4, <1>5, <1>6 DEF IInv

LEMMA StepIInv == IInv /\ [Next]_vars => IInv'
<1> SUFFICES ASSUME IInv, [Next]_vars
             PROVE  IInv'
  OBVIOUS
<1>1. CASE FrameStep
  BY <1>1, FrameIInv
<1>2. CASE EndOfStream
  BY <1>2, EndIInv
<1>3. CASE RecorderStep
  BY <1>3, RecorderIInv
<1>4. CASE UNCHANGED vars
  BY <1>4 DEF vars, pipelineVars, IInv, ClocksOk
<1> QED
  BY <1>1, <1>2, <1>3, <1>4 DEF Next

-----------------------------------------------------------------------------
(* Multi-object mode keeps its invariant: the gate's tracks debounce on    *)
(* their own, every segment is filed in one place, the decodes are where   *)
(* their tracks were, and every burst has the frames it owes.              *)
THEOREM MultiInvariance == Spec => []IInv
BY InitIInv, StepIInv, PTL DEF Spec

(* on_decode by track id: a segment that is read was decoded, and when one *)
(* decode confirms, one that was decoded is never a miss, however many     *)
(* tracks share the frames.                                                *)
THEOREM ReadsKeepToTheirTrack == Spec => []ReadsStayOnTrack
<1>1. IInv => ReadsStayOnTrack
  <2> SUFFICES ASSUME IInv
               PROVE  ReadsStayOnTrack
    OBVIOUS
  <2>1. ReadFit(tracker, hits)
    BY DEF IInv, Ready, Sound, DeskOf
  <2> QED
    BY <2>1 DEF ReadFit, ReadsStayOnTrack
<1> QED
  BY <1>1, MultiInvariance, PTL

(* _finalize_segment, flush, submit and shutdown: each segment is in one   *)
(* place, each finalized one is one record, a shutdown that reports        *)
(* success left none behind, and every burst that is out has its post-roll *)
(* when the debounce is shorter than the rolling buffer.                   *)
THEOREM RecordsAreAccounted == Spec => []RecordsAccounted
<1>1. IInv => RecordsAccounted
  <2> SUFFICES ASSUME IInv
               PROVE  RecordsAccounted
    OBVIOUS
  <2> DEFINE d == DeskOf(tracker, records)
             n == gate.segmentCount
             U == Submitted(recorder)
  <2>1. /\ Sound(d, U, n, hits) /\ done \in BOOLEAN
        /\ DebounceFits => Timely(d, bursts, hits, now, seen, marks, done)
        /\ done => FlushedTo(d)
        /\ RecorderOk(recorder) /\ (recorder.stop # "running" => done)
    BY DEF IInv, ClocksOk, Ready
  <2>2. d.tracker = tracker /\ d.records = records /\ d.out = <<>>
    BY DEF DeskOf
  <2> HIDE DEF d
  <2>3. Accounted(tracker, n) /\ Filed(tracker, records, U \cup IdsOf(<<>>), n) /\ IdsOf(<<>>) = {}
    BY <2>1, <2>2 DEF Sound, IdsOf
  <2>4. RecordIds = IdsOf(records)
    BY DEF RecordIds, IdsOf
  <2>5. done => OpenIds(tracker) = {} /\ PendingIds(tracker) = {} /\ RecordIds = {}
    BY <2>1, <2>2, <2>4 DEF FlushedTo, IdsOf
  <2>6. RecordIds \cup U = 1 .. n \ OpenIds(tracker) /\ RecordIds \cap U = {}
    BY <2>3, <2>4 DEF Filed
  <2>7. recorder.stop = "drained" => RecordIds \cup Queued(recorder) \cup InWriter(recorder) = {}
    <3> SUFFICES ASSUME recorder.stop = "drained"
                 PROVE  RecordIds \cup Queued(recorder) \cup InWriter(recorder) = {}
      OBVIOUS
    <3>1. recorder.ended /\ done
      BY <2>1 DEF RecorderOk
    <3>2. recorder.queue = <<>> /\ recorder.writing = NoBurst
      BY <2>1, <3>1 DEF RecorderOk
    <3> QED
      BY <2>5, <3>1, <3>2 DEF Queued, InWriter
  <2>8. PostRollsComplete
    <3> SUFFICES ASSUME DebounceFits
                 PROVE  /\ \A m \in tracker.misses : PostRollShown(m, PostRoll)
                        /\ \A b \in bursts : PostRollShown(b, RecordPost)
      BY DEF PostRollsComplete
    <3>1. /\ \A x \in tracker.misses : DoneFit(x, PostRoll, now, seen, marks, done)
          /\ \A x \in bursts : DoneFit(x, RecordPost, now, seen, marks, done)
      BY <2>1, <2>2 DEF Timely
    <3>2. \A x, post : DoneFit(x, post, now, seen, marks, done) => PostRollShown(x, post)
      BY DEF DoneFit, PostRollShown, SameConnection, Shows, Thinned, Excused
    <3> QED
      BY <3>1, <3>2
  <2> QED
    BY <2>3, <2>5, <2>6, <2>7, <2>8 DEF RecordsAccounted, Accounted
<1> QED
  BY <1>1, MultiInvariance, PTL

-----------------------------------------------------------------------------
(* Objects that stand where they stood.                                    *)
RidesOwn(tracks, blobs, i) ==
  /\ \E j \in DOMAIN blobs : tracks[i].roi = blobs[j]
  /\ \A k \in DOMAIN tracks : tracks[k].roi = tracks[i].roi => k = i

LEMMA SelfFit ==
  ASSUME NEW a \in Blob
  PROVE  Overlap(a, a) = Joint(a, a) /\ Distance(a, a) = 0
<1>1. Distance(a, a) = 0
  BY DEF Distance, Blob
<1> QED
  BY <1>1, OverlapInJoint

(* A track with its own blob gets it: no candidate fits better than one    *)
(* that fits exactly, and no other track fits this blob as well.           *)
LEMMA OwnBlobTaken ==
  ASSUME NEW tracks \in Seq(Track), NEW blobs \in Seq(Blob), NEW i \in DOMAIN tracks,
         RidesOwn(tracks, blobs, i)
  PROVE  \E c \in View(tracks, blobs).taken : c.track = i
<1> DEFINE v == View(tracks, blobs)
           a == tracks[i].roi
<1>1. /\ ViewOk(v) /\ v.tracks = tracks /\ v.blobs = blobs /\ v.all = Candidates(tracks, blobs)
  BY ViewIsOk
<1>2. PICK j \in DOMAIN blobs : a = blobs[j]
  BY DEF RidesOwn
<1>3. \A k \in DOMAIN tracks : tracks[k].roi \in Blob
  <2>1. \A k \in DOMAIN tracks : tracks[k] \in Track
    OBVIOUS
  <2> QED
    BY <2>1 DEF Track
<1>4. \A k \in DOMAIN blobs : blobs[k] \in Blob
  OBVIOUS
<1> DEFINE own == [ track |-> i, blob |-> j, overlap |-> Overlap(a, blobs[j]),
                    joint |-> Joint(a, blobs[j]), distance |-> Distance(a, blobs[j]) ]
<1>5. own.track = i /\ own.blob = j /\ own.overlap = own.joint /\ own.distance = 0
      /\ own.joint \in Nat \ {0}
  BY <1>2, <1>3, SelfFit, OverlapInJoint
<1>6. Eligible(own)
  BY <1>5, MultiGateAssumption DEF Eligible
<1>7. own \in v.all
  BY <1>1, <1>6 DEF Candidates
<1> HIDE DEF own
<1>8. ASSUME NEW d \in v.all, Better(d, own)
      PROVE  tracks[d.track].roi = blobs[d.blob]
  <2>1. /\ d.track \in DOMAIN tracks /\ d.blob \in DOMAIN blobs
        /\ d.overlap = Overlap(tracks[d.track].roi, blobs[d.blob])
        /\ d.joint = Joint(tracks[d.track].roi, blobs[d.blob])
    BY <1>1, CandidatesProper
  <2> DEFINE p == tracks[d.track].roi
             q == blobs[d.blob]
  <2>6. p \in Blob /\ q \in Blob /\ d.overlap = Overlap(p, q) /\ d.joint = Joint(p, q)
    BY <1>3, <1>4, <2>1
  <2> HIDE DEF p, q
  <2>2. d.overlap \in Nat /\ d.joint \in Nat /\ d.overlap <= d.joint
    BY <2>6, OverlapInJoint
  <2>3. d.overlap * own.joint >= own.joint * d.joint
    <3>1. d.overlap * own.joint \in Int /\ own.overlap * d.joint \in Int
      BY <1>5, <2>2
    <3>2. d.overlap * own.joint >= own.overlap * d.joint
      BY <1>8, <3>1 DEF Better
    <3> QED
      BY <1>5, <3>2
  <2>4. \A x, y \in Nat, z \in Nat \ {0} : x * z >= z * y => x >= y
    BY SMT
  <2>5. d.overlap = d.joint
    BY <1>5, <2>2, <2>3, <2>4
  <2>7. p = q
    <3>1. Overlap(p, q) = Joint(p, q)
      BY <2>5, <2>6
    <3> QED
      BY <2>6, <3>1, OverlapInJoint, Zenon
  <2> QED
    BY <2>7 DEF p, q
<1>9. CASE own \in v.taken
  BY <1>5, <1>9
<1>10. CASE own \notin v.taken
  <2>1. PICK d \in v.taken : Better(d, own) /\ Clash(own, d)
    BY <1>1, <1>7, <1>10 DEF ViewOk
  <2>2. d \in v.all /\ d.track \in DOMAIN tracks
    BY <1>1, <2>1 DEF ViewOk
  <2>3. tracks[d.track].roi = blobs[d.blob]
    BY <1>8, <2>1, <2>2
  <2>4. d.track = i
    BY <1>2, <1>5, <2>1, <2>2, <2>3 DEF Clash, RidesOwn
  <2> QED
    BY <2>1, <2>4
<1> QED
  BY <1>9, <1>10

(* When every track has its own blob nobody contends, and nothing is given *)
(* up.                                                                     *)
LEMMA OwnBlobsNoMerge ==
  ASSUME NEW tracks \in Seq(Track), NEW blobs \in Seq(Blob),
         \A i \in DOMAIN tracks : RidesOwn(tracks, blobs, i)
  PROVE  /\ Absorbed(View(tracks, blobs)) = {}
         /\ \A i \in DOMAIN tracks : \E a \in Assigned(View(tracks, blobs)) : a[1] = i
<1> DEFINE v == View(tracks, blobs)
<1>1. ViewOk(v) /\ v.tracks = tracks
  BY ViewIsOk
<1>2. \A i \in DOMAIN tracks : \E c \in v.taken : c.track = i
  BY OwnBlobTaken
<1> HIDE DEF v
<1>3. \A c \in v.focus : c \in v.taken
  <2> TAKE c \in v.focus
  <2>1. PICK d \in v.taken : d.track = c.track
    BY <1>1, <1>2 DEF ViewOk
  <2> QED
    BY <1>1, <2>1 DEF ViewOk
<1>4. \A c \in v.focus : Rivals(v, c) = {}
  BY <1>1, <1>3 DEF Rivals, ViewOk, Clash
<1>5. Contending(v) = {}
  BY <1>4 DEF Contending
<1>6. Absorbed(v) = {}
  BY <1>5 DEF Absorbed
<1>7. Assigned(v) = { <<c.track, c.blob>> : c \in v.taken }
  BY <1>6 DEF Assigned
<1>8. \A i \in DOMAIN tracks : \E a \in Assigned(v) : a[1] = i
  <2> TAKE i \in DOMAIN tracks
  <2>1. PICK c \in v.taken : c.track = i
    BY <1>2
  <2>2. <<c.track, c.blob>> \in Assigned(v) /\ <<c.track, c.blob>>[1] = i
    BY <1>7, <2>1
  <2> QED
    BY <2>2
<1> QED
  BY <1>6, <1>8 DEF v

LEMMA StandingTracksStay ==
  ASSUME NEW g, NEW at \in Nat, GateOk(g, at), NEW step \in FrameSteps, NEW mask \in Masks,
         \A i \in DOMAIN g.tracks : RidesOwn(g.tracks, SegmentBlobs(mask), i)
  PROVE  OpenTracks(g) \subseteq OpenTracks(UpdateMulti(g, at + step, mask).gate)
<1> DEFINE tracks == g.tracks
           blobs == SegmentBlobs(mask)
           n == g.segmentCount
           a == Associate(tracks, blobs, n, at + step)
           r == UpdateMulti(g, at + step, mask)
<1>1. n \in Nat /\ tracks \in Seq(Track) /\ g \in Gate
      /\ OneTrackEach(tracks) /\ \A i \in DOMAIN tracks : TrackOk(tracks[i], n, at)
  BY DEF GateOk, Gate
<1>2. blobs \in Seq(Blob)
  BY SegmentBlobsType, MultiAssumption
<1>3. CASE ~ g.primed
  <2>1. r.gate.tracks = tracks
    BY <1>1, <1>3 DEF UpdateMulti, Gate
  <2> QED
    BY <2>1 DEF OpenTracks
<1>4. CASE g.primed
  <2>1. r.gate.tracks = a.tracks
    <3>1. r = Associated(g, a)
      BY <1>4 DEF UpdateMulti
    <3> HIDE DEF a, r
    <3> QED
      BY <1>1, <3>1 DEF Associated, Gate
  <2>2. PICK after \in Seq(Track) :
          /\ a.tracks = Numbered(after, n)
          /\ \A i \in DOMAIN tracks : Stays(tracks, blobs, i, after)
    <3>1. \E after \in Seq(Track) :
            /\ a.tracks = Numbered(after, n)
            /\ OneTrackEach(after)
            /\ \A i \in DOMAIN after : Grown(after[i], n, at + step) /\ Kept(tracks, after[i])
            /\ \A i \in DOMAIN tracks : Stays(tracks, blobs, i, after)
            /\ a.closes \in Seq(Event)
            /\ \A k \in DOMAIN a.closes : GivenUp(tracks, after, a.closes[k])
      BY <1>1, <1>2, AssociateKeeps
    <3> QED
      BY <3>1
  <2>3. /\ Absorbed(View(tracks, blobs)) = {}
        /\ \A i \in DOMAIN tracks : \E b \in Assigned(View(tracks, blobs)) : b[1] = i
    BY <1>1, <1>2, OwnBlobsNoMerge
  <2> HIDE DEF tracks, blobs, a, r, n
  <2>4. \A i \in DOMAIN tracks : \E k \in DOMAIN after : after[k].openId = tracks[i].openId
    BY <2>2, <2>3 DEF Stays, Tracks
  <2>5. \A k \in DOMAIN after :
          after[k].openId # NoId => k \in DOMAIN a.tracks /\ a.tracks[k].openId = after[k].openId
    BY <2>2 DEF Numbered, Opens
  <2>6. \A i \in DOMAIN tracks : tracks[i].openId # NoId =>
          \E k \in DOMAIN a.tracks : a.tracks[k].openId = tracks[i].openId
    BY <2>4, <2>5
  <2> QED
    BY <2>1, <2>6 DEF OpenTracks, tracks, r
<1> QED
  BY <1>3, <1>4

(* _associate: while every track rides an object of its own that stands    *)
(* where it stood, no segment is given up, whatever else is in the scene   *)
(* and however the overlaps compare.                                       *)
THEOREM StandingObjects == Spec => StandingObjectsKeepTracks
<1> DEFINE Stand == now' # now /\ now' \notin marks' /\ (\A i \in DOMAIN gate.tracks : Riding(i))
                      => OpenTracks(gate) \subseteq OpenTracks(gate')
<1>1. IInv /\ [Next]_vars => [Stand]_vars
  <2> SUFFICES ASSUME IInv, Next, now' # now, now' \notin marks',
                      \A i \in DOMAIN gate.tracks : Riding(i)
               PROVE  OpenTracks(gate) \subseteq OpenTracks(gate')
    OBVIOUS
  <2>1. FrameStep
    <3>1. ~ EndOfStream /\ ~ RecorderStep
      BY DEF EndOfStream, RecorderStep, pipelineVars
    <3> QED
      BY <3>1 DEF Next
  <2>2. PICK step \in FrameSteps, mark \in BOOLEAN, mask \in Masks : ProcessFrame(step, mark, mask)
    BY <2>1 DEF FrameStep
  <2>3. ~ mark
    BY <2>2 DEF ProcessFrame
  <2>4. scene' = mask /\ gate' = UpdateMulti(gate, now + step, mask).gate
    BY <2>2, <2>3 DEF ProcessFrame, Classified
  <2>5. \A i \in DOMAIN gate.tracks : RidesOwn(gate.tracks, SegmentBlobs(mask), i)
    BY <2>4 DEF Riding, RidesOwn
  <2>6. now \in Nat /\ GateOk(gate, now)
    BY DEF IInv, ClocksOk
  <2> QED
    BY <2>4, <2>5, <2>6, StandingTracksStay
<1> QED
  BY <1>1, MultiInvariance, PTL DEF Spec, StandingObjectsKeepTracks
=============================================================================
