----------------------------- MODULE ResumeProofs ------------------------------
(***************************************************************************)
(* Proofs about the two components that read a resume for its user, and    *)
(* about MCEngine, the composition that the engine run checks.             *)
(*                                                                         *)
(* Ranking: a sorted sequence has every id once, since the number of ids   *)
(* before one is another for each; so a search, its fallback and the       *)
(* fusion of two orders give ids that were asked for, none twice.          *)
(*                                                                         *)
(* ResumeOptimize: the entries of a text stand in lines of their own.  An  *)
(* entry that occurs once is found where it stands: an occurrence that     *)
(* begins higher would overlap it, so that the entry begins with a line    *)
(* from its own middle, which is no title; then the line above the entry   *)
(* is blank or a heading, and yet a line of the entry.  (An entry that     *)
(* begins with one date twice escapes the argument.)  So no replacement    *)
(* touches another entry, by induction over the items.                     *)
(***************************************************************************)
EXTENDS MCEngine, EngineProofs

-----------------------------------------------------------------------------
(* Sorting *)

\* Who is before in the order that sorts by the number given and then by the id.
LEMMA BeforeOrders ==
  ASSUME NEW ids, ids \subseteq Nat, NEW s, \A i \in ids : s[i] \in Nat
  PROVE  /\ \A i \in ids : ~ Before(s, i, i)
         /\ \A i, j \in ids : i # j => Before(s, i, j) \/ Before(s, j, i)
         /\ \A i, j, k \in ids : Before(s, i, j) /\ Before(s, j, k) => Before(s, i, k)
BY DEF Before

\* The ranked sequence has every id once.
LEMMA RankedIs ==
  ASSUME NEW ids, ids \subseteq Nat, IsFiniteSet(ids), NEW s, \A i \in ids : s[i] \in Nat
  PROVE  /\ Ranked(ids, s) \in Seq(ids) /\ Len(Ranked(ids, s)) = Cardinality(ids)
         /\ IsInjective(Ranked(ids, s)) /\ Range(Ranked(ids, s)) = ids
<1> DEFINE Ahead(i) == {j \in ids : Before(s, j, i)}
           R == Ranked(ids, s)
<1>1. PICK n \in Nat : n = Cardinality(ids)
  BY FS_CardinalityType
<1>2. \A i \in ids : IsFiniteSet(Ahead(i)) /\ Cardinality(Ahead(i)) \in 0 .. n - 1
  <2> SUFFICES ASSUME NEW i \in ids PROVE IsFiniteSet(Ahead(i)) /\ Cardinality(Ahead(i)) \in 0 .. n - 1
    OBVIOUS
  <2>1. Ahead(i) \subseteq ids \ {i}
    <3>1. ~ Before(s, i, i)
      BY BeforeOrders
    <3> QED
      BY <3>1
  <2>2. IsFiniteSet(ids \ {i}) /\ Cardinality(ids \ {i}) = n - 1
    BY <1>1, FS_RemoveElement
  <2> HIDE DEF Ahead
  <2>3. IsFiniteSet(Ahead(i)) /\ Cardinality(Ahead(i)) <= n - 1
    BY <2>1, <2>2, FS_Subset
  <2>4. Cardinality(Ahead(i)) \in Nat
    BY <2>3, FS_CardinalityType
  <2> QED
    BY <1>1, <2>3, <2>4
<1>3. \A i, k \in ids : Before(s, i, k) => Cardinality(Ahead(i)) # Cardinality(Ahead(k))
  <2> SUFFICES ASSUME NEW i \in ids, NEW k \in ids, Before(s, i, k) PROVE Cardinality(Ahead(i)) # Cardinality(Ahead(k))
    OBVIOUS
  <2>1. Ahead(i) \subseteq Ahead(k) /\ i \in Ahead(k) /\ i \notin Ahead(i)
    BY BeforeOrders
  <2> HIDE DEF Ahead
  <2>2. Cardinality(Ahead(i)) = Cardinality(Ahead(k)) => Ahead(i) = Ahead(k)
    BY <1>2, <2>1, FS_Subset
  <2> QED
    BY <2>1, <2>2
<1>4. PICK f : f = [i \in ids |-> Cardinality(Ahead(i))]
  OBVIOUS
<1>5. f \in Injection(ids, 0 .. n - 1)
  <2>1. f \in [ids -> 0 .. n - 1]
    <3> HIDE DEF Ahead
    <3> QED
      BY <1>2, <1>4
  <2>2. \A i, k \in ids : f[i] = f[k] => i = k
    <3>1. \A i, k \in ids : i # k => Before(s, i, k) \/ Before(s, k, i)
      BY BeforeOrders
    <3> HIDE DEF Ahead
    <3> QED
      BY <1>3, <1>4, <3>1
  <2> QED
    BY <2>1, <2>2 DEF Injection, IsInjective
<1>6. f \in Surjection(ids, 0 .. n - 1)
  <2>1. IsFiniteSet(0 .. n - 1) /\ Cardinality(0 .. n - 1) = n
    <3>1. 0 \in Int /\ n - 1 \in Int
      BY <1>1
    <3>2. IsFiniteSet(0 .. n - 1) /\ Cardinality(0 .. n - 1) = IF 0 > n - 1 THEN 0 ELSE n - 1 - 0 + 1
      BY <3>1, FS_Interval
    <3> QED
      BY <1>1, <3>2
  <2> QED
    BY <1>1, <1>5, <2>1, FS_Injection
<1>7. \A m \in 1 .. n : \E i \in ids : Cardinality(Ahead(i)) = m - 1
  <2> HIDE DEF Ahead
  <2>1. \A m \in 1 .. n : m - 1 \in 0 .. n - 1
    BY <1>1
  <2> QED
    BY <1>4, <1>6, <2>1 DEF Surjection
<1>8. R = [m \in 1 .. n |-> CHOOSE i \in ids : Cardinality(Ahead(i)) = m - 1]
  BY <1>1 DEF Ranked
<1>9. \A m \in 1 .. n : R[m] \in ids /\ f[R[m]] = m - 1
  <2> HIDE DEF Ahead
  <2> SUFFICES ASSUME NEW m \in 1 .. n PROVE R[m] \in ids /\ f[R[m]] = m - 1
    OBVIOUS
  <2>1. R[m] = CHOOSE i \in ids : Cardinality(Ahead(i)) = m - 1
    BY <1>8
  <2>2. R[m] \in ids /\ Cardinality(Ahead(R[m])) = m - 1
    BY <1>7, <2>1
  <2> QED
    BY <1>4, <2>2
<1>10. R \in [1 .. n -> ids]
  <2> HIDE DEF Ahead
  <2> QED
    BY <1>8, <1>9
<1> HIDE DEF R
<1>11. R \in Seq(ids) /\ Len(R) = n /\ DOMAIN R = 1 .. n
  BY <1>1, <1>10
<1>12. IsInjective(R)
  BY <1>1, <1>9, <1>11 DEF IsInjective
<1>13. \A i \in ids : \E m \in 1 .. n : R[m] = i
  <2> SUFFICES ASSUME NEW i \in ids PROVE \E m \in 1 .. n : R[m] = i
    OBVIOUS
  <2>1. f[i] \in 0 .. n - 1 /\ f[i] + 1 \in 1 .. n /\ (f[i] + 1) - 1 = f[i]
    BY <1>1, <1>5 DEF Injection
  <2>2. R[f[i] + 1] \in ids /\ f[R[f[i] + 1]] = f[i]
    BY <1>9, <2>1
  <2> QED
    BY <1>5, <2>1, <2>2 DEF Injection, IsInjective
<1>14. Range(R) = ids
  <2>1. Range(R) = {R[m] : m \in 1 .. n}
    BY <1>11 DEF Range
  <2> QED
    BY <1>9, <1>13, <2>1
<1> QED
  BY <1>1, <1>11, <1>12, <1>14 DEF R

\* The numbers of a set in their order: every one once.
LEMMA InOrderIs ==
  ASSUME NEW S, S \subseteq Nat, IsFiniteSet(S)
  PROVE  /\ InOrder(S) \in Seq(S) /\ Len(InOrder(S)) = Cardinality(S)
         /\ IsInjective(InOrder(S)) /\ Range(InOrder(S)) = S
<1>1. PICK s : s = [i \in S |-> 0]
  OBVIOUS
<1>2. \A i \in S : s[i] \in Nat
  BY <1>1
<1>3. \A i \in S : {j \in S : j < i} = {j \in S : Before(s, j, i)}
  BY <1>1 DEF Before
<1>4. \A n : (CHOOSE i \in S : Cardinality({j \in S : j < i}) = n - 1)
            = (CHOOSE i \in S : Cardinality({j \in S : Before(s, j, i)}) = n - 1)
  <2> SUFFICES ASSUME NEW n
               PROVE  \A i : (i \in S /\ Cardinality({j \in S : j < i}) = n - 1)
                          <=> (i \in S /\ Cardinality({j \in S : Before(s, j, i)}) = n - 1)
    BY Zenon
  <2> QED
    BY <1>3, Zenon
<1>5. InOrder(S) = Ranked(S, s)
  <2> DEFINE A(n) == CHOOSE i \in S : Cardinality({j \in S : j < i}) = n - 1
             B(n) == CHOOSE i \in S : Cardinality({j \in S : Before(s, j, i)}) = n - 1
  <2>1. InOrder(S) = [n \in 1 .. Cardinality(S) |-> A(n)]
    BY DEF InOrder
  <2>2. Ranked(S, s) = [n \in 1 .. Cardinality(S) |-> B(n)]
    BY DEF Ranked
  <2>3. \A n : A(n) = B(n)
    BY <1>4
  <2> HIDE DEF A, B
  <2> QED
    BY <2>1, <2>2, <2>3
<1> QED
  BY <1>2, <1>5, RankedIs

\* The first of a sequence.
LEMMA FirstOfIs ==
  ASSUME NEW S, NEW q \in Seq(S), NEW k \in Nat
  PROVE  /\ FirstOf(k, q) \in Seq(S) /\ Len(FirstOf(k, q)) = IF Len(q) < k THEN Len(q) ELSE k
         /\ \A i \in DOMAIN FirstOf(k, q) : i \in DOMAIN q /\ FirstOf(k, q)[i] = q[i]
         /\ Range(FirstOf(k, q)) \subseteq Range(q)
         /\ IsInjective(q) => IsInjective(FirstOf(k, q))
<1>1. PICK n : n = IF Len(q) < k THEN Len(q) ELSE k
  OBVIOUS
<1>2. n \in Nat /\ n <= Len(q) /\ 1 .. n \subseteq 1 .. Len(q)
  BY <1>1
<1>3. PICK f : f = FirstOf(k, q) /\ f = SubSeq(q, 1, n)
  BY <1>1 DEF FirstOf
<1>4. f \in Seq(S) /\ Len(f) = n /\ \A i \in 1 .. n : f[i] = q[i]
  <2>1. \A i \in 1 .. n : q[i] \in S
    BY <1>2
  <2>2. 1 \in Int /\ n \in Int /\ n - 1 + 1 = n /\ (IF 1 <= n THEN n - 1 + 1 ELSE 0) = n
    BY <1>2
  <2>3. /\ f \in Seq(S) /\ Len(f) = (IF 1 <= n THEN n - 1 + 1 ELSE 0)
        /\ \A i \in 1 .. n - 1 + 1 : f[i] = q[1 + i - 1]
    BY <1>3, <2>1, <2>2, SubSeqProperties
  <2>4. \A i \in 1 .. n : 1 + i - 1 = i
    OBVIOUS
  <2> QED
    BY <2>2, <2>3, <2>4
<1>5. DOMAIN f = 1 .. n /\ DOMAIN q = 1 .. Len(q)
  BY <1>4
<1>6. \A i \in DOMAIN f : i \in DOMAIN q /\ f[i] = q[i]
  BY <1>2, <1>4, <1>5
<1>7. Range(f) \subseteq Range(q)
  BY <1>6 DEF Range
<1>8. IsInjective(q) => IsInjective(f)
  BY <1>6 DEF IsInjective
<1> QED
  BY <1>1, <1>3, <1>4, <1>6, <1>7, <1>8

\* A sequence all of whose elements pass is selected whole.
LEMMA WhereAll ==
  ASSUME NEW S, NEW s \in Seq(S), NEW T, Range(s) \subseteq T
  PROVE  Where(s, T) = s
<1>1. PICK g : /\ \A n \in 0 .. Len(s) : g[n] = IF n = 0 THEN <<>>
                                                ELSE IF s[n] \in T THEN Append(g[n - 1], s[n]) ELSE g[n - 1]
               /\ Where(s, T) = g[Len(s)]
  BY WhereSteps
<1>2. PICK l \in Nat : l = Len(s)
  OBVIOUS
<1> DEFINE P == {n \in 0 .. l : g[n] = SubSeq(s, 1, n)}
<1>3. 0 \in P
  <2>1. SubSeq(s, 1, 0) = <<>>
    BY SubSeqEmpty
  <2>2. g[0] = <<>>
    BY <1>1, <1>2
  <2>3. 0 \in 0 .. l /\ g[0] = SubSeq(s, 1, 0)
    BY <2>1, <2>2
  <2> QED
    BY <2>3, Zenon
<1>4. ASSUME NEW n \in 0 .. l, n \in P, n < l PROVE n + 1 \in P
  <2>1. n + 1 \in 1 .. l /\ n + 1 # 0 /\ (n + 1) - 1 = n /\ n + 1 \in 0 .. l /\ n + 1 \in 1 .. n + 1
    BY <1>2, <1>4
  <2>2. s[n + 1] \in T /\ s[n + 1] \in S
    BY <1>2, <2>1 DEF Range
  <2>3. g[n + 1] = Append(g[n], s[n + 1])
    BY <1>1, <1>2, <2>1, <2>2
  <2>4. SubSeq(s, 1, n + 1) = SubSeq(s, 1, n) \o <<s[n + 1]>>
    <3>1. 1 \in 1 .. Len(s) /\ n + 1 \in 1 .. Len(s)
      BY <1>2, <2>1
    <3> QED
      BY <2>1, <3>1, SubSeqRecursiveSecond
  <2>5. SubSeq(s, 1, n) \in Seq(S)
    <3>1. \A i \in 1 .. n : s[i] \in S
      BY <1>2, <1>4
    <3> QED
      BY <3>1, SubSeqProperties
  <2>6. Append(SubSeq(s, 1, n), s[n + 1]) = SubSeq(s, 1, n) \o <<s[n + 1]>>
    BY <2>2, <2>5, AppendIsConcat
  <2>7. g[n] = SubSeq(s, 1, n)
    BY <1>4
  <2>8. g[n + 1] = SubSeq(s, 1, n + 1)
    BY <2>3, <2>4, <2>6, <2>7
  <2> QED
    BY <2>1, <2>8
<1>5. l \in P
  <2> HIDE DEF P
  <2>1. \A n \in 0 .. l : n \in P /\ n < l => n + 1 \in P
    BY <1>4
  <2>2. \A n \in 0 .. l : n \in P
    BY <1>3, <2>1, CountedInduction
  <2> QED
    BY <2>2
<1>6. SubSeq(s, 1, Len(s)) = s
  BY SubSeqFull
<1> QED
  BY <1>1, <1>2, <1>5, <1>6

\* A sequence without repetitions has as many elements as its range.
LEMMA InjectiveCounts ==
  ASSUME NEW S, NEW q \in Seq(S), IsInjective(q)
  PROVE  IsFiniteSet(Range(q)) /\ Cardinality(Range(q)) = Len(q)
<1>1. PICK n \in Nat : n = Len(q) /\ DOMAIN q = 1 .. n
  OBVIOUS
<1>2. q \in Surjection(1 .. n, Range(q)) /\ q \in Injection(1 .. n, Range(q))
  <2>1. q \in [1 .. n -> Range(q)]
    BY <1>1 DEF Range
  <2> QED
    BY <1>1, <2>1 DEF Surjection, Injection, Range
<1>3. IsFiniteSet(1 .. n) /\ Cardinality(1 .. n) = n
  BY FS_Interval
<1> QED
  BY <1>1, <1>2, <1>3, FS_Surjection

-----------------------------------------------------------------------------
(* The ranking *)

\* What the library and the index may hold.
Skillsets  == {SkillsOf(text) : text \in JobTexts} \union {{}}
VectorRows == [text : JobTexts, skills : Skillsets]
Listings   == [Postings -> JobTexts \union {Blank, Absent}]
Shelves    == [CVs \ {Inline} -> CVTexts]
IndexTyped ==
  /\ jobVec \in [EmbedModels -> [Postings -> VectorRows \union {Absent}]]
  /\ cvVec \in [EmbedModels -> [CVs -> CVTexts \union {Absent}]]
LibraryTyped ==
  /\ jdOf \in Listings /\ cvOf \in Shelves /\ embedder \in EmbedModels /\ edits \in Nat

\* A build works on texts that it listed, never on the text of a deleted job or on none.
Builds == [at : {"off", "list", "shas", "embed", "write", "progress", "failed"},
           model : EmbedModels \union {Absent}, texts : Listings \union {Absent},
           todo : Seq(Postings), chunk : Seq(Postings), done : Nat]
BuildFits ==
  /\ build \in Builds
  /\ building \in [running : BOOLEAN, embedded : Nat, error : BOOLEAN]
  /\ building.running <=> build.at # "off"
  /\ build.at \in {"shas", "embed", "write", "progress"} => build.model \in EmbedModels /\ build.texts \in Listings
  /\ build.at \in {"embed", "write", "progress"} =>
       /\ \A n \in DOMAIN build.todo : build.texts[build.todo[n]] \in JobTexts
       /\ \A n \in DOMAIN build.chunk : build.texts[build.chunk[n]] \in JobTexts
  /\ build.at \in {"list", "shas"} => build.chunk = <<>>
  /\ build.at = "write" => build.chunk # <<>>

\* A request that waits for the lock it has is the one that has it.
LockFits ==
  /\ holder \in Rebuilders \union {Free}
  /\ rebuilds \in [Rebuilders -> {"idle", "inner", "reply", "status"}]
  /\ \A q \in Rebuilders : rebuilds[q] = "inner" <=> holder = q

\* The locals of a ranking request.
Locals == [at : {"idle", "list", "sha", "row", "embed", "store", "search", "jobRow", "jobStore",
                 "resumes", "each", "hints", "answered"},
           what : {"none", "recommend", "best", "hint"}, cv : CVs \union {Absent},
           job : Postings \union {Absent}, text : JobTexts \union CVTexts \union {Absent},
           model : EmbedModels \union {Absent}, ids : SUBSET Postings,
           query : CVTexts \union {Absent}, jobVector : JobTexts \union {Absent},
           todo : SUBSET (CVs \ {Inline}), texts : Shelves \union {Absent},
           got : Seq([cv : CVs, vec : CVTexts]), reason : Reasons, items : Seq(Postings \union CVs)]

\* What a request in hand is about, at each of its places.
Resuming == {"sha", "row", "embed", "store"}
Fits(me, rows) ==
  /\ me \in Locals
  /\ me.at = "list" => me.what = "recommend" /\ me.cv \in CVs /\ me.text \in CVTexts
  /\ me.at \in Resuming =>
       /\ me.what \in {"recommend", "best"} /\ me.cv \in CVs /\ me.text \in CVTexts /\ me.model \in EmbedModels
       /\ me.what = "best" => me.jobVector \in JobTexts /\ me.texts \in Shelves
  /\ me.at = "row" => rows[me.model][me.cv] \in CVTexts
  /\ me.at = "search" => me.model \in EmbedModels /\ me.query \in CVTexts /\ me.text \in CVTexts
  /\ me.at \in {"jobRow", "jobStore"} =>
       me.what = "best" /\ me.job \in Postings /\ me.text \in JobTexts /\ me.model \in EmbedModels
  /\ me.at \in {"jobStore", "resumes"} => me.jobVector \in JobTexts
  /\ me.at = "resumes" => me.what = "best" /\ me.model \in EmbedModels
  /\ me.at = "each" =>
       me.what = "best" /\ me.model \in EmbedModels /\ me.jobVector \in JobTexts /\ me.texts \in Shelves
  /\ me.at = "hints" => me.items \in Seq(Postings)
SeekersFit ==
  /\ seeker \in [Askers -> Locals]
  /\ \A a \in Askers : Fits(seeker[a], cvVec)

RankInv == LibraryTyped /\ IndexTyped /\ BuildFits /\ LockFits /\ SeekersFit

LEMMA RankStarts == ASSUME RankInit PROVE RankInv
<1> USE RankingAssumption DEF RankInit
<1>1. LibraryTyped
  BY DEF LibraryTyped, Listings, Shelves
<1>2. IndexTyped
  BY DEF IndexTyped
<1>3. BuildFits
  <2>1. build = Off /\ <<>> \in Seq(Postings)
    OBVIOUS
  <2>2. build \in Builds /\ build.at = "off"
    BY <2>1 DEF Builds, Off
  <2> QED
    BY <2>2 DEF BuildFits
<1>4. LockFits
  BY DEF LockFits
<1>5. SeekersFit
  <2>1. Idle \in Locals /\ Idle.at = "idle"
    <3>1. <<>> \in Seq([cv : CVs, vec : CVTexts]) /\ <<>> \in Seq(Postings \union CVs)
      OBVIOUS
    <3> QED
      BY <3>1 DEF Idle, Locals, Reasons
  <2>2. \A a \in Askers : seeker[a] = Idle
    OBVIOUS
  <2>3. seeker \in [Askers -> Locals]
    BY <2>1
  <2> QED
    BY <2>1, <2>2, <2>3 DEF SeekersFit, Fits, Resuming
<1> QED
  BY <1>1, <1>2, <1>3, <1>4, <1>5 DEF RankInv

\* Vectors of resumes are never taken away.
Kept == \A m \in EmbedModels, r \in CVs : cvVec[m][r] \in CVTexts => cvVec'[m][r] \in CVTexts

\* What fits goes on fitting.
LEMMA FitsOn ==
  ASSUME NEW me, Fits(me, cvVec), Kept
  PROVE  Fits(me, cvVec')
BY DEF Fits, Kept, Resuming

LEMMA SeekersStay ==
  ASSUME SeekersFit, Kept, seeker' = seeker
  PROVE  SeekersFit'
<1>1. \A a \in Askers : Fits(seeker[a], cvVec)
  BY DEF SeekersFit
<1>2. \A a \in Askers : Fits(seeker[a], cvVec')
  BY <1>1, FitsOn
<1> QED
  BY <1>2 DEF SeekersFit

LEMMA SeekKeeps ==
  ASSUME SeekersFit, Kept, NEW a \in Askers, NEW me, Fits(me, cvVec'), Seek(a, me)
  PROVE  SeekersFit'
<1>1. \A b \in Askers : Fits(seeker[b], cvVec) /\ seeker \in [Askers -> Locals]
  BY DEF SeekersFit
<1>2. me \in Locals /\ seeker' = [seeker EXCEPT ![a] = me]
  BY DEF Fits, Seek
<1>3. seeker' \in [Askers -> Locals] /\ \A b \in Askers : seeker'[b] = IF b = a THEN me ELSE seeker[b]
  BY <1>1, <1>2
<1>4. \A b \in Askers : Fits(seeker[b], cvVec')
  BY <1>1, FitsOn
<1>5. \A b \in Askers : Fits(seeker'[b], cvVec')
  BY <1>3, <1>4
<1> QED
  BY <1>3, <1>5 DEF SeekersFit

\* An answer fits.
LEMMA AnswerFits ==
  ASSUME NEW reason \in Reasons, NEW ids \in Seq(Postings \union CVs), NEW rows
  PROVE  Fits([Idle EXCEPT !.at = "answered", !.reason = reason, !.items = ids], rows)
<1>1. <<>> \in Seq([cv : CVs, vec : CVTexts])
  OBVIOUS
<1> QED
  BY <1>1 DEF Fits, Idle, Locals, Resuming

LEMMA AnswerKeeps ==
  ASSUME SeekersFit, cvVec' = cvVec, NEW a \in Askers, NEW reason \in Reasons, NEW ids \in Seq(Postings \union CVs),
         Answer(a, reason, ids)
  PROVE  SeekersFit'
<1>1. Kept
  BY DEF Kept
<1> QED
  BY <1>1, AnswerFits, SeekKeeps DEF Answer

\* What a search finds: rows of the ids asked for, each once, and as many as there are up to k.
Indexed(m, ids) == {j \in ids : jobVec[m][j] # Absent}
LEMMA SearchFinds ==
  ASSUME IndexTyped, NEW m \in EmbedModels, NEW query \in JobTexts \union CVTexts, NEW k \in Nat,
         NEW ids \in SUBSET Postings
  PROVE  /\ SearchJobs(m, query, k, ids) \in Seq(Indexed(m, ids))
         /\ Range(SearchJobs(m, query, k, ids)) \subseteq Indexed(m, ids)
         /\ IsInjective(SearchJobs(m, query, k, ids))
         /\ Len(SearchJobs(m, query, k, ids)) = IF Cardinality(Indexed(m, ids)) < k THEN Cardinality(Indexed(m, ids)) ELSE k
<1>1. PICK rows : rows = Indexed(m, ids)
  OBVIOUS
<1>2. PICK score : score = [j \in rows |-> Score(query, jobVec[m][j].text)]
  OBVIOUS
<1>3. rows \subseteq Nat /\ IsFiniteSet(rows)
  <2>1. rows \subseteq Postings
    BY <1>1 DEF Indexed
  <2> QED
    BY <2>1, FS_Subset, RankingAssumption
<1>4. \A j \in rows : score[j] \in Nat
  <2>1. \A j \in rows : jobVec[m][j].text \in JobTexts
    BY <1>1 DEF Indexed, IndexTyped, VectorRows
  <2> QED
    BY <1>2, <2>1, RankingAssumption
<1>5. PICK q : q = Ranked(rows, score)
  OBVIOUS
<1>6. q \in Seq(rows) /\ Len(q) = Cardinality(rows) /\ IsInjective(q) /\ Range(q) = rows
  BY <1>3, <1>4, <1>5, RankedIs
<1>7. SearchJobs(m, query, k, ids) = FirstOf(k, q)
  BY <1>1, <1>2, <1>5 DEF SearchJobs, Indexed
<1> QED
  BY <1>1, <1>6, <1>7, FirstOfIs

\* The fallback: jobs asked for, each once, as many as there are up to the limit.
LEMMA FallbackIs ==
  ASSUME NEW ids \in SUBSET Postings
  PROVE  /\ Fallback(ids) \in Seq(Postings) /\ Range(Fallback(ids)) \subseteq ids /\ IsInjective(Fallback(ids))
         /\ Len(Fallback(ids)) = IF Cardinality(ids) < Limit THEN Cardinality(ids) ELSE Limit
<1>1. ids \subseteq Nat /\ IsFiniteSet(ids) /\ \A j \in ids : MatchScore[j] \in Nat
  BY FS_Subset, RankingAssumption
<1>2. PICK q : q = Ranked(ids, MatchScore)
  OBVIOUS
<1>3. q \in Seq(ids) /\ Len(q) = Cardinality(ids) /\ IsInjective(q) /\ Range(q) = ids
  BY <1>1, <1>2, RankedIs
<1>4. q \in Seq(Postings)
  BY <1>3, SeqMonotonic
<1>5. Fallback(ids) = FirstOf(Limit, q)
  BY <1>2 DEF Fallback
<1>6. Limit \in Nat
  BY RankingAssumption
<1> QED
  BY <1>3, <1>4, <1>5, <1>6, FirstOfIs

\* A fused ranking reorders the hits.
LEMMA FuseIs ==
  ASSUME IndexTyped, NEW m \in EmbedModels, NEW text \in CVTexts, NEW ids \in SUBSET Postings,
         NEW hits \in Seq(Indexed(m, ids)), IsInjective(hits)
  PROVE  /\ Fuse(m, text, hits) \in Seq(Range(hits)) /\ Range(Fuse(m, text, hits)) = Range(hits)
         /\ IsInjective(Fuse(m, text, hits)) /\ Len(Fuse(m, text, hits)) = Len(hits)
<1> DEFINE overlap(j) == (1000 * Cardinality(SkillsOf(text) \intersect jobVec[m][j].skills))
                           \div Cardinality(jobVec[m][j].skills)
           known   == {j \in Range(hits) : jobVec[m][j].skills # {}}
           order   == [j \in known |-> overlap(j)]
           keyword == Ranked(known, order)
           sum     == [j \in Range(hits) |-> Share(Place(hits, j))
                                             + IF j \in known THEN Share(Place(keyword, j)) ELSE 0]
<1>1. /\ Range(hits) \subseteq Indexed(m, ids) /\ Range(hits) \subseteq Nat /\ IsFiniteSet(Range(hits))
      /\ Cardinality(Range(hits)) = Len(hits)
  <2>1. Range(hits) \subseteq Indexed(m, ids)
    BY RangeOfSeq
  <2>2. Range(hits) \subseteq Nat
    BY <2>1, RankingAssumption DEF Indexed
  <2> QED
    BY <2>1, <2>2, InjectiveCounts
<1>2. \A j \in Range(hits) : IsFiniteSet(jobVec[m][j].skills) /\ IsFiniteSet(SkillsOf(text))
  <2> SUFFICES ASSUME NEW j \in Range(hits) PROVE IsFiniteSet(jobVec[m][j].skills) /\ IsFiniteSet(SkillsOf(text))
    OBVIOUS
  <2>1. jobVec[m][j] \in VectorRows
    BY <1>1 DEF Indexed, IndexTyped
  <2>2. jobVec[m][j].skills \in Skillsets
    BY <2>1 DEF VectorRows
  <2> QED
    BY <2>2, RankingAssumption, FS_EmptySet DEF Skillsets
<1>3. \A j \in known : overlap(j) \in Nat
  <2> SUFFICES ASSUME NEW j \in known PROVE overlap(j) \in Nat
    OBVIOUS
  <2>1. PICK k : k = jobVec[m][j].skills
    OBVIOUS
  <2>2. IsFiniteSet(k) /\ k # {} /\ IsFiniteSet(SkillsOf(text))
    BY <1>2, <2>1
  <2>3. Cardinality(k) \in Nat \ {0}
    BY <2>2, FS_CardinalityType, FS_EmptySet
  <2>4. Cardinality(SkillsOf(text) \intersect k) \in Nat
    BY <2>2, FS_Intersection, FS_CardinalityType
  <2>5. PICK x \in Nat, y \in Nat \ {0} : x = Cardinality(SkillsOf(text) \intersect k) /\ y = Cardinality(k)
    BY <2>3, <2>4
  <2>6. (1000 * x) \div y \in Nat
    OBVIOUS
  <2> QED
    BY <2>1, <2>5, <2>6
<1>4. known \subseteq Nat /\ IsFiniteSet(known) /\ \A j \in known : order[j] \in Nat
  <2>1. known \subseteq Range(hits)
    OBVIOUS
  <2>2. \A j \in known : order[j] = overlap(j)
    OBVIOUS
  <2> HIDE DEF known, overlap, order
  <2> QED
    BY <1>1, <1>3, <2>1, <2>2, FS_Subset
<1>5. keyword \in Seq(known) /\ Range(keyword) = known
  <2> HIDE DEF known, overlap, order
  <2> QED
    BY <1>4, RankedIs
<1>6. \A q : \A S : q \in Seq(S) => \A j \in Range(q) : Share(Place(q, j)) \in Nat
  <2> SUFFICES ASSUME NEW q, NEW S, q \in Seq(S), NEW j \in Range(q) PROVE Share(Place(q, j)) \in Nat
    OBVIOUS
  <2>1. \E p \in 1 .. Len(q) : q[p] = j
    BY DEF Range
  <2>2. Place(q, j) \in 1 .. Len(q)
    BY <2>1 DEF Place
  <2>3. PICK p \in Nat : p = Place(q, j)
    BY <2>2
  <2>4. 1000000 \div (60 + p) \in Nat
    OBVIOUS
  <2> QED
    BY <2>3, <2>4 DEF Share
<1>7. \A j \in Range(hits) : sum[j] \in Nat
  <2> SUFFICES ASSUME NEW j \in Range(hits) PROVE sum[j] \in Nat
    OBVIOUS
  <2>1. Share(Place(hits, j)) \in Nat
    BY <1>6
  <2>2. j \in known => Share(Place(keyword, j)) \in Nat
    <3> HIDE DEF known, keyword
    <3> QED
      BY <1>5, <1>6
  <2>3. sum[j] = Share(Place(hits, j)) + IF j \in known THEN Share(Place(keyword, j)) ELSE 0
    OBVIOUS
  <2> HIDE DEF known, keyword, sum
  <2> QED
    BY <2>1, <2>2, <2>3
<1>8. Fuse(m, text, hits) = IF SkillsOf(text) = {} \/ known = {} THEN hits ELSE Ranked(Range(hits), sum)
  BY DEF Fuse
<1> HIDE DEF known, keyword, sum
<1>9. /\ Ranked(Range(hits), sum) \in Seq(Range(hits)) /\ Range(Ranked(Range(hits), sum)) = Range(hits)
      /\ IsInjective(Ranked(Range(hits), sum)) /\ Len(Ranked(Range(hits), sum)) = Len(hits)
  BY <1>1, <1>7, RankedIs
<1>10. hits \in Seq(Range(hits))
  BY SeqOfRange
<1> QED
  BY <1>8, <1>9, <1>10

\* The rebuild takes the lock as it should, or waits for itself.
LEMMA RebuildKeep ==
  ASSUME RankInv, NEW q \in Rebuilders, StartRebuild(q) \/ IndexStatus(q) \/ Snapshot(q)
  PROVE  RankInv'
<1> USE DEF RankInv
<1>1. UNCHANGED <<library_, index_, seeker>>
  BY DEF StartRebuild, IndexStatus, Snapshot
<1>2. LibraryTyped' /\ IndexTyped'
  BY <1>1 DEF library_, index_, LibraryTyped, IndexTyped
<1>3. SeekersFit'
  <2>1. Kept /\ seeker' = seeker
    BY <1>1 DEF Kept, index_
  <2> QED
    BY <2>1, SeekersStay
<1>4. LockFits'
  BY RankingAssumption DEF LockFits, StartRebuild, IndexStatus, Snapshot
<1>5. BuildFits'
  <2>1. CASE UNCHANGED <<building, build>>
    BY <2>1 DEF BuildFits
  <2>2. CASE /\ ~ building.running /\ building' = [running |-> TRUE, embedded |-> 0, error |-> FALSE]
             /\ build' = [Off EXCEPT !.at = "list"]
    <3>1. <<>> \in Seq(Postings)
      OBVIOUS
    <3>2. build' \in Builds /\ build'.at = "list" /\ build'.chunk = <<>>
      BY <2>2, <3>1 DEF Builds, Off
    <3> QED
      BY <2>2, <3>2 DEF BuildFits
  <2> QED
    BY <2>1, <2>2 DEF StartRebuild, IndexStatus, Snapshot
<1> QED
  BY <1>2, <1>3, <1>4, <1>5

\* A row that is written is a row, with the skills of its text or none.
LEMMA UpsertKeeps ==
  ASSUME IndexTyped, NEW m \in EmbedModels, NEW j \in Postings, NEW text \in JobTexts, NEW skills \in Skillsets,
         UpsertJob(m, j, text, skills), cvVec' = cvVec
  PROVE  IndexTyped'
<1>1. [text |-> text, skills |-> skills] \in VectorRows
  BY DEF VectorRows
<1> QED
  BY <1>1 DEF IndexTyped, UpsertJob

LEMMA BuildsKeep ==
  ASSUME RankInv, BuildList \/ BuildShas \/ BuildEmbed \/ BuildWrite \/ BuildProgress \/ BuildEnds
  PROVE  RankInv'
<1> USE DEF RankInv
<1>1. UNCHANGED <<jdOf, cvOf, embedder, edits, cvVec, holder, rebuilds, seeker>>
  BY DEF BuildList, BuildShas, BuildEmbed, BuildWrite, BuildProgress, BuildEnds, BuildStep, library_, index_
<1>2. LibraryTyped' /\ LockFits'
  BY <1>1 DEF LibraryTyped, LockFits
<1>3. SeekersFit'
  <2>1. Kept /\ seeker' = seeker
    BY <1>1 DEF Kept
  <2> QED
    BY <2>1, SeekersStay
<1>4. IndexTyped'
  <2>1. CASE BuildWrite
    <3>1. PICK j : j = Head(build.chunk)
      OBVIOUS
    <3>2. build.chunk \in Seq(Postings) /\ build.chunk # <<>>
      BY <2>1 DEF BuildWrite, BuildFits, Builds
    <3>3. j \in Postings /\ build.texts[j] \in JobTexts
      <4>1. 1 \in DOMAIN build.chunk /\ j = build.chunk[1]
        BY <3>1, <3>2
      <4> QED
        BY <2>1, <3>2, <4>1 DEF BuildWrite, BuildFits
    <3>4. build.model \in EmbedModels /\ SkillsOf(build.texts[j]) \in Skillsets
      BY <2>1, <3>3 DEF BuildWrite, BuildFits, Skillsets
    <3>5. UpsertJob(build.model, j, build.texts[j], SkillsOf(build.texts[j]))
      BY <2>1, <3>1 DEF BuildWrite
    <3> QED
      BY <1>1, <3>3, <3>4, <3>5, UpsertKeeps
  <2>2. CASE jobVec' = jobVec
    BY <1>1, <2>2 DEF IndexTyped
  <2> QED
    BY <2>1, <2>2 DEF BuildList, BuildShas, BuildEmbed, BuildProgress, BuildEnds, index_
<1>x. <<>> \in Seq(Postings)
  OBVIOUS
<1>5. CASE BuildList
  <2>1. build.at = "list" /\ building' = building /\ build \in Builds /\ build.chunk = <<>> /\ jdOf \in Listings /\ embedder \in EmbedModels
    BY <1>5 DEF BuildList, BuildStep, BuildFits, LibraryTyped
  <2>2. CASE build' = [build EXCEPT !.at = "shas", !.model = embedder, !.texts = jdOf]
    <3>1. build' \in Builds /\ build'.at = "shas" /\ build'.model = embedder /\ build'.texts = jdOf /\ build'.chunk = <<>>
      BY <2>1, <2>2 DEF Builds
    <3> QED
      BY <1>2, <1>3, <1>4, <2>1, <3>1 DEF BuildFits
  <2>3. CASE BuildFails
    <3>1. build' \in Builds /\ build'.at = "failed"
      BY <2>3, <1>x DEF BuildFails, Builds, Off
    <3> QED
      BY <1>2, <1>3, <1>4, <2>1, <3>1 DEF BuildFits
  <2> QED
    BY <1>5, <2>2, <2>3 DEF BuildList
<1>6. CASE BuildShas
  <2>1. build.at = "shas" /\ build.chunk = <<>> /\ building' = building /\ build \in Builds /\ build.model \in EmbedModels /\ build.texts \in Listings
    BY <1>6 DEF BuildShas, BuildStep, BuildFits
  <2>2. PICK todo : /\ todo \subseteq {j \in Postings : build.texts[j] \notin {Blank, Absent}}
                    /\ build' = [build EXCEPT !.at = "embed", !.todo = InOrder(todo)]
    BY <1>6 DEF BuildShas
  <2>3. \A j \in todo : j \in Postings /\ build.texts[j] \in JobTexts
    BY <2>1, <2>2 DEF Listings
  <2>4. PICK q : q = InOrder(todo)
    OBVIOUS
  <2>5. q \in Seq(todo)
    <3>1. todo \subseteq Postings
      BY <2>3
    <3>2. todo \subseteq Nat /\ IsFiniteSet(todo)
      BY <3>1, FS_Subset, RankingAssumption
    <3> QED
      BY <2>4, <3>2, InOrderIs
  <2>6. q \in Seq(Postings) /\ \A n \in DOMAIN q : q[n] \in todo
    <3>1. todo \subseteq Postings
      BY <2>3
    <3> QED
      BY <2>5, <3>1, SeqMonotonic
  <2>7. build' \in Builds /\ build'.at = "embed" /\ build'.model = build.model /\ build'.texts = build.texts
        /\ build'.todo = q /\ build'.chunk = <<>>
    BY <2>1, <2>2, <2>4, <2>6 DEF Builds
  <2> QED
    BY <1>2, <1>3, <1>4, <2>1, <2>3, <2>6, <2>7 DEF BuildFits
<1>7. CASE BuildEmbed
  <2>1. /\ build.at = "embed" /\ building' = building /\ build \in Builds /\ build.model \in EmbedModels
        /\ build.texts \in Listings /\ build.todo \in Seq(Postings) /\ build.todo # <<>>
        /\ \A n \in DOMAIN build.todo : build.texts[build.todo[n]] \in JobTexts
    BY <1>7 DEF BuildEmbed, BuildStep, BuildFits, Builds
  <2>2. CASE BuildFails
    <3>1. build' \in Builds /\ build'.at = "failed"
      BY <2>2, <1>x DEF BuildFails, Builds, Off
    <3> QED
      BY <1>2, <1>3, <1>4, <2>1, <3>1 DEF BuildFits
  <2>3. CASE ~ BuildFails
    <3>1. PICK n : /\ n = IF Len(build.todo) < ChunkSize THEN Len(build.todo) ELSE ChunkSize
                   /\ build' = [build EXCEPT !.at = "write", !.chunk = SubSeq(build.todo, 1, n),
                                             !.todo = SubSeq(@, n + 1, Len(@))]
      BY <1>7, <2>3 DEF BuildEmbed
    <3>2. PICK t : t = build.todo
      OBVIOUS
    <3>3. n \in 1 .. Len(t) /\ n \in Nat /\ Len(t) \in Nat
      BY <2>1, <3>1, <3>2, RankingAssumption
    <3>4. PICK c, r : c = SubSeq(t, 1, n) /\ r = SubSeq(t, n + 1, Len(t))
      OBVIOUS
    <3>5. c \in Seq(Postings) /\ c # <<>> /\ \A k \in DOMAIN c : c[k] \in Postings /\ build.texts[c[k]] \in JobTexts
      <4>1. t \in Seq(Postings) /\ \A k \in 1 .. Len(t) : t[k] \in Postings /\ build.texts[t[k]] \in JobTexts
        BY <2>1, <3>2
      <4>2. \A k \in 1 .. n : t[k] \in Postings
        BY <3>3, <4>1
      <4>3. c \in Seq(Postings) /\ Len(c) = (IF 1 <= n THEN n - 1 + 1 ELSE 0) /\ \A k \in 1 .. n - 1 + 1 : c[k] = t[1 + k - 1]
        BY <3>3, <3>4, <4>2, SubSeqProperties
      <4>4. Len(c) = n /\ \A k \in 1 .. n : c[k] = t[k] /\ k \in 1 .. Len(t)
        BY <3>3, <4>3
      <4> QED
        BY <3>3, <4>1, <4>3, <4>4
    <3>6. r \in Seq(Postings) /\ \A k \in DOMAIN r : r[k] \in Postings /\ build.texts[r[k]] \in JobTexts
      <4>1. t \in Seq(Postings) /\ \A k \in 1 .. Len(t) : t[k] \in Postings /\ build.texts[t[k]] \in JobTexts
        BY <2>1, <3>2
      <4>2. \A k \in n + 1 .. Len(t) : t[k] \in Postings
        BY <3>3, <4>1
      <4>3. r \in Seq(Postings) /\ Len(r) = (IF n + 1 <= Len(t) THEN Len(t) - (n + 1) + 1 ELSE 0)
            /\ \A k \in 1 .. Len(t) - (n + 1) + 1 : r[k] = t[n + 1 + k - 1]
        <5>1. n + 1 \in Int /\ Len(t) \in Int
          BY <3>3
        <5> QED
          BY <3>4, <4>2, <5>1, SubSeqProperties
      <4>4. Len(r) = Len(t) - n /\ \A k \in 1 .. Len(r) : n + k \in 1 .. Len(t) /\ r[k] = t[n + k]
        BY <3>3, <4>3
      <4> QED
        BY <4>1, <4>3, <4>4
    <3>7. build' \in Builds /\ build'.at = "write" /\ build'.model = build.model /\ build'.texts = build.texts
          /\ build'.todo = r /\ build'.chunk = c
      BY <2>1, <3>1, <3>2, <3>4, <3>5, <3>6 DEF Builds
    <3> QED
      BY <1>2, <1>3, <1>4, <2>1, <3>5, <3>6, <3>7 DEF BuildFits
  <2> QED
    BY <2>2, <2>3
<1>8. CASE BuildWrite
  <2>1. /\ build.at = "write" /\ building' = building /\ build \in Builds /\ build.model \in EmbedModels
        /\ build.texts \in Listings /\ build.chunk \in Seq(Postings) /\ build.chunk # <<>> /\ build.done \in Nat
        /\ \A n \in DOMAIN build.todo : build.texts[build.todo[n]] \in JobTexts
        /\ \A n \in DOMAIN build.chunk : build.texts[build.chunk[n]] \in JobTexts
    BY <1>8 DEF BuildWrite, BuildStep, BuildFits, Builds
  <2>2. PICK c : c = build.chunk
    OBVIOUS
  <2>3. PICK t : t = Tail(c)
    OBVIOUS
  <2>4. t \in Seq(Postings) /\ Len(t) = Len(c) - 1 /\ \A k \in DOMAIN t : k + 1 \in DOMAIN c /\ t[k] = c[k + 1]
    <3>1. t \in Seq(Postings) /\ Len(t) = Len(c) - 1 /\ \A k \in 1 .. Len(t) : t[k] = c[k + 1]
      BY <2>1, <2>2, <2>3, HeadTailProperties
    <3>2. Len(c) \in Nat /\ DOMAIN c = 1 .. Len(c) /\ DOMAIN t = 1 .. Len(t)
      BY <2>1, <2>2, <3>1
    <3> QED
      BY <3>1, <3>2
  <2>5. Len(c) # 1 => t # <<>>
    <3>1. Len(c) \in Nat \ {0} /\ Len(<<>>) = 0
      BY <2>1, <2>2, EmptySeq
    <3>2. Len(c) # 1 => Len(t) # 0
      BY <2>4, <3>1
    <3> QED
      BY <3>1, <3>2
  <2>6. build' = [build EXCEPT !.chunk = Tail(@), !.done = @ + 1,
                               !.at = IF Len(build.chunk) = 1 THEN "progress" ELSE "write"]
    BY <1>8 DEF BuildWrite
  <2>7. build' \in Builds /\ build'.at = (IF Len(c) = 1 THEN "progress" ELSE "write")
        /\ build'.model = build.model /\ build'.texts = build.texts /\ build'.todo = build.todo /\ build'.chunk = t
    <3>1. PICK place \in {"progress", "write"} : place = IF Len(c) = 1 THEN "progress" ELSE "write"
      OBVIOUS
    <3>2. build' = [build EXCEPT !.chunk = t, !.done = build.done + 1, !.at = place]
      BY <2>1, <2>2, <2>3, <2>6, <3>1 DEF Builds
    <3>3. PICK n \in Nat : n = build.done + 1
      BY <2>1
    <3>4. build \in Builds /\ t \in Seq(Postings) /\ build' = [build EXCEPT !.chunk = t, !.done = n, !.at = place]
      BY <2>1, <2>4, <3>2, <3>3
    <3>5. build' \in Builds /\ build'.at = place
      BY <3>4 DEF Builds
    <3>6. build'.model = build.model /\ build'.texts = build.texts /\ build'.todo = build.todo /\ build'.chunk = t
      BY <3>4 DEF Builds
    <3> QED
      BY <3>1, <3>5, <3>6
  <2>8. \A k \in DOMAIN t : build.texts[t[k]] \in JobTexts
    BY <2>1, <2>2, <2>4
  <2>9. building.running /\ building \in [running : BOOLEAN, embedded : Nat, error : BOOLEAN]
    BY <2>1 DEF BuildFits
  <2>10. BuildFits'
    BY <2>1, <2>5, <2>7, <2>8, <2>9 DEF BuildFits
  <2> QED
    BY <1>2, <1>3, <1>4, <2>10
<1>9. CASE BuildProgress
  <2>1. build.at = "progress" /\ build' = [build EXCEPT !.at = "embed"] /\ building' = [building EXCEPT !.embedded = build.done]
    BY <1>9 DEF BuildProgress
  <2>2. build' \in Builds /\ build'.at = "embed" /\ build'.model = build.model /\ build'.texts = build.texts
        /\ build'.todo = build.todo /\ build'.chunk = build.chunk /\ build.done \in Nat
    BY <2>1 DEF BuildFits, Builds
  <2> QED
    BY <1>2, <1>3, <1>4, <2>1, <2>2 DEF BuildFits
<1>10. CASE BuildEnds
  <2>1. build' = Off /\ building' = IF build.at = "failed" THEN [building EXCEPT !.running = FALSE, !.error = TRUE]
                                    ELSE [building EXCEPT !.running = FALSE, !.embedded = build.done]
    BY <1>10 DEF BuildEnds
  <2>2. build' \in Builds /\ build'.at = "off"
    BY <2>1, <1>x DEF Builds, Off
  <2>3. build.done \in Nat /\ building \in [running : BOOLEAN, embedded : Nat, error : BOOLEAN]
    BY DEF BuildFits, Builds
  <2>4. building' \in [running : BOOLEAN, embedded : Nat, error : BOOLEAN] /\ ~ building'.running
    BY <2>1, <2>3
  <2> QED
    BY <1>2, <1>3, <1>4, <2>2, <2>4 DEF BuildFits
<1> QED
  BY <1>5, <1>6, <1>7, <1>8, <1>9, <1>10

\* A step that only reads leaves the rest as it is.
LEMMA ReadsKeep ==
  ASSUME RankInv, Reads
  PROVE  LibraryTyped' /\ IndexTyped' /\ BuildFits' /\ LockFits' /\ cvVec' = cvVec /\ Kept
BY DEF RankInv, Reads, library_, index_, buildVars, LibraryTyped, IndexTyped, BuildFits, LockFits, Kept

LEMMA EmptyItems == <<>> \in Seq(Postings \union CVs)
OBVIOUS

\* Answers with a ranking of jobs.
LEMMA JobItems == ASSUME NEW q \in Seq(Postings) PROVE q \in Seq(Postings \union CVs)
<1>1. Postings \subseteq Postings \union CVs
  OBVIOUS
<1> QED
  BY <1>1, SeqMonotonic

LEMMA RecommendKeep ==
  ASSUME RankInv, NEW a \in Askers, RecommendReads(a) \/ RecommendLists(a) \/ RecommendSearches(a)
  PROVE  RankInv'
<1>1. Reads
  BY DEF RecommendReads, RecommendLists, RecommendSearches
<1>2. LibraryTyped' /\ IndexTyped' /\ BuildFits' /\ LockFits' /\ cvVec' = cvVec /\ Kept
  BY <1>1, ReadsKeep
<1>3. SeekersFit /\ LibraryTyped /\ Fits(seeker[a], cvVec)
  BY DEF RankInv, SeekersFit
<1>4. SUFFICES SeekersFit'
  BY <1>2 DEF RankInv
<1>5. CASE RecommendReads(a)
  <2>1. PICK r \in CVs, sent \in CVTexts \union {Blank} :
          IF ResumeText(r, sent) = Blank THEN Answer(a, "resume_text_missing", <<>>)
          ELSE Seek(a, [Idle EXCEPT !.at = "list", !.what = "recommend", !.cv = r, !.text = ResumeText(r, sent)])
    BY <1>5 DEF RecommendReads
  <2>2. CASE Answer(a, "resume_text_missing", <<>>)
    <3>1. "resume_text_missing" \in Reasons
      BY DEF Reasons
    <3> QED
      BY <1>2, <1>3, <2>2, <3>1, EmptyItems, AnswerKeeps
  <2>3. CASE /\ ResumeText(r, sent) # Blank
             /\ Seek(a, [Idle EXCEPT !.at = "list", !.what = "recommend", !.cv = r, !.text = ResumeText(r, sent)])
    <3>1. PICK text : text = ResumeText(r, sent)
      OBVIOUS
    <3>2. text \in CVTexts
      BY <1>3, <2>3, <3>1 DEF ResumeText, LibraryTyped, Shelves
    <3>3. Fits([Idle EXCEPT !.at = "list", !.what = "recommend", !.cv = r, !.text = text], cvVec')
      <4>1. <<>> \in Seq([cv : CVs, vec : CVTexts])
        OBVIOUS
      <4>2. [Idle EXCEPT !.at = "list", !.what = "recommend", !.cv = r, !.text = text] \in Locals
        BY <3>2, <4>1, EmptyItems DEF Idle, Locals, Reasons
      <4> QED
        BY <3>2, <4>2 DEF Fits, Idle, Resuming
    <3> QED
      BY <1>2, <1>3, <2>3, <3>1, <3>3, SeekKeeps
  <2> QED
    BY <2>1, <2>2, <2>3
<1>6. CASE RecommendLists(a)
  <2>1. PICK ids \in SUBSET Postings :
          \/ Answer(a, "none", <<>>)
          \/ Answer(a, "embedder_unavailable", Fallback(ids))
          \/ Seek(a, [seeker[a] EXCEPT !.at = "sha", !.ids = ids, !.model = embedder])
    BY <1>6 DEF RecommendLists
  <2>2. "none" \in Reasons /\ "embedder_unavailable" \in Reasons
    BY DEF Reasons
  <2>3. CASE Answer(a, "none", <<>>)
    BY <1>2, <1>3, <2>2, <2>3, EmptyItems, AnswerKeeps
  <2>4. CASE Answer(a, "embedder_unavailable", Fallback(ids))
    <3>1. Fallback(ids) \in Seq(Postings \union CVs)
      BY FallbackIs, JobItems
    <3> QED
      BY <1>2, <1>3, <2>2, <2>4, <3>1, AnswerKeeps
  <2>5. CASE Seek(a, [seeker[a] EXCEPT !.at = "sha", !.ids = ids, !.model = embedder])
    <3>1. PICK me : me = seeker[a]
      OBVIOUS
    <3>2. me \in Locals /\ me.what = "recommend" /\ me.cv \in CVs /\ me.text \in CVTexts /\ embedder \in EmbedModels
      BY <1>3, <1>6, <3>1 DEF Fits, RecommendLists, At, LibraryTyped
    <3>3. PICK new : new = [me EXCEPT !.at = "sha", !.ids = ids, !.model = embedder]
      OBVIOUS
    <3>4. new \in Locals /\ new.at = "sha" /\ new.what = "recommend" /\ new.cv = me.cv /\ new.text = me.text /\ new.model = embedder
      BY <3>2, <3>3 DEF Locals
    <3>5. Fits(new, cvVec')
      BY <3>2, <3>4 DEF Fits, Resuming
    <3> QED
      BY <1>2, <1>3, <2>5, <3>1, <3>3, <3>5, SeekKeeps
  <2> QED
    BY <2>1, <2>3, <2>4, <2>5
<1>7. CASE RecommendSearches(a)
  <2>1. PICK me : me = seeker[a]
    OBVIOUS
  <2>2. me.model \in EmbedModels /\ me.query \in CVTexts /\ me.text \in CVTexts /\ me.ids \in SUBSET Postings
    BY <1>3, <1>7, <2>1 DEF RecommendSearches, At, Fits, Locals
  <2>3. PICK hits : hits = SearchJobs(me.model, me.query, Limit, me.ids)
    OBVIOUS
  <2>4. "none" \in Reasons /\ "index_empty" \in Reasons /\ Limit \in Nat /\ IndexTyped
    BY RankingAssumption DEF Reasons, RankInv
  <2>5. hits \in Seq(Indexed(me.model, me.ids)) /\ IsInjective(hits)
    BY <2>2, <2>3, <2>4, SearchFinds
  <2>6. \/ Answer(a, "index_empty", Fallback(me.ids))
        \/ \E order \in {hits, Fuse(me.model, me.text, hits)} : Answer(a, "none", Where(order, me.ids))
    BY <1>7, <2>1, <2>3 DEF RecommendSearches
  <2>7. CASE Answer(a, "index_empty", Fallback(me.ids))
    <3>1. Fallback(me.ids) \in Seq(Postings \union CVs)
      BY <2>2, FallbackIs, JobItems
    <3> QED
      BY <1>2, <1>3, <2>4, <2>7, <3>1, AnswerKeeps
  <2>8. CASE \E order \in {hits, Fuse(me.model, me.text, hits)} : Answer(a, "none", Where(order, me.ids))
    <3>1. PICK order \in {hits, Fuse(me.model, me.text, hits)} : Answer(a, "none", Where(order, me.ids))
      BY <2>8
    <3>2. hits \in Seq(Postings) /\ Range(hits) \subseteq Postings
      <4>1. Indexed(me.model, me.ids) \subseteq Postings
        BY <2>2 DEF Indexed
      <4> QED
        BY <2>5, <4>1, SeqMonotonic, RangeOfSeq
    <3>3. Fuse(me.model, me.text, hits) \in Seq(Range(hits))
      BY <2>2, <2>4, <2>5, FuseIs
    <3>4. order \in Seq(Postings)
      BY <3>1, <3>2, <3>3, SeqMonotonic
    <3>5. Where(order, me.ids) \in Seq(Postings)
      BY <3>4, WhereIn
    <3>6. Where(order, me.ids) \in Seq(Postings \union CVs)
      BY <3>5, JobItems
    <3> QED
      BY <1>2, <1>3, <2>4, <3>1, <3>6, AnswerKeeps
  <2> QED
    BY <2>6, <2>7, <2>8
<1> QED
  BY <1>5, <1>6, <1>7

LEMMA BestKeep ==
  ASSUME RankInv, NEW a \in Askers, BestReads(a) \/ BestJobRow(a) \/ BestLists(a)
  PROVE  RankInv'
<1>1. Reads
  BY DEF BestReads, BestJobRow, BestLists
<1>2. LibraryTyped' /\ IndexTyped' /\ BuildFits' /\ LockFits' /\ cvVec' = cvVec /\ Kept
  BY <1>1, ReadsKeep
<1>3. SeekersFit /\ LibraryTyped /\ IndexTyped /\ Fits(seeker[a], cvVec)
  BY DEF RankInv, SeekersFit
<1>4. SUFFICES SeekersFit'
  BY <1>2 DEF RankInv
<1>5. {"embedder_unavailable", "embedder_failed", "job_text_missing"} \subseteq Reasons
  BY DEF Reasons
<1>6. PICK me : me = seeker[a]
  OBVIOUS
<1>7. CASE BestReads(a)
  <2>1. PICK j \in Postings :
          \/ Answer(a, "embedder_unavailable", <<>>) \/ Answer(a, "job_text_missing", <<>>)
          \/ /\ jdOf[j] # Blank /\ jdOf[j] # Absent
             /\ Seek(a, [Idle EXCEPT !.at = "jobRow", !.what = "best", !.job = j, !.text = jdOf[j], !.model = embedder])
    BY <1>7 DEF BestReads
  <2>2. CASE Answer(a, "embedder_unavailable", <<>>) \/ Answer(a, "job_text_missing", <<>>)
    BY <1>2, <1>3, <1>5, <2>2, EmptyItems, AnswerKeeps
  <2>3. CASE /\ jdOf[j] # Blank /\ jdOf[j] # Absent
             /\ Seek(a, [Idle EXCEPT !.at = "jobRow", !.what = "best", !.job = j, !.text = jdOf[j], !.model = embedder])
    <3>1. PICK text : text = jdOf[j]
      OBVIOUS
    <3>2. text \in JobTexts /\ embedder \in EmbedModels
      BY <1>3, <2>3, <3>1 DEF LibraryTyped, Listings
    <3>3. PICK new : new = [Idle EXCEPT !.at = "jobRow", !.what = "best", !.job = j, !.text = text, !.model = embedder]
      OBVIOUS
    <3>4. <<>> \in Seq([cv : CVs, vec : CVTexts])
      OBVIOUS
    <3>5. /\ new \in Locals /\ new.at = "jobRow" /\ new.what = "best" /\ new.job = j /\ new.text = text
          /\ new.model = embedder
      BY <3>2, <3>3, <3>4, EmptyItems DEF Idle, Locals, Reasons
    <3>6. Fits(new, cvVec')
      BY <3>2, <3>5 DEF Fits, Resuming
    <3> QED
      BY <1>2, <1>3, <2>3, <3>1, <3>3, <3>6, SeekKeeps
  <2> QED
    BY <2>1, <2>2, <2>3
<1>8. CASE BestJobRow(a)
  <2>1. me \in Locals /\ me.at = "jobRow" /\ me.what = "best" /\ me.job \in Postings /\ me.text \in JobTexts /\ me.model \in EmbedModels
    BY <1>3, <1>6, <1>8 DEF BestJobRow, At, Fits
  <2>2. PICK row : row = jobVec[me.model][me.job]
    OBVIOUS
  <2>3. \/ row # Absent /\ Seek(a, [me EXCEPT !.at = "resumes", !.jobVector = row.text])
        \/ Answer(a, "embedder_failed", <<>>)
        \/ Seek(a, [me EXCEPT !.at = "jobStore", !.jobVector = me.text])
    BY <1>6, <1>8, <2>2 DEF BestJobRow
  <2>4. CASE row # Absent /\ Seek(a, [me EXCEPT !.at = "resumes", !.jobVector = row.text])
    <3>1. row.text \in JobTexts
      BY <1>3, <2>1, <2>2, <2>4 DEF IndexTyped, VectorRows
    <3>2. PICK new : new = [me EXCEPT !.at = "resumes", !.jobVector = row.text]
      OBVIOUS
    <3>3. new \in Locals /\ new.at = "resumes" /\ new.what = "best" /\ new.model = me.model /\ new.jobVector \in JobTexts
      BY <2>1, <3>1, <3>2 DEF Locals
    <3>4. Fits(new, cvVec')
      BY <2>1, <3>3 DEF Fits, Resuming
    <3> QED
      BY <1>2, <1>3, <2>4, <3>2, <3>4, SeekKeeps
  <2>5. CASE Answer(a, "embedder_failed", <<>>)
    BY <1>2, <1>3, <1>5, <2>5, EmptyItems, AnswerKeeps
  <2>6. CASE Seek(a, [me EXCEPT !.at = "jobStore", !.jobVector = me.text])
    <3>2. PICK new : new = [me EXCEPT !.at = "jobStore", !.jobVector = me.text]
      OBVIOUS
    <3>3. /\ new \in Locals /\ new.at = "jobStore" /\ new.what = "best" /\ new.model = me.model /\ new.jobVector \in JobTexts
          /\ new.job = me.job /\ new.text = me.text
      BY <2>1, <3>2 DEF Locals
    <3>4. Fits(new, cvVec')
      BY <2>1, <3>3 DEF Fits, Resuming
    <3> QED
      BY <1>2, <1>3, <2>6, <3>2, <3>4, SeekKeeps
  <2> QED
    BY <2>3, <2>4, <2>5, <2>6
<1>9. CASE BestLists(a)
  <2>1. me \in Locals /\ me.at = "resumes" /\ me.what = "best" /\ me.model \in EmbedModels /\ me.jobVector \in JobTexts
    BY <1>3, <1>6, <1>9 DEF BestLists, At, Fits
  <2>2. PICK ids \in SUBSET (CVs \ {Inline}) : Seek(a, [me EXCEPT !.at = "each", !.todo = ids, !.texts = cvOf])
    BY <1>6, <1>9 DEF BestLists
  <2>3. PICK new : new = [me EXCEPT !.at = "each", !.todo = ids, !.texts = cvOf]
    OBVIOUS
  <2>4. cvOf \in Shelves
    BY <1>3 DEF LibraryTyped
  <2>5. new \in Locals /\ new.at = "each" /\ new.what = "best" /\ new.model = me.model /\ new.jobVector = me.jobVector /\ new.texts = cvOf
    BY <2>1, <2>3, <2>4 DEF Locals
  <2>6. Fits(new, cvVec')
    BY <2>1, <2>4, <2>5 DEF Fits, Resuming
  <2> QED
    BY <1>2, <1>3, <2>2, <2>3, <2>6, SeekKeeps
<1> QED
  BY <1>7, <1>8, <1>9

\* The resumes suited to a job are resumes.
LEMMA SuitedIs ==
  ASSUME NEW got \in Seq([cv : CVs, vec : CVTexts]), NEW text \in JobTexts
  PROVE  Suited(got, text) \in Seq(Postings \union CVs)
<1> DEFINE heard == {got[i].cv : i \in DOMAIN got}
           marks == [r \in heard |-> Score((CHOOSE i \in Range(got) : i.cv = r).vec, text)]
<1>1. Suited(got, text) = FirstOf(Limit, Ranked(heard, marks))
  BY DEF Suited
<1>2. PICK ids : ids = heard
  OBVIOUS
<1>3. PICK score : score = marks
  OBVIOUS
<1>4. Range(got) \subseteq [cv : CVs, vec : CVTexts]
  BY RangeOfSeq
<1>5. ids \subseteq CVs /\ \A r \in ids : \E i \in Range(got) : i.cv = r
  BY <1>2, <1>4 DEF Range
<1>6. \A r \in ids : score[r] \in Nat
  <2> SUFFICES ASSUME NEW r \in ids PROVE score[r] \in Nat
    OBVIOUS
  <2>1. PICK i : i = CHOOSE x \in Range(got) : x.cv = r
    OBVIOUS
  <2>2. i \in Range(got)
    BY <1>5, <2>1
  <2>3. i.vec \in CVTexts
    BY <1>4, <2>2
  <2>4. Score(i.vec, text) \in Nat
    BY <2>3, RankingAssumption
  <2> QED
    BY <1>2, <1>3, <2>1, <2>4
<1>7. ids \subseteq Nat /\ IsFiniteSet(ids)
  BY <1>5, FS_Subset, RankingAssumption
<1>8. PICK q : q = Ranked(ids, score)
  OBVIOUS
<1>9. q \in Seq(ids)
  BY <1>6, <1>7, <1>8, RankedIs
<1>10. q \in Seq(Postings \union CVs)
  <2>1. ids \subseteq Postings \union CVs
    BY <1>5
  <2> QED
    BY <1>9, <2>1, SeqMonotonic
<1>11. FirstOf(Limit, q) \in Seq(Postings \union CVs)
  BY <1>10, FirstOfIs, RankingAssumption
<1> HIDE DEF heard, marks
<1> QED
  BY <1>1, <1>2, <1>3, <1>8, <1>11

LEMMA NextResumeKeep ==
  ASSUME RankInv, NEW a \in Askers, BestNext(a)
  PROVE  RankInv'
<1>1. Reads
  BY DEF BestNext
<1>2. LibraryTyped' /\ IndexTyped' /\ BuildFits' /\ LockFits' /\ cvVec' = cvVec /\ Kept
  BY <1>1, ReadsKeep
<1>3. SeekersFit /\ Fits(seeker[a], cvVec)
  BY DEF RankInv, SeekersFit
<1>4. SUFFICES SeekersFit'
  BY <1>2 DEF RankInv
<1>5. PICK me : me = seeker[a]
  OBVIOUS
<1>6. /\ me \in Locals /\ me.at = "each" /\ me.what = "best" /\ me.model \in EmbedModels /\ me.jobVector \in JobTexts
      /\ me.texts \in Shelves /\ me.todo \subseteq CVs \ {Inline} /\ me.got \in Seq([cv : CVs, vec : CVTexts])
  <2>1. me \in Locals /\ me.at = "each" /\ Fits(me, cvVec)
    BY <1>3, <1>5 DEF BestNext, At, Fits
  <2> QED
    BY <2>1 DEF Fits, Locals
<1>7. CASE me.todo # {}
  <2>1. PICK r : /\ r = CHOOSE x \in me.todo : \A o \in me.todo : x <= o
                 /\ Seek(a, [me EXCEPT !.at = "sha", !.cv = r, !.text = me.texts[r], !.todo = @ \ {r}])
    BY <1>5, <1>7 DEF BestNext
  <2>2. r \in me.todo
    <3>1. me.todo \subseteq Nat
      BY <1>6, RankingAssumption
    <3>2. Min(me.todo) \in me.todo
      BY <1>7, <3>1, LeastIsIn
    <3> QED
      BY <2>1, <3>2 DEF Min
  <2>3. PICK text : text = me.texts[r]
    OBVIOUS
  <2>4. r \in CVs /\ text \in CVTexts
    BY <1>6, <2>2, <2>3 DEF Shelves
  <2>5. PICK new : new = [me EXCEPT !.at = "sha", !.cv = r, !.text = text, !.todo = me.todo \ {r}]
    OBVIOUS
  <2>6. /\ new \in Locals /\ new.at = "sha" /\ new.what = "best" /\ new.cv = r /\ new.text = text /\ new.model = me.model
        /\ new.jobVector = me.jobVector /\ new.texts = me.texts
    BY <1>6, <2>4, <2>5 DEF Locals
  <2>7. Fits(new, cvVec')
    BY <1>6, <2>4, <2>6 DEF Fits, Resuming
  <2>8. Seek(a, new)
    BY <1>6, <2>1, <2>3, <2>5 DEF Locals
  <2> QED
    BY <1>2, <1>3, <2>7, <2>8, SeekKeeps
<1>8. CASE me.todo = {}
  <2>1. Answer(a, "none", Suited(me.got, me.jobVector))
    BY <1>5, <1>8 DEF BestNext
  <2>2. Suited(me.got, me.jobVector) \in Seq(Postings \union CVs) /\ "none" \in Reasons
    BY <1>6, SuitedIs DEF Reasons
  <2> QED
    BY <1>2, <1>3, <2>1, <2>2, AnswerKeeps
<1> QED
  BY <1>7, <1>8

\* The job's vector is stored: of its text, without skills.
LEMMA JobStoreKeep ==
  ASSUME RankInv, NEW a \in Askers, BestJobStore(a)
  PROVE  RankInv'
<1> USE DEF RankInv
<1>1. PICK me : me = seeker[a]
  OBVIOUS
<1>2. SeekersFit /\ Fits(me, cvVec)
  BY <1>1 DEF SeekersFit
<1>3. /\ me \in Locals /\ me.at = "jobStore" /\ me.what = "best" /\ me.job \in Postings /\ me.text \in JobTexts
      /\ me.model \in EmbedModels /\ me.jobVector \in JobTexts
  BY <1>1, <1>2 DEF BestJobStore, At, Fits
<1>4. UpsertJob(me.model, me.job, me.text, {}) /\ Seek(a, [me EXCEPT !.at = "resumes"])
      /\ UNCHANGED <<library_, cvVec, buildVars>>
  BY <1>1 DEF BestJobStore
<1>5. IndexTyped'
  BY <1>3, <1>4, UpsertKeeps DEF Skillsets
<1>6. LibraryTyped' /\ BuildFits' /\ LockFits' /\ Kept
  BY <1>4 DEF library_, buildVars, LibraryTyped, BuildFits, LockFits, Kept
<1>7. PICK new : new = [me EXCEPT !.at = "resumes"]
  OBVIOUS
<1>8. new \in Locals /\ new.at = "resumes" /\ new.what = "best" /\ new.model = me.model /\ new.jobVector = me.jobVector
  BY <1>3, <1>7 DEF Locals
<1>9. Fits(new, cvVec')
  BY <1>3, <1>8 DEF Fits, Resuming
<1>10. SeekersFit'
  BY <1>2, <1>4, <1>6, <1>7, <1>9, SeekKeeps
<1> QED
  BY <1>5, <1>6, <1>10

\* A vector of a resume goes back to the request that asked for it.
LEMMA ContinueKeeps ==
  ASSUME SeekersFit, Kept, NEW a \in Askers, seeker[a].at \in Resuming, NEW vec \in CVTexts,
         Continue(a, seeker[a], vec)
  PROVE  SeekersFit'
<1>1. PICK me : me = seeker[a]
  OBVIOUS
<1>2. /\ me \in Locals /\ me.what \in {"recommend", "best"} /\ me.cv \in CVs /\ me.text \in CVTexts
      /\ me.model \in EmbedModels /\ (me.what = "best" => me.jobVector \in JobTexts /\ me.texts \in Shelves)
  <2>1. Fits(me, cvVec)
    BY <1>1 DEF SeekersFit
  <2> QED
    BY <1>1, <2>1 DEF Fits
<1>3. CASE me.what = "recommend"
  <2>1. PICK new : new = [me EXCEPT !.at = "search", !.query = vec]
    OBVIOUS
  <2>2. new \in Locals /\ new.at = "search" /\ new.model = me.model /\ new.query = vec /\ new.text = me.text
    BY <1>2, <2>1 DEF Locals
  <2>3. Fits(new, cvVec')
    BY <1>2, <2>2 DEF Fits, Resuming
  <2>4. Seek(a, new)
    BY <1>1, <1>3, <2>1 DEF Continue
  <2> QED
    BY <2>3, <2>4, SeekKeeps
<1>4. CASE me.what # "recommend"
  <2>1. PICK heard : heard = Append(me.got, [cv |-> me.cv, vec |-> vec])
    OBVIOUS
  <2>2. heard \in Seq([cv : CVs, vec : CVTexts])
    <3>1. me.got \in Seq([cv : CVs, vec : CVTexts]) /\ [cv |-> me.cv, vec |-> vec] \in [cv : CVs, vec : CVTexts]
      BY <1>2 DEF Locals
    <3> QED
      BY <2>1, <3>1, AppendProperties
  <2>3. PICK new : new = [me EXCEPT !.at = "each", !.got = heard]
    OBVIOUS
  <2>4. /\ new \in Locals /\ new.at = "each" /\ new.what = me.what /\ new.model = me.model
        /\ new.jobVector = me.jobVector /\ new.texts = me.texts
    BY <1>2, <2>2, <2>3 DEF Locals
  <2>5. Fits(new, cvVec')
    BY <1>2, <1>4, <2>4 DEF Fits, Resuming
  <2>6. Seek(a, new)
    BY <1>1, <1>2, <1>4, <2>1, <2>3 DEF Continue, Locals
  <2> QED
    BY <2>5, <2>6, SeekKeeps
<1> QED
  BY <1>3, <1>4

LEMMA ResumeVectorKeep ==
  ASSUME RankInv, NEW a \in Askers, CVSha(a) \/ CVRow(a) \/ CVEmbed(a)
  PROVE  RankInv'
<1>1. Reads
  BY DEF CVSha, CVRow, CVEmbed
<1>2. LibraryTyped' /\ IndexTyped' /\ BuildFits' /\ LockFits' /\ cvVec' = cvVec /\ Kept
  BY <1>1, ReadsKeep
<1>3. SeekersFit /\ IndexTyped /\ Fits(seeker[a], cvVec)
  BY DEF RankInv, SeekersFit
<1>4. SUFFICES SeekersFit'
  BY <1>2 DEF RankInv
<1>5. PICK me : me = seeker[a]
  OBVIOUS
<1>6. /\ me \in Locals /\ me.at \in Resuming /\ me.what \in {"recommend", "best"} /\ me.cv \in CVs /\ me.text \in CVTexts
      /\ me.model \in EmbedModels /\ (me.what = "best" => me.jobVector \in JobTexts /\ me.texts \in Shelves)
  <2>1. me.at \in Resuming
    BY <1>5 DEF CVSha, CVRow, CVEmbed, At, Resuming
  <2> QED
    BY <1>3, <1>5, <2>1 DEF Fits
<1>7. CASE CVSha(a)
  <2>1. PICK place : place = IF cvVec[me.model][me.cv] = me.text THEN "row" ELSE "embed"
    OBVIOUS
  <2>2. PICK new : new = [me EXCEPT !.at = place]
    OBVIOUS
  <2>3. Seek(a, new)
    BY <1>5, <1>7, <2>1, <2>2 DEF CVSha
  <2>4. place \in {"row", "embed"} /\ (place = "row" => cvVec[me.model][me.cv] \in CVTexts)
    BY <1>6, <2>1
  <2>5. /\ new \in Locals /\ new.at = place /\ new.what = me.what /\ new.cv = me.cv /\ new.text = me.text
        /\ new.model = me.model /\ new.jobVector = me.jobVector /\ new.texts = me.texts
    BY <1>6, <2>2, <2>4 DEF Locals
  <2>6. Fits(new, cvVec')
    BY <1>2, <1>6, <2>4, <2>5 DEF Fits, Resuming
  <2> QED
    BY <1>2, <1>3, <2>3, <2>6, SeekKeeps
<1>8. CASE CVRow(a)
  <2>1. cvVec[me.model][me.cv] \in CVTexts /\ Continue(a, seeker[a], cvVec[me.model][me.cv])
    BY <1>3, <1>5, <1>8 DEF CVRow, At, Fits
  <2> QED
    BY <1>2, <1>3, <1>5, <1>6, <2>1, ContinueKeeps
<1>9. CASE CVEmbed(a)
  <2>1. me.at = "embed"
    BY <1>5, <1>9 DEF CVEmbed, At
  <2>2. \/ Seek(a, [me EXCEPT !.at = "store"])
        \/ Answer(a, "embedder_failed", Fallback(me.ids))
        \/ me.what = "best" /\ Seek(a, [me EXCEPT !.at = "each"])
    BY <1>5, <1>9 DEF CVEmbed
  <2>3. CASE Seek(a, [me EXCEPT !.at = "store"])
    <3>1. PICK new : new = [me EXCEPT !.at = "store"]
      OBVIOUS
    <3>2. /\ new \in Locals /\ new.at = "store" /\ new.what = me.what /\ new.cv = me.cv /\ new.text = me.text
          /\ new.model = me.model /\ new.jobVector = me.jobVector /\ new.texts = me.texts
      BY <1>6, <3>1 DEF Locals
    <3>3. Fits(new, cvVec')
      BY <1>6, <3>2 DEF Fits, Resuming
    <3> QED
      BY <1>2, <1>3, <2>3, <3>1, <3>3, SeekKeeps
  <2>4. CASE Answer(a, "embedder_failed", Fallback(me.ids))
    <3>1. me.ids \in SUBSET Postings /\ "embedder_failed" \in Reasons
      BY <1>6 DEF Locals, Reasons
    <3>2. Fallback(me.ids) \in Seq(Postings \union CVs)
      BY <3>1, FallbackIs, JobItems
    <3> QED
      BY <1>2, <1>3, <2>4, <3>1, <3>2, AnswerKeeps
  <2>5. CASE me.what = "best" /\ Seek(a, [me EXCEPT !.at = "each"])
    <3>1. PICK new : new = [me EXCEPT !.at = "each"]
      OBVIOUS
    <3>2. /\ new \in Locals /\ new.at = "each" /\ new.what = me.what
          /\ new.model = me.model /\ new.jobVector = me.jobVector /\ new.texts = me.texts
      BY <1>6, <3>1 DEF Locals
    <3>3. Fits(new, cvVec')
      BY <1>6, <2>5, <3>2 DEF Fits, Resuming
    <3> QED
      BY <1>2, <1>3, <2>5, <3>1, <3>3, SeekKeeps
  <2> QED
    BY <2>2, <2>3, <2>4, <2>5
<1> QED
  BY <1>7, <1>8, <1>9

\* Storing a vector of a resume takes none away.
LEMMA ResumeStoreKeep ==
  ASSUME RankInv, NEW a \in Askers, CVStore(a)
  PROVE  RankInv'
<1> USE DEF RankInv
<1>1. PICK me : me = seeker[a]
  OBVIOUS
<1>2. me.at \in Resuming /\ me.cv \in CVs /\ me.text \in CVTexts /\ me.model \in EmbedModels
  <2>1. Fits(me, cvVec) /\ me.at = "store"
    BY <1>1 DEF SeekersFit, CVStore, At
  <2> QED
    BY <2>1 DEF Fits, Resuming
<1>3. /\ cvVec' = [cvVec EXCEPT ![me.model][me.cv] = me.text] /\ Continue(a, me, me.text)
      /\ UNCHANGED <<library_, jobVec, buildVars>>
  BY <1>1 DEF CVStore, UpsertCV
<1>4. IndexTyped'
  BY <1>2, <1>3 DEF IndexTyped
<1>5. Kept
  BY <1>2, <1>3 DEF Kept, IndexTyped
<1>6. LibraryTyped' /\ BuildFits' /\ LockFits'
  BY <1>3 DEF library_, buildVars, LibraryTyped, BuildFits, LockFits
<1>7. SeekersFit'
  BY <1>1, <1>2, <1>3, <1>5, ContinueKeeps
<1> QED
  BY <1>4, <1>6, <1>7

LEMMA HintsKeep ==
  ASSUME RankInv, NEW a \in Askers, HintSearches(a) \/ HintAnswers(a) \/ SeekerRests(a)
  PROVE  RankInv'
<1>1. Reads
  BY DEF HintSearches, HintAnswers, SeekerRests
<1>2. LibraryTyped' /\ IndexTyped' /\ BuildFits' /\ LockFits' /\ cvVec' = cvVec /\ Kept
  BY <1>1, ReadsKeep
<1>3. SeekersFit /\ IndexTyped /\ LibraryTyped /\ Fits(seeker[a], cvVec)
  BY DEF RankInv, SeekersFit
<1>4. SUFFICES SeekersFit'
  BY <1>2 DEF RankInv
<1>x. <<>> \in Seq([cv : CVs, vec : CVTexts])
  OBVIOUS
<1>5. CASE HintSearches(a)
  <2>1. PICK j \in Postings : \E hits, near :
          /\ jdOf[j] \notin {Blank, Absent} /\ hits = SearchJobs(embedder, jdOf[j], Limit + 2, Postings)
          /\ Seek(a, [Idle EXCEPT !.at = "hints", !.what = "hint", !.job = j, !.items = Where(hits, near)])
    BY <1>5 DEF HintSearches
  <2>2. PICK hits : \E near :
          /\ jdOf[j] \notin {Blank, Absent} /\ hits = SearchJobs(embedder, jdOf[j], Limit + 2, Postings)
          /\ Seek(a, [Idle EXCEPT !.at = "hints", !.what = "hint", !.job = j, !.items = Where(hits, near)])
    BY <2>1
  <2>3. PICK near :
          /\ jdOf[j] \notin {Blank, Absent} /\ hits = SearchJobs(embedder, jdOf[j], Limit + 2, Postings)
          /\ Seek(a, [Idle EXCEPT !.at = "hints", !.what = "hint", !.job = j, !.items = Where(hits, near)])
    BY <2>2
  <2>4. embedder \in EmbedModels /\ jdOf[j] \in JobTexts \union CVTexts /\ Limit + 2 \in Nat
    BY <1>3, <2>3, RankingAssumption DEF LibraryTyped, Listings
  <2>5. hits \in Seq(Indexed(embedder, Postings))
    BY <1>3, <2>3, <2>4, SearchFinds
  <2>6. hits \in Seq(Postings)
    <3>1. Indexed(embedder, Postings) \subseteq Postings
      BY DEF Indexed
    <3> QED
      BY <2>5, <3>1, SeqMonotonic
  <2>7. PICK items : items = Where(hits, near)
    OBVIOUS
  <2>8. items \in Seq(Postings) /\ items \in Seq(Postings \union CVs)
    BY <2>6, <2>7, WhereIn, JobItems
  <2>9. PICK new : new = [Idle EXCEPT !.at = "hints", !.what = "hint", !.job = j, !.items = items]
    OBVIOUS
  <2>10. new \in Locals /\ new.at = "hints" /\ new.items = items
    BY <1>x, <2>8, <2>9 DEF Idle, Locals, Reasons
  <2>11. Fits(new, cvVec')
    BY <2>8, <2>10 DEF Fits, Resuming
  <2> QED
    BY <1>2, <1>3, <2>3, <2>7, <2>9, <2>11, SeekKeeps
<1>6. CASE HintAnswers(a)
  <2>1. PICK items : items = Where(seeker[a].items, {i \in Postings : jdOf[i] # Absent})
    OBVIOUS
  <2>2. Answer(a, "none", FirstOf(Limit, items)) /\ seeker[a].items \in Seq(Postings)
    BY <1>3, <1>6, <2>1 DEF HintAnswers, At, Fits
  <2>3. items \in Seq(Postings)
    BY <2>1, <2>2, WhereIn
  <2>4. FirstOf(Limit, items) \in Seq(Postings) /\ "none" \in Reasons
    BY <2>3, FirstOfIs, RankingAssumption DEF Reasons
  <2> QED
    BY <1>2, <1>3, <2>2, <2>4, JobItems, AnswerKeeps
<1>7. CASE SeekerRests(a)
  <2>1. Seek(a, Idle)
    BY <1>7 DEF SeekerRests
  <2>2. Fits(Idle, cvVec')
    BY <1>x, EmptyItems DEF Fits, Idle, Locals, Resuming, Reasons
  <2> QED
    BY <1>2, <1>3, <2>1, <2>2, SeekKeeps
<1> QED
  BY <1>5, <1>6, <1>7

LEMMA EditKeep == ASSUME RankInv, EditLibrary PROVE RankInv'
<1> USE DEF RankInv
<1>1. LibraryTyped'
  BY RankingAssumption DEF LibraryTyped, EditLibrary, Listings, Shelves
<1>2. UNCHANGED <<index_, buildVars, seeker>>
  BY DEF EditLibrary
<1>3. IndexTyped' /\ BuildFits' /\ LockFits' /\ Kept /\ seeker' = seeker
  BY <1>2 DEF index_, buildVars, IndexTyped, BuildFits, LockFits, Kept
<1>4. SeekersFit'
  BY <1>3, SeekersStay
<1> QED
  BY <1>1, <1>3, <1>4

LEMMA RankKeep == ASSUME RankInv, [RankNext]_rankVars PROVE RankInv'
<1>1. CASE RebuildNext
  BY <1>1, RebuildKeep, BuildsKeep DEF RebuildNext
<1>2. CASE SeekNext
  BY <1>2, RecommendKeep, BestKeep, NextResumeKeep, JobStoreKeep, ResumeVectorKeep, ResumeStoreKeep, HintsKeep DEF SeekNext
<1>3. CASE EditLibrary
  BY <1>3, EditKeep
<1>4. CASE UNCHANGED rankVars
  BY <1>4 DEF rankVars, RankInv, LibraryTyped, IndexTyped, BuildFits, LockFits, SeekersFit
<1> QED
  BY <1>1, <1>2, <1>3, <1>4 DEF RankNext

\* The ranking keeps its invariant.
THEOREM RankInvariance == RankSpec => []RankInv
BY RankStarts, RankKeep, PTL DEF RankSpec

LEMMA RankTyped == RankInv => RankTypeOK
<1> SUFFICES ASSUME RankInv PROVE RankTypeOK
  OBVIOUS
<1>1. \A m \in EmbedModels, j \in Postings : jobVec[m][j] # Absent => jobVec[m][j].text \in JobTexts
  BY DEF RankInv, IndexTyped, VectorRows
<1>2. \A a \in Askers : At(a, "answered") => seeker[a].reason \in Reasons
  BY DEF RankInv, SeekersFit, Locals
<1> QED
  BY <1>1, <1>2 DEF RankInv, LibraryTyped, Listings, IndexTyped, BuildFits, LockFits, RankTypeOK

\* Types of the ranking; a build runs exactly as long as its thread, and a request that waits for
\* the lock it holds is the one that holds it.
THEOREM RankTypes == RankSpec => []RankTypeOK
BY RankInvariance, RankTyped, PTL

\* A request that searches is answered by its own step.
LEMMA OnlySearches ==
  ASSUME RankInv, [RankNext]_rankVars, NEW a \in Askers, At(a, "search"), At(a, "answered")'
  PROVE  RecommendSearches(a)
<1>1. seeker \in [Askers -> Locals]
  BY DEF RankInv, SeekersFit
<1>2. seeker' # seeker
  BY DEF At
<1>3. PICK b \in Askers :
        \/ RecommendReads(b) \/ RecommendLists(b) \/ RecommendSearches(b)
        \/ BestReads(b) \/ BestJobRow(b) \/ BestJobStore(b) \/ BestLists(b) \/ BestNext(b)
        \/ CVSha(b) \/ CVRow(b) \/ CVEmbed(b) \/ CVStore(b)
        \/ HintSearches(b) \/ HintAnswers(b) \/ SeekerRests(b)
  <2>1. ~ RebuildNext
    BY <1>2 DEF RebuildNext, StartRebuild, IndexStatus, Snapshot, BuildList, BuildShas, BuildEmbed, BuildWrite,
                BuildProgress, BuildEnds, BuildStep
  <2>2. ~ EditLibrary /\ ~ UNCHANGED rankVars
    BY <1>2 DEF EditLibrary, rankVars
  <2> QED
    BY <2>1, <2>2 DEF RankNext, SeekNext
<1>4. \E me : Seek(b, me)
  BY <1>3, Zenon DEF RecommendReads, RecommendLists, RecommendSearches, BestReads, BestJobRow, BestJobStore, BestLists, BestNext,
            CVSha, CVRow, CVEmbed, CVStore, HintSearches, HintAnswers, SeekerRests, Answer, Continue
<1>5. b = a
  BY <1>1, <1>4 DEF At, Seek
<1> QED
  BY <1>3, <1>5 DEF At, RecommendReads, RecommendLists, BestReads, BestJobRow, BestJobStore, BestLists, BestNext,
            CVSha, CVRow, CVEmbed, CVStore, HintSearches, HintAnswers, SeekerRests

\* The property of one answered search.
Serves(me, items) ==
  LET indexed == {j \in me.ids : jobVec[me.model][j] # Absent}
      n       == Cardinality(IF indexed = {} THEN me.ids ELSE indexed)
  IN  /\ Range(items) \subseteq me.ids /\ IsInjective(items)
      /\ Len(items) = IF n < Limit THEN n ELSE Limit
      /\ indexed # {} => Range(items) \subseteq indexed

LEMMA SearchServes ==
  ASSUME RankInv, NEW a \in Askers, RecommendSearches(a)
  PROVE  Serves(seeker[a], seeker'[a].items)
<1>1. PICK me : me = seeker[a]
  OBVIOUS
<1>2. me.model \in EmbedModels /\ me.query \in CVTexts /\ me.text \in CVTexts /\ me.ids \in SUBSET Postings
  BY <1>1 DEF RecommendSearches, At, Fits, Locals, RankInv, SeekersFit
<1>3. PICK indexed : indexed = Indexed(me.model, me.ids)
  OBVIOUS
<1>4. PICK hits : hits = SearchJobs(me.model, me.query, Limit, me.ids)
  OBVIOUS
<1>5. Limit \in Nat \ {0} /\ IndexTyped
  BY RankingAssumption DEF RankInv
<1>6. indexed \subseteq me.ids /\ IsFiniteSet(indexed)
  BY <1>2, <1>3, FS_Subset, RankingAssumption DEF Indexed
<1>7. PICK n \in Nat : n = Cardinality(indexed) /\ (n = 0 <=> indexed = {})
  BY <1>6, FS_CardinalityType, FS_EmptySet
<1>8. /\ hits \in Seq(indexed) /\ Range(hits) \subseteq indexed /\ IsInjective(hits)
      /\ Len(hits) = IF n < Limit THEN n ELSE Limit
  BY <1>2, <1>3, <1>4, <1>5, <1>7, SearchFinds
<1>9. hits = <<>> <=> indexed = {}
  BY <1>5, <1>7, <1>8, EmptySeq
<1>10. seeker \in [Askers -> Locals]
  BY DEF RankInv, SeekersFit
<1>11. \A ids : Answer(a, "none", ids) \/ Answer(a, "index_empty", ids) => seeker'[a].items = ids
  BY <1>10 DEF Answer, Seek, Idle
<1>12. CASE hits = <<>>
  <2>1. Answer(a, "index_empty", Fallback(me.ids))
    BY <1>1, <1>4, <1>12 DEF RecommendSearches
  <2>2. PICK items : items = seeker'[a].items /\ items = Fallback(me.ids)
    BY <1>11, <2>1
  <2>3. /\ Range(items) \subseteq me.ids /\ IsInjective(items)
        /\ Len(items) = IF Cardinality(me.ids) < Limit THEN Cardinality(me.ids) ELSE Limit
    BY <1>2, <2>2, FallbackIs
  <2>4. {j \in me.ids : jobVec[me.model][j] # Absent} = {}
    BY <1>3, <1>9, <1>12 DEF Indexed
  <2> QED
    BY <1>1, <2>2, <2>3, <2>4 DEF Serves
<1>13. CASE hits # <<>>
  <2>1. PICK order \in {hits, Fuse(me.model, me.text, hits)} : Answer(a, "none", Where(order, me.ids))
    BY <1>1, <1>4, <1>13 DEF RecommendSearches
  <2>2. PICK fused : fused = Fuse(me.model, me.text, hits)
    OBVIOUS
  <2>3. fused \in Seq(Range(hits)) /\ Range(fused) = Range(hits) /\ IsInjective(fused) /\ Len(fused) = Len(hits)
    <3>1. hits \in Seq(Indexed(me.model, me.ids))
      BY <1>3, <1>8
    <3> QED
      BY <1>2, <1>5, <1>8, <2>2, <3>1, FuseIs
  <2>4. Range(order) = Range(hits) /\ IsInjective(order) /\ Len(order) = Len(hits)
    BY <1>8, <2>1, <2>2, <2>3
  <2>5. \E S : order \in Seq(S)
    BY <1>8, <2>1, <2>2, <2>3
  <2>6. PICK S : order \in Seq(S)
    BY <2>5
  <2>7. Where(order, me.ids) = order
    <3>1. Range(order) \subseteq me.ids
      BY <1>6, <1>8, <2>4
    <3> QED
      BY <2>6, <3>1, WhereAll
  <2>8. PICK items : items = seeker'[a].items /\ items = order
    BY <1>11, <2>1, <2>7
  <2>9. {j \in me.ids : jobVec[me.model][j] # Absent} = indexed /\ indexed # {}
    BY <1>3, <1>9, <1>13 DEF Indexed
  <2>10. Range(items) \subseteq indexed /\ IsInjective(items) /\ Len(items) = IF n < Limit THEN n ELSE Limit
    BY <1>8, <2>4, <2>8
  <2> QED
    BY <1>1, <1>6, <1>7, <2>8, <2>9, <2>10 DEF Serves
<1> QED
  BY <1>12, <1>13

ServesNow ==
  \A a \in Askers : At(a, "search") /\ At(a, "answered")' =>
    LET me      == seeker[a]
        items   == seeker'[a].items
        indexed == {j \in me.ids : jobVec[me.model][j] # Absent}
        n       == Cardinality(IF indexed = {} THEN me.ids ELSE indexed)
    IN  /\ Range(items) \subseteq me.ids /\ IsInjective(items)
        /\ Len(items) = IF n < Limit THEN n ELSE Limit
        /\ indexed # {} => Range(items) \subseteq indexed

LEMMA SearchesServe == ASSUME RankInv, [RankNext]_rankVars PROVE ServesNow
BY OnlySearches, SearchServes DEF Serves, ServesNow

\* A recommendation is filled from the listed jobs: as many of those with a vector as there are up
\* to the limit, none twice, or all by the stored score when none has one.
THEOREM RankingsServe == RankSpec => RankingsServeTheLibrary
BY RankInvariance, SearchesServe, PTL DEF RankSpec, RankingsServeTheLibrary, ServesNow

-----------------------------------------------------------------------------
(* The optimization of a resume: where the entries stand *)

Lines   == DOMAIN KindOf
Passages == Seq(Lines) \ {<<>>}

\* The least number of a set.
LEMMA FirstIs ==
  ASSUME NEW S \in SUBSET Nat, S # {}
  PROVE  First(S) \in S /\ \A j \in S : First(S) <= j
<1>1. PICK x \in S : \A y \in S : ~ (<<y, x>> \in OpToRel(<, Nat))
  BY NatLessThanWellFounded, WFMin, Zenon
<1>2. \A y \in S : x <= y
  <2>1. \A y \in S : ~ (y < x)
    BY <1>1 DEF OpToRel
  <2> QED
    BY <2>1
<1>3. \E i \in S : \A j \in S : i <= j
  BY <1>2
<1> QED
  BY <1>3, Zenon DEF First

\* Where a text has a part of its own, line for line.
LEMMA FoundIs ==
  ASSUME NEW t \in Seq(Lines), NEW e \in Passages, NEW i
  PROVE  i \in Found(t, e) <=> /\ i \in Nat /\ 1 <= i /\ i + Len(e) - 1 <= Len(t)
                               /\ \A k \in 1 .. Len(e) : t[i + k - 1] = e[k]
<1>1. PICK l \in Nat, n \in Nat : l = Len(e) /\ n = Len(t) /\ l # 0
  BY DEF Passages
<1>2. i \in 1 .. n - l + 1 <=> i \in Nat /\ 1 <= i /\ i + l - 1 <= n
  BY <1>1
<1>3. ASSUME i \in 1 .. n - l + 1
      PROVE  SubSeq(t, i, i + l - 1) = e <=> \A k \in 1 .. l : t[i + k - 1] = e[k]
  <2>1. i \in Int /\ i + l - 1 \in Int /\ i <= i + l - 1 /\ (i + l - 1) - i + 1 = l
    BY <1>1, <1>3
  <2>2. \A j \in i .. i + l - 1 : t[j] \in Lines
    BY <1>1, <1>3
  <2>3. PICK s : s = SubSeq(t, i, i + l - 1)
    OBVIOUS
  <2>4. s \in Seq(Lines) /\ Len(s) = l /\ \A k \in 1 .. l : s[k] = t[i + k - 1]
    BY <2>1, <2>2, <2>3, SubSeqProperties
  <2>5. s = e <=> \A k \in 1 .. l : s[k] = e[k]
    BY <1>1, <2>4 DEF Passages
  <2> QED
    BY <2>3, <2>4, <2>5
<1>4. i \in Found(t, e) <=> i \in 1 .. n - l + 1 /\ SubSeq(t, i, i + l - 1) = e
  BY <1>1 DEF Found
<1> QED
  BY <1>1, <1>2, <1>3, <1>4

\* What begins an entry, from what begins one on the line before.
LEMMA BeginsIs ==
  ASSUME NEW t \in Seq(Lines), NEW h \in 1 .. Len(t), NEW i \in h + 1 .. Len(t)
  PROVE  /\ Begins(t, h, i) \in BOOLEAN
         /\ Begins(t, h, i) <=>
              /\ KindOf[t[i]] # "blank"
              /\ \/ i = h + 1 \/ KindOf[t[i - 1]] = "blank" \/ KindOf[t[i]] = "title"
                 \/ KindOf[t[i]] = "date" /\ ~ (KindOf[t[i - 1]] \in {"title", "date"} /\ i # h + 1 /\ Begins(t, h, i - 1))
<1> DEFINE Rule(b, k) == /\ k # 0 /\ KindOf[t[h + k]] # "blank"
                       /\ \/ k = 1 \/ KindOf[t[h + k - 1]] = "blank" \/ KindOf[t[h + k]] = "title"
                          \/ KindOf[t[h + k]] = "date" /\ ~ (KindOf[t[h + k - 1]] \in {"title", "date"} /\ b)
           Table(f) == f = [k \in 0 .. Len(t) - h |-> Rule(f[k - 1], k)]
           F == [k \in 1 .. Len(t) - h |-> [x \in BOOLEAN |-> Rule(x, k)]]
<1>1. PICK n \in Nat : n = Len(t) - h
  OBVIOUS
<1>2. \E g : Computes(g, n, BOOLEAN, FALSE, F)
  <2>1. \A k \in 1 .. n : \A x \in BOOLEAN : F[k][x] = Rule(x, k)
    BY <1>1
  <2>2. \A k : \A x : Rule(x, k) \in BOOLEAN
    OBVIOUS
  <2> HIDE DEF F, Rule
  <2>3. StaysIn(n, BOOLEAN, F)
    BY <2>1, <2>2 DEF StaysIn
  <2> QED
    BY <2>3, StepsExist
<1>3. PICK g : Computes(g, n, BOOLEAN, FALSE, F)
  BY <1>2
<1>4. Table(g)
  <2>1. g \in [0 .. n -> BOOLEAN] /\ \A k \in 0 .. n : g[k] = IF k = 0 THEN FALSE ELSE F[k][g[k - 1]]
    <3> HIDE DEF F
    <3> QED
      BY <1>3 DEF Computes
  <2>2. \A k \in 0 .. n : g[k] = Rule(g[k - 1], k)
    <3> SUFFICES ASSUME NEW k \in 0 .. n PROVE g[k] = Rule(g[k - 1], k)
      OBVIOUS
    <3>1. CASE k = 0
      <4>1. g[k] = FALSE
        BY <2>1, <3>1
      <4>2. Rule(g[k - 1], k) = FALSE
        BY <3>1
      <4> HIDE DEF Rule, F
      <4> QED
        BY <4>1, <4>2
    <3>2. CASE k # 0
      <4>1. k \in 1 .. n /\ k - 1 \in 0 .. n
        BY <3>2
      <4>2. g[k] = F[k][g[k - 1]] /\ g[k - 1] \in BOOLEAN
        <5> HIDE DEF F, Rule
        <5> QED
          BY <2>1, <3>2, <4>1
      <4>3. F[k] = [x \in BOOLEAN |-> Rule(x, k)]
        BY <1>1, <4>1
      <4> HIDE DEF F, Rule
      <4> QED
        BY <4>2, <4>3
    <3> QED
      BY <3>1, <3>2
  <2> HIDE DEF F, Rule
  <2> QED
    BY <1>1, <2>1, <2>2
<1>5. PICK b : b = CHOOSE f : Table(f)
  OBVIOUS
<1>6. Table(b)
  <2> HIDE DEF Table
  <2> QED
    BY <1>4, <1>5
<1>7. \A j \in h .. Len(t) : Begins(t, h, j) = b[j - h]
  BY <1>5, Zenon DEF Begins
<1>8. \A k \in 0 .. n : b[k] = Rule(b[k - 1], k)
  <2> HIDE DEF Rule
  <2> QED
    BY <1>1, <1>6
<1>9. PICK k \in 1 .. n : k = i - h
  BY <1>1
<1>10. h + k = i /\ h + k - 1 = i - 1 /\ (k = 1 <=> i = h + 1) /\ k # 0 /\ k - 1 \in 0 .. n /\ i - 1 - h = k - 1
       /\ i \in h .. Len(t) /\ i - 1 \in h .. Len(t)
  BY <1>1, <1>9
<1>11. Begins(t, h, i) = b[k] /\ Begins(t, h, i - 1) = b[k - 1]
  BY <1>7, <1>9, <1>10
<1>12. b[k] = Rule(b[k - 1], k)
  <2> HIDE DEF Rule
  <2>1. k \in 0 .. n
    BY <1>9
  <2> QED
    BY <1>8, <2>1
<1> QED
  BY <1>10, <1>11, <1>12

\* Line i stands in the body under h, and every line of it is neither a heading nor below one.
LEMMA OneSection ==
  ASSUME NEW t \in Seq(Lines), NEW i \in DOMAIN t, NEW j \in DOMAIN t,
         NEW g \in 1 .. i - 1, NEW h \in 1 .. j - 1, InBody(t, g, i), InBody(t, h, j), g <= h, h < i
  PROVE  g = h
<1>1. Heading(t[h])
  BY DEF InBody, Heading
<1>2. h # g => h \in g + 1 .. i + 1 /\ h \in DOMAIN t
  OBVIOUS
<1> QED
  BY <1>1, <1>2 DEF InBody

\* The line under which an entry begins.
Under(t, i) == CHOOSE h \in 1 .. i - 1 : InBody(t, h, i)

\* An entry begins under one heading only.
LEMMA StartIs ==
  ASSUME NEW t \in Seq(Lines), NEW i \in Starts(t)
  PROVE  /\ i \in 2 .. Len(t) /\ Under(t, i) \in 1 .. i - 1 /\ InBody(t, Under(t, i), i) /\ Begins(t, Under(t, i), i)
         /\ \A h \in 1 .. i - 1 : InBody(t, h, i) => h = Under(t, i)
<1>1. PICK n \in Nat : n = Len(t) /\ DOMAIN t = 1 .. n
  OBVIOUS
<1>2. i \in 1 .. n /\ \E h \in 1 .. i - 1 : InBody(t, h, i) /\ Begins(t, h, i)
  BY <1>1 DEF Starts
<1>3. PICK g \in 1 .. i - 1 : InBody(t, g, i) /\ Begins(t, g, i)
  BY <1>2
<1>4. \A h \in 1 .. i - 1 : InBody(t, h, i) => h = g
  <2> SUFFICES ASSUME NEW h \in 1 .. i - 1, InBody(t, h, i) PROVE h = g
    OBVIOUS
  <2>1. i \in DOMAIN t /\ h \in Int /\ g \in Int /\ h < i /\ g < i
    BY <1>1, <1>2
  <2>2. CASE g <= h
    BY <1>3, <2>1, <2>2, OneSection
  <2>3. CASE h <= g
    BY <1>3, <2>1, <2>3, OneSection
  <2> QED
    BY <2>1, <2>2, <2>3
<1>5. PICK u : u = Under(t, i)
  OBVIOUS
<1>6. u \in 1 .. i - 1 /\ InBody(t, u, i)
  BY <1>3, <1>5, Zenon DEF Under
<1>7. u = g
  BY <1>4, <1>6
<1> QED
  BY <1>1, <1>2, <1>3, <1>4, <1>5, <1>7

\* The entry that begins in line i goes on to line e.
To(t, h, i, e) ==
  e \in i .. Len(t) /\ ~ Continues(t, h, e + 1) /\ \A j \in i + 1 .. e : Continues(t, h, j)

\* The entry is the lines up to the one it goes on to.
LEMMA EntryIs ==
  ASSUME NEW t \in Seq(Lines), NEW h \in 1 .. Len(t), NEW i \in h + 1 .. Len(t)
  PROVE  \E e \in i .. Len(t) : /\ To(t, h, i, e) /\ Entry(t, h, i) \in Passages /\ Len(Entry(t, h, i)) = e - i + 1
                               /\ \A k \in 1 .. e - i + 1 : Entry(t, h, i)[k] = t[i + k - 1]
<1>1. PICK n \in Nat : n = Len(t) /\ DOMAIN t = 1 .. n
  OBVIOUS
<1> DEFINE Ends == {j \in Nat : i < j /\ ~ Continues(t, h, j)}
<1>2. n + 1 \in Ends
  <2>1. n + 1 \in Nat /\ i < n + 1 /\ n + 1 \notin DOMAIN t
    BY <1>1
  <2> QED
    BY <2>1 DEF Continues
<1>3. PICK f : f = First(Ends)
  OBVIOUS
<1>4. f \in Ends /\ \A j \in Ends : f <= j
  BY <1>2, <1>3, FirstIs
<1>5. PICK e \in i .. n : e + 1 = f
  <2>1. f \in Nat /\ i < f /\ f <= n + 1
    BY <1>2, <1>4
  <2>2. f - 1 \in i .. n /\ (f - 1) + 1 = f
    BY <1>1, <2>1
  <2> QED
    BY <2>2
<1>6. To(t, h, i, e)
  <2>1. ~ Continues(t, h, e + 1)
    BY <1>4, <1>5
  <2>2. \A j \in i + 1 .. e : Continues(t, h, j)
    <3> SUFFICES ASSUME NEW j \in i + 1 .. e, ~ Continues(t, h, j) PROVE FALSE
      OBVIOUS
    <3>1. j \in Ends /\ j < f
      BY <1>1, <1>5
    <3>2. f <= j
      BY <1>4, <3>1
    <3> QED
      BY <1>1, <1>5, <3>1, <3>2
  <2> QED
    BY <1>1, <1>5, <2>1, <2>2 DEF To
<1>7. \A d \in i .. n : To(t, h, i, d) => d = e
  <2> SUFFICES ASSUME NEW d \in i .. n, To(t, h, i, d) PROVE d = e
    OBVIOUS
  <2>1. ~ Continues(t, h, d + 1) /\ \A j \in i + 1 .. d : Continues(t, h, j)
    BY DEF To
  <2>2. ~ Continues(t, h, e + 1) /\ \A j \in i + 1 .. e : Continues(t, h, j)
    BY <1>6 DEF To
  <2>3. d < e => d + 1 \in i + 1 .. e
    BY <1>1
  <2>4. e < d => e + 1 \in i + 1 .. d
    BY <1>1
  <2> QED
    BY <1>1, <2>1, <2>2, <2>3, <2>4
<1>8. PICK c : c = CHOOSE d \in i .. Len(t) : ~ Continues(t, h, d + 1) /\ \A j \in i + 1 .. d : Continues(t, h, j)
  OBVIOUS
<1>9. c = e
  <2>1. \E d \in i .. Len(t) : ~ Continues(t, h, d + 1) /\ \A j \in i + 1 .. d : Continues(t, h, j)
    BY <1>1, <1>6 DEF To
  <2>2. c \in i .. Len(t) /\ ~ Continues(t, h, c + 1) /\ \A j \in i + 1 .. c : Continues(t, h, j)
    BY <1>8, <2>1, Zenon
  <2> QED
    BY <1>1, <1>7, <2>2 DEF To
<1>10. Entry(t, h, i) = SubSeq(t, i, e)
  BY <1>8, <1>9, Zenon DEF Entry
<1>11. i \in Int /\ e \in Int /\ i <= e /\ i >= 1 /\ e <= n
  BY <1>1
<1>12. \A j \in i .. e : t[j] \in Lines
  BY <1>1, <1>11
<1>13. PICK s : s = SubSeq(t, i, e)
  OBVIOUS
<1>14. s \in Seq(Lines) /\ Len(s) = e - i + 1 /\ \A k \in 1 .. e - i + 1 : s[k] = t[i + k - 1]
  BY <1>11, <1>12, <1>13, SubSeqProperties
<1>15. s \in Passages
  BY <1>11, <1>14 DEF Passages
<1> QED
  BY <1>1, <1>6, <1>10, <1>13, <1>14, <1>15

\* A line of an entry is neither blank nor a heading; only the first may be a title, and a date
\* is the first or under the first.
Around == {"blank", "exp", "bound"}
Clean(e) ==
  /\ e \in Passages
  /\ \A k \in 1 .. Len(e) : KindOf[e[k]] \notin Around
  /\ \A k \in 2 .. Len(e) : /\ KindOf[e[k]] # "title"
                            /\ KindOf[e[k]] = "date" => k = 2 /\ KindOf[e[1]] \in {"title", "date"}

\* The entry stands in line p, and begins there: above it is a heading or a blank line, or its
\* first line is a title or a date.
Placed(t, e, p) ==
  /\ p \in Nat /\ 1 <= p /\ p + Len(e) - 1 <= Len(t)
  /\ \A k \in 1 .. Len(e) : t[p + k - 1] = e[k]
  /\ KindOf[e[1]] \in {"title", "date"} \/ (1 < p /\ KindOf[t[p - 1]] \in Around)

Slots == [module : Lines, index : Nat, original : Passages]

\* The lines after the first of an entry go on with it.
LEMMA EntryIsClean ==
  ASSUME NEW t \in Seq(Lines), NEW i \in Starts(t)
  PROVE  Clean(Entry(t, Under(t, i), i)) /\ Placed(t, Entry(t, Under(t, i), i), i)
<1>1. PICK h : h = Under(t, i)
  OBVIOUS
<1>2. PICK n \in Nat : n = Len(t) /\ DOMAIN t = 1 .. n
  OBVIOUS
<1>3. h \in 1 .. i - 1 /\ i \in 2 .. n /\ InBody(t, h, i) /\ Begins(t, h, i)
  BY <1>1, <1>2, StartIs
<1>4. h \in 1 .. Len(t) /\ i \in h + 1 .. Len(t)
  BY <1>2, <1>3
<1>5. PICK x : x = Entry(t, h, i)
  OBVIOUS
<1>6. PICK e \in i .. Len(t) : /\ To(t, h, i, e) /\ x \in Passages /\ Len(x) = e - i + 1
                               /\ \A k \in 1 .. e - i + 1 : x[k] = t[i + k - 1]
  BY <1>4, <1>5, EntryIs
<1>7. PICK l \in Nat : l = Len(x) /\ l = e - i + 1 /\ 1 <= l /\ i + l - 1 <= n
  BY <1>2, <1>3, <1>6
<1>8. \A k \in 1 .. l : x[k] = t[i + k - 1]
  BY <1>6, <1>7
<1>9. x[1] = t[i] /\ KindOf[t[i]] \notin Around
  <2>1. x[1] = t[i]
    <3>1. 1 \in 1 .. l /\ i + 1 - 1 = i
      BY <1>3, <1>7
    <3> QED
      BY <1>8, <3>1
  <2>2. KindOf[t[i]] # "blank"
    BY <1>3, <1>4, BeginsIs
  <2>3. i \in h + 1 .. i + 1 /\ i \in DOMAIN t
    BY <1>2, <1>4
  <2>4. ~ Heading(t[i])
    BY <1>3, <2>3 DEF InBody
  <2> QED
    BY <2>1, <2>2, <2>4 DEF Heading, Around
<1>10. \A k \in 2 .. l : /\ Continues(t, h, i + k - 1) /\ i + k - 1 \in h + 2 .. n /\ x[k] = t[i + k - 1]
                         /\ i + k - 2 \in h + 1 .. n /\ (i + k - 1) - 1 = i + k - 2
  <2> SUFFICES ASSUME NEW k \in 2 .. l
               PROVE  /\ Continues(t, h, i + k - 1) /\ i + k - 1 \in h + 2 .. n /\ x[k] = t[i + k - 1]
                      /\ i + k - 2 \in h + 1 .. n /\ (i + k - 1) - 1 = i + k - 2
    OBVIOUS
  <2>1. i + k - 1 \in i + 1 .. e /\ i + k - 1 \in h + 2 .. n /\ k \in 1 .. l
        /\ i + k - 2 \in h + 1 .. n /\ (i + k - 1) - 1 = i + k - 2
    BY <1>2, <1>3, <1>4, <1>7
  <2> QED
    BY <1>6, <1>8, <2>1 DEF To
<1>11. ASSUME NEW k \in 2 .. l
       PROVE  /\ KindOf[x[k]] \notin Around /\ KindOf[x[k]] # "title"
              /\ KindOf[x[k]] = "date" => k = 2 /\ KindOf[x[1]] \in {"title", "date"}
  <2>1. PICK j : j = i + k - 1
    OBVIOUS
  <2>2. Continues(t, h, j) /\ j \in h + 2 .. n /\ x[k] = t[j] /\ j - 1 \in h + 1 .. n /\ j - 1 = i + k - 2
    BY <1>10, <2>1
  <2>3. InBody(t, h, j) /\ KindOf[t[j]] # "blank" /\ ~ Begins(t, h, j)
    BY <2>2 DEF Continues
  <2>4. j \in h + 1 .. Len(t) /\ j # h + 1 /\ j \in h + 1 .. j + 1 /\ j \in DOMAIN t
    BY <1>2, <1>4, <2>2
  <2>5. ~ Heading(t[j])
    BY <2>3, <2>4 DEF InBody
  <2>6. /\ KindOf[t[j]] # "title"
        /\ KindOf[t[j]] = "date" => KindOf[t[j - 1]] \in {"title", "date"} /\ Begins(t, h, j - 1)
    BY <1>4, <2>3, <2>4, BeginsIs
  <2>7. ASSUME KindOf[t[j]] = "date" PROVE k = 2 /\ KindOf[x[1]] \in {"title", "date"}
    <3>1. Begins(t, h, j - 1) /\ KindOf[t[j - 1]] \in {"title", "date"}
      BY <2>6, <2>7
    <3>2. k = 2
      <4> SUFFICES ASSUME k # 2 PROVE FALSE
        OBVIOUS
      <4>1. k - 1 \in 2 .. l /\ i + (k - 1) - 1 = j - 1
        BY <1>3, <1>7, <2>1
      <4>2. Continues(t, h, j - 1)
        BY <1>10, <4>1
      <4> QED
        BY <3>1, <4>2 DEF Continues
    <3>3. j - 1 = i
      BY <1>3, <2>1, <3>2
    <3> QED
      BY <1>9, <3>1, <3>2, <3>3
  <2> QED
    BY <2>2, <2>3, <2>5, <2>6, <2>7 DEF Heading, Around
<1>12. Clean(x)
  <2>1. \A k \in 1 .. l : KindOf[x[k]] \notin Around
    <3>1. \A k \in 1 .. l : k = 1 \/ k \in 2 .. l
      BY <1>7
    <3> QED
      BY <1>9, <1>11, <3>1
  <2> QED
    BY <1>6, <1>7, <1>11, <2>1 DEF Clean
<1>13. KindOf[x[1]] \in {"title", "date"} \/ (1 < i /\ KindOf[t[i - 1]] \in Around)
  <2>1. \/ i = h + 1 \/ KindOf[t[i - 1]] = "blank" \/ KindOf[t[i]] = "title" \/ KindOf[t[i]] = "date"
    BY <1>3, <1>4, BeginsIs
  <2>2. CASE i = h + 1
    <3>1. i - 1 = h /\ KindOf[t[h]] = "exp"
      BY <1>3, <2>2 DEF InBody
    <3> QED
      BY <1>3, <3>1 DEF Around
  <2> QED
    BY <1>3, <1>9, <2>1, <2>2 DEF Around
<1>14. Placed(t, x, i)
  BY <1>2, <1>3, <1>7, <1>8, <1>13 DEF Placed
<1> QED
  BY <1>1, <1>5, <1>12, <1>14

\* No entry begins in a line of another.
LEMMA EntriesApart ==
  ASSUME NEW t \in Seq(Lines), NEW i \in Starts(t), NEW j \in Starts(t), i < j
  PROVE  i + Len(Entry(t, Under(t, i), i)) <= j
<1>1. PICK h : h = Under(t, i)
  OBVIOUS
<1>2. PICK n \in Nat : n = Len(t) /\ DOMAIN t = 1 .. n
  OBVIOUS
<1>3. h \in 1 .. i - 1 /\ i \in 2 .. n /\ InBody(t, h, i) /\ j \in 2 .. n
  BY <1>1, <1>2, StartIs
<1>4. h \in 1 .. Len(t) /\ i \in h + 1 .. Len(t) /\ h \in 1 .. j - 1
  BY <1>2, <1>3
<1>5. PICK x : x = Entry(t, h, i)
  OBVIOUS
<1>6. PICK e \in i .. Len(t) : To(t, h, i, e) /\ x \in Passages /\ Len(x) = e - i + 1
  BY <1>4, <1>5, EntryIs
<1>7. SUFFICES ASSUME j <= e PROVE FALSE
  BY <1>1, <1>2, <1>3, <1>5, <1>6
<1>8. Continues(t, h, j)
  <2>1. j \in i + 1 .. e
    BY <1>2, <1>3, <1>6, <1>7
  <2> QED
    BY <1>6, <2>1 DEF To
<1>9. InBody(t, h, j) /\ ~ Begins(t, h, j)
  BY <1>8 DEF Continues
<1>10. h = Under(t, j) /\ Begins(t, Under(t, j), j)
  BY <1>4, <1>9, StartIs
<1> QED
  BY <1>9, <1>10

\* The entries of U, among the modules ms, stand in the text t, each in lines of its own.
Standing(t, ms, U) ==
  \E pos \in [DOMAIN ms -> Nat] : \A n \in U :
    /\ Placed(t, ms[n].original, pos[n])
    /\ \A m \in U : m # n => \/ pos[n] + Len(ms[n].original) <= pos[m]
                             \/ pos[m] + Len(ms[m].original) <= pos[n]

\* A module is an entry with the heading above it.
LEMMA ModuleIs ==
  ASSUME NEW t \in Seq(Lines), NEW i \in Starts(t)
  PROVE  ModuleAt(t, i) \in Slots /\ ModuleAt(t, i).original = Entry(t, Under(t, i), i)
<1>1. PICK h : h = Under(t, i)
  OBVIOUS
<1>2. PICK n \in Nat : n = Len(t) /\ DOMAIN t = 1 .. n
  OBVIOUS
<1>3. h \in 1 .. i - 1 /\ i \in 2 .. n
  BY <1>1, <1>2, StartIs
<1>4. PICK c : c = Cardinality({j \in h + 1 .. i - 1 : Begins(t, h, j)})
  OBVIOUS
<1>5. c \in Nat
  <2>1. h + 1 \in Int /\ i - 1 \in Int
    BY <1>3
  <2>2. IsFiniteSet(h + 1 .. i - 1)
    BY <2>1, FS_Interval
  <2>3. IsFiniteSet({j \in h + 1 .. i - 1 : Begins(t, h, j)})
    BY <2>2, FS_Subset
  <2> QED
    BY <1>4, <2>3, FS_CardinalityType
<1>6. ModuleAt(t, i) = [module |-> t[h], index |-> c, original |-> Entry(t, h, i)]
  BY <1>1, <1>4, Zenon DEF ModuleAt, Under
<1>7. t[h] \in Lines /\ Entry(t, h, i) \in Passages
  <2>1. h \in 1 .. Len(t)
    BY <1>2, <1>3
  <2>2. Clean(Entry(t, h, i))
    BY <1>1, EntryIsClean
  <2> QED
    BY <2>1, <2>2 DEF Clean
<1>8. ModuleAt(t, i) \in Slots
  BY <1>5, <1>6, <1>7 DEF Slots
<1> QED
  BY <1>1, <1>6, <1>8

\* The modules of a text: clean entries that stand in it.
LEMMA ModulesAre ==
  ASSUME NEW t \in Seq(Lines)
  PROVE  /\ Modules(t) \in Seq(Slots)
         /\ \A n \in DOMAIN Modules(t) : Clean(Modules(t)[n].original)
         /\ Standing(t, Modules(t), DOMAIN Modules(t))
<1>1. PICK S : S = Starts(t)
  OBVIOUS
<1>2. S \subseteq Nat /\ IsFiniteSet(S)
  <2>1. PICK l \in Nat : DOMAIN t = 1 .. l
    OBVIOUS
  <2>2. S \subseteq 1 .. l
    BY <1>1, <2>1 DEF Starts
  <2>3. IsFiniteSet(1 .. l)
    BY FS_Interval
  <2>4. IsFiniteSet(S)
    BY <2>2, <2>3, FS_Subset
  <2>5. 1 .. l \subseteq Nat
    OBVIOUS
  <2> QED
    BY <2>2, <2>4, <2>5
<1>3. PICK q : q = InOrder(S)
  OBVIOUS
<1>4. q \in Seq(S) /\ IsInjective(q)
  BY <1>2, <1>3, InOrderIs
<1>5. PICK l \in Nat : DOMAIN q = 1 .. l
  BY <1>4
<1>6. PICK M : M = [n \in 1 .. l |-> ModuleAt(t, q[n])]
  OBVIOUS
<1>7. Modules(t) = M
  <2>1. Modules(t) = [n \in DOMAIN q |-> ModuleAt(t, q[n])]
    BY <1>1, <1>3, Zenon DEF Modules
  <2> QED
    BY <1>5, <1>6, <2>1
<1>8. \A n \in 1 .. l : q[n] \in S
  BY <1>4, <1>5
<1>9. \A n \in 1 .. l : M[n] \in Slots /\ M[n].original = Entry(t, Under(t, q[n]), q[n])
  BY <1>1, <1>6, <1>8, ModuleIs
<1>10. M \in [1 .. l -> Slots] /\ DOMAIN M = 1 .. l
  BY <1>6, <1>9
<1>11. M \in Seq(Slots)
  BY <1>10
<1>12. \A n \in 1 .. l : Clean(M[n].original) /\ Placed(t, M[n].original, q[n])
  BY <1>1, <1>8, <1>9, EntryIsClean
<1>13. \A n, m \in 1 .. l : m # n => \/ q[n] + Len(M[n].original) <= q[m] \/ q[m] + Len(M[m].original) <= q[n]
  <2> SUFFICES ASSUME NEW n \in 1 .. l, NEW m \in 1 .. l, m # n
               PROVE  \/ q[n] + Len(M[n].original) <= q[m] \/ q[m] + Len(M[m].original) <= q[n]
    OBVIOUS
  <2>1. q[n] # q[m]
    BY <1>4, <1>5 DEF IsInjective
  <2>2. q[n] \in S /\ q[m] \in S /\ q[n] \in Nat /\ q[m] \in Nat
    BY <1>2, <1>8
  <2>3. CASE q[n] < q[m]
    BY <1>1, <1>9, <2>2, <2>3, EntriesApart
  <2>4. CASE q[m] < q[n]
    BY <1>1, <1>9, <2>2, <2>4, EntriesApart
  <2> QED
    BY <2>1, <2>2, <2>3, <2>4
<1>14. q \in [1 .. l -> Nat]
  <2>1. q \in [1 .. l -> S]
    BY <1>4, <1>5
  <2> QED
    BY <1>2, <2>1
<1>15. Standing(t, M, 1 .. l)
  BY <1>10, <1>12, <1>13, <1>14 DEF Standing
<1> QED
  BY <1>7, <1>10, <1>11, <1>12, <1>15

-----------------------------------------------------------------------------
(* Replacing an entry *)

\* What is above the entry stays where it is, what is below moves as a whole.
LEMMA ReplacedIs ==
  ASSUME NEW t \in Seq(Lines), NEW e \in Passages, NEW by \in Passages, NEW i \in Nat, 1 <= i, i + Len(e) - 1 <= Len(t)
  PROVE  /\ Replaced(t, i, e, by) \in Passages /\ Len(Replaced(t, i, e, by)) = Len(t) - Len(e) + Len(by)
         /\ \A k \in 1 .. i - 1 : Replaced(t, i, e, by)[k] = t[k]
         /\ \A k \in i + Len(e) .. Len(t) : Replaced(t, i, e, by)[k - Len(e) + Len(by)] = t[k]
<1>1. PICK n \in Nat : n = Len(t)
  OBVIOUS
<1>2. PICK l \in Nat : l = Len(e) /\ 1 <= l
  BY DEF Passages
<1>3. PICK b \in Nat : b = Len(by) /\ 1 <= b
  BY DEF Passages
<1>4. i + l - 1 <= n
  BY <1>1, <1>2
<1>5. PICK a : a = SubSeq(t, 1, i - 1)
  OBVIOUS
<1>6. PICK z : z = SubSeq(t, i + l, n)
  OBVIOUS
<1>7. a \in Seq(Lines) /\ Len(a) = i - 1 /\ \A k \in 1 .. i - 1 : a[k] = t[k]
  <2>1. \A k \in 1 .. i - 1 : t[k] \in Lines
    BY <1>1, <1>2, <1>4
  <2>2. 1 \in Int /\ i - 1 \in Int /\ (i - 1) - 1 + 1 = i - 1
    OBVIOUS
  <2>3. /\ a \in Seq(Lines) /\ Len(a) = IF 1 <= i - 1 THEN (i - 1) - 1 + 1 ELSE 0
        /\ \A k \in 1 .. (i - 1) - 1 + 1 : a[k] = t[1 + k - 1]
    BY <1>5, <2>1, <2>2, SubSeqProperties
  <2>4. \A k \in 1 .. i - 1 : 1 + k - 1 = k
    OBVIOUS
  <2> QED
    BY <2>2, <2>3, <2>4
<1>8. PICK m \in Nat : m = n - (i + l) + 1
  <2>1. n - (i + l) + 1 \in Nat
    BY <1>4
  <2> QED
    BY <2>1
<1>9. z \in Seq(Lines) /\ Len(z) = m /\ \A k \in 1 .. m : z[k] = t[i + l + k - 1]
  <2>1. \A k \in i + l .. n : t[k] \in Lines
    BY <1>1, <1>2
  <2>2. i + l \in Int /\ n \in Int /\ (IF i + l <= n THEN n - (i + l) + 1 ELSE 0) = m
    BY <1>8
  <2>3. /\ z \in Seq(Lines) /\ Len(z) = IF i + l <= n THEN n - (i + l) + 1 ELSE 0
        /\ \A k \in 1 .. n - (i + l) + 1 : z[k] = t[i + l + k - 1]
    BY <1>6, <2>1, <2>2, SubSeqProperties
  <2> QED
    BY <1>8, <2>2, <2>3
<1>10. PICK x : x = a \o by
  OBVIOUS
<1>11. PICK r : r = x \o z
  OBVIOUS
<1>12. x \in Seq(Lines) /\ Len(x) = i - 1 + b /\ \A k \in 1 .. i - 1 : x[k] = t[k]
  <2>1. by \in Seq(Lines)
    BY DEF Passages
  <2>2. /\ x \in Seq(Lines) /\ Len(x) = Len(a) + Len(by)
        /\ \A k \in 1 .. Len(a) + Len(by) : x[k] = IF k <= Len(a) THEN a[k] ELSE by[k - Len(a)]
    BY <1>7, <1>10, <2>1, ConcatProperties
  <2>3. \A k \in 1 .. i - 1 : k \in 1 .. Len(a) + Len(by) /\ k <= Len(a)
    BY <1>3, <1>7
  <2> QED
    BY <1>3, <1>7, <2>2, <2>3
<1>13. /\ r \in Seq(Lines) /\ Len(r) = i - 1 + b + m
       /\ \A k \in 1 .. i - 1 + b + m : r[k] = IF k <= i - 1 + b THEN x[k] ELSE z[k - (i - 1 + b)]
  <2>1. PICK p \in Nat : p = Len(x) /\ p = i - 1 + b
    BY <1>12
  <2>2. /\ r \in Seq(Lines) /\ Len(r) = Len(x) + Len(z)
        /\ \A k \in 1 .. Len(x) + Len(z) : r[k] = IF k <= Len(x) THEN x[k] ELSE z[k - Len(x)]
    BY <1>9, <1>11, <1>12, ConcatProperties
  <2> QED
    BY <1>9, <2>1, <2>2
<1>14. i - 1 + b + m = n - l + b /\ 1 <= n - l + b
  BY <1>2, <1>3, <1>4, <1>8
<1>15. \A k \in 1 .. i - 1 : r[k] = t[k]
  <2>1. \A k \in 1 .. i - 1 : k \in 1 .. i - 1 + b + m /\ k <= i - 1 + b
    BY <1>3, <1>8
  <2> QED
    BY <1>12, <1>13, <2>1
<1>16. \A k \in i + l .. n : r[k - l + b] = t[k]
  <2> SUFFICES ASSUME NEW k \in i + l .. n PROVE r[k - l + b] = t[k]
    OBVIOUS
  <2>1. PICK j \in 1 .. m : j = k - (i + l) + 1
    BY <1>8
  <2>2. /\ k - l + b \in 1 .. i - 1 + b + m /\ ~ (k - l + b <= i - 1 + b)
        /\ (k - l + b) - (i - 1 + b) = j /\ i + l + j - 1 = k
    BY <1>3, <1>8, <2>1
  <2>3. r[k - l + b] = z[j]
    BY <1>13, <2>2
  <2> QED
    BY <1>9, <2>2, <2>3
<1>17. r = Replaced(t, i, e, by)
  BY <1>1, <1>2, <1>5, <1>6, <1>10, <1>11 DEF Replaced
<1>18. r \in Passages
  BY <1>3, <1>13, <1>14 DEF Passages
<1> QED
  BY <1>1, <1>2, <1>3, <1>13, <1>14, <1>15, <1>16, <1>17, <1>18

\* An entry that occurs once is found in the line where it stands.
LEMMA FoundInPlace ==
  ASSUME NEW t \in Seq(Lines), NEW e, Clean(e), NEW p, Placed(t, e, p), Once(t, e), ~ DatedTwice(e)
  PROVE  First(Found(t, e)) = p
<1>1. PICK l \in Nat : l = Len(e) /\ 1 <= l /\ e \in Passages
  BY DEF Clean, Passages
<1>2. \A i : i \in Found(t, e) <=> /\ i \in Nat /\ 1 <= i /\ i + l - 1 <= Len(t)
                                  /\ \A k \in 1 .. l : t[i + k - 1] = e[k]
  BY <1>1, FoundIs
<1>3. p \in Nat /\ 1 <= p /\ p \in Found(t, e)
  BY <1>1, <1>2 DEF Placed
<1>4. PICK i : i = First(Found(t, e))
  OBVIOUS
<1>5. i \in Found(t, e) /\ i <= p
  <2>1. Found(t, e) \in SUBSET Nat
    BY <1>2
  <2> QED
    BY <1>3, <1>4, <2>1, FirstIs
<1>6. i \in Nat /\ 1 <= i /\ \A k \in 1 .. l : t[i + k - 1] = e[k]
  BY <1>2, <1>5
<1>7. p < i + l
  BY <1>1, <1>3, <1>5 DEF Once
<1>8. SUFFICES ASSUME i # p PROVE FALSE
  BY <1>4
<1>9. PICK d \in 1 .. l - 1 : p = i + d
  <2>1. p - i \in 1 .. l - 1 /\ p = i + (p - i)
    BY <1>1, <1>3, <1>5, <1>6, <1>7, <1>8
  <2> QED
    BY <2>1
<1>10. e[1] = e[d + 1]
  <2>1. d + 1 \in 1 .. l /\ i + (d + 1) - 1 = p /\ 1 \in 1 .. l /\ p + 1 - 1 = p
    BY <1>1, <1>3, <1>6, <1>9
  <2>2. t[p] = e[d + 1]
    BY <1>6, <2>1
  <2>3. t[p] = e[1]
    <3>1. \A k \in 1 .. l : t[p + k - 1] = e[k]
      BY <1>1 DEF Placed
    <3> QED
      BY <2>1, <3>1
  <2> QED
    BY <2>2, <2>3
<1>11. KindOf[e[1]] \notin {"title", "date"}
  <2>1. d + 1 \in 2 .. l /\ (d + 1 = 2 => d = 1)
    BY <1>9
  <2>2. KindOf[e[d + 1]] # "title" /\ (KindOf[e[d + 1]] = "date" => d + 1 = 2)
    BY <1>1, <2>1 DEF Clean
  <2>3. ASSUME KindOf[e[1]] = "date" PROVE FALSE
    <3>1. d = 1 /\ e[1] = e[2] /\ l > 1
      BY <1>9, <1>10, <2>1, <2>2, <2>3
    <3> QED
      BY <1>1, <2>3, <3>1 DEF DatedTwice
  <2> QED
    BY <1>10, <2>2, <2>3
<1>12. KindOf[t[p - 1]] \in Around
  BY <1>11 DEF Placed
<1>13. t[p - 1] = e[d]
  <2>1. d \in 1 .. l /\ i + d - 1 = p - 1
    BY <1>6, <1>9
  <2> QED
    BY <1>6, <2>1
<1>14. KindOf[e[d]] \notin Around
  BY <1>1, <1>9 DEF Clean
<1> QED
  BY <1>12, <1>13, <1>14

\* What stands in the text stays in it when another entry is replaced.
LEMMA ReplaceKeeps ==
  ASSUME NEW t \in Seq(Lines), NEW ms, NEW U \in SUBSET DOMAIN ms, \A n \in DOMAIN ms : Clean(ms[n].original),
         Standing(t, ms, U), NEW f \in U, NEW by \in Passages,
         Once(t, ms[f].original), ~ DatedTwice(ms[f].original)
  PROVE  LET e == ms[f].original
             r == Replaced(t, First(Found(t, e)), e, by)
         IN  r \in Passages /\ Standing(r, ms, U \ {f})
<1>1. PICK pos \in [DOMAIN ms -> Nat] : \A n \in U :
        /\ Placed(t, ms[n].original, pos[n])
        /\ \A m \in U : m # n => \/ pos[n] + Len(ms[n].original) <= pos[m]
                                 \/ pos[m] + Len(ms[m].original) <= pos[n]
  BY DEF Standing
<1>2. PICK e : e = ms[f].original
  OBVIOUS
<1>3. Clean(e) /\ Placed(t, e, pos[f]) /\ Once(t, e) /\ ~ DatedTwice(e) /\ e \in Passages
  BY <1>1, <1>2 DEF Clean
<1>4. PICK p \in Nat : p = pos[f]
  BY <1>1
<1>5. First(Found(t, e)) = p
  BY <1>3, <1>4, FoundInPlace
<1>6. PICK r : r = Replaced(t, p, e, by)
  OBVIOUS
<1>7. PICK n \in Nat : n = Len(t)
  OBVIOUS
<1>8. PICK l \in Nat : l = Len(e) /\ 1 <= l
  BY <1>3 DEF Passages
<1>9. PICK b \in Nat : b = Len(by) /\ 1 <= b
  BY DEF Passages
<1>10. 1 <= p /\ p + l - 1 <= n
  BY <1>3, <1>4, <1>7, <1>8 DEF Placed
<1>11. /\ r \in Passages /\ Len(r) = n - l + b
       /\ \A k \in 1 .. p - 1 : r[k] = t[k]
       /\ \A k \in p + l .. n : r[k - l + b] = t[k]
  <2>1. p + Len(e) - 1 <= Len(t) /\ e \in Passages
    BY <1>3, <1>7, <1>8, <1>10
  <2>2. 1 <= p
    BY <1>10
  <2>3. /\ Replaced(t, p, e, by) \in Passages /\ Len(Replaced(t, p, e, by)) = Len(t) - Len(e) + Len(by)
        /\ \A k \in 1 .. p - 1 : Replaced(t, p, e, by)[k] = t[k]
        /\ \A k \in p + Len(e) .. Len(t) : Replaced(t, p, e, by)[k - Len(e) + Len(by)] = t[k]
    BY <2>1, <2>2, ReplacedIs, Zenon
  <2>4. /\ r \in Passages /\ Len(r) = Len(t) - Len(e) + Len(by)
        /\ \A k \in 1 .. p - 1 : r[k] = t[k]
        /\ \A k \in p + Len(e) .. Len(t) : r[k - Len(e) + Len(by)] = t[k]
    BY <1>6, <2>3, Zenon
  <2> QED
    BY <1>7, <1>8, <1>9, <2>4
<1>12. PICK new : new = [m \in DOMAIN ms |-> IF pos[m] < p THEN pos[m] ELSE IF pos[m] < l THEN 0 ELSE pos[m] - l + b]
  OBVIOUS
<1>13. new \in [DOMAIN ms -> Nat]
  <2>1. \A m \in DOMAIN ms : (IF pos[m] < p THEN pos[m] ELSE IF pos[m] < l THEN 0 ELSE pos[m] - l + b) \in Nat
    BY <1>1
  <2> QED
    BY <1>12, <2>1
<1>14. \A m \in U \ {f} :
         LET o == ms[m].original IN
         /\ Placed(t, o, pos[m]) /\ Len(o) \in Nat \ {0} /\ pos[m] \in Nat
         /\ \/ pos[m] + Len(o) <= p /\ new[m] = pos[m]
            \/ p + l <= pos[m] /\ new[m] = pos[m] - l + b
  <2> SUFFICES ASSUME NEW m \in U \ {f}
               PROVE  LET o == ms[m].original IN
                      /\ Placed(t, o, pos[m]) /\ Len(o) \in Nat \ {0} /\ pos[m] \in Nat
                      /\ \/ pos[m] + Len(o) <= p /\ new[m] = pos[m]
                         \/ p + l <= pos[m] /\ new[m] = pos[m] - l + b
    OBVIOUS
  <2>1. PICK o : o = ms[m].original
    OBVIOUS
  <2>2. Placed(t, o, pos[m]) /\ Clean(o) /\ pos[m] \in Nat
    BY <1>1, <2>1
  <2>3. PICK c \in Nat \ {0} : c = Len(o)
    BY <2>2 DEF Clean, Passages
  <2>4. pos[m] + c <= p \/ p + l <= pos[m]
    BY <1>1, <1>2, <1>4, <1>8, <2>1, <2>3
  <2>5. new[m] = IF pos[m] < p THEN pos[m] ELSE IF pos[m] < l THEN 0 ELSE pos[m] - l + b
    BY <1>12
  <2>6. pos[m] + c <= p => pos[m] < p
    BY <2>2, <2>3
  <2>7. p + l <= pos[m] => ~ (pos[m] < p) /\ ~ (pos[m] < l)
    BY <2>2
  <2> QED
    BY <2>1, <2>2, <2>3, <2>4, <2>5, <2>6, <2>7
<1>15. ASSUME NEW m \in U \ {f} PROVE Placed(r, ms[m].original, new[m])
  <2>1. PICK o : o = ms[m].original
    OBVIOUS
  <2>2. PICK q \in Nat : q = pos[m]
    BY <1>14
  <2>3. PICK c \in Nat \ {0} : c = Len(o)
    BY <1>14, <2>1
  <2>4. /\ 1 <= q /\ q + c - 1 <= n /\ \A k \in 1 .. c : t[q + k - 1] = o[k]
        /\ KindOf[o[1]] \in {"title", "date"} \/ (1 < q /\ KindOf[t[q - 1]] \in Around)
    <3>1. Placed(t, o, q)
      BY <1>14, <2>1, <2>2
    <3> QED
      BY <1>7, <2>3, <3>1 DEF Placed
  <2>5. \/ q + c <= p /\ new[m] = q
        \/ p + l <= q /\ new[m] = q - l + b
    BY <1>14, <2>1, <2>2, <2>3
  <2>6. CASE q + c <= p /\ new[m] = q
    <3>1. q + c - 1 <= n - l + b
      BY <1>8, <1>9, <1>10, <2>6
    <3>2. \A k \in 1 .. c : q + k - 1 \in 1 .. p - 1
      BY <2>4, <2>6
    <3>3. 1 < q => q - 1 \in 1 .. p - 1
      BY <2>6, <2>3
    <3> QED
      BY <1>11, <2>1, <2>3, <2>4, <2>6, <3>1, <3>2, <3>3 DEF Placed
  <2>7. CASE p + l <= q /\ new[m] = q - l + b
    <3>1. q - l + b \in Nat /\ 1 <= q - l + b /\ (q - l + b) + c - 1 <= n - l + b
      <4>1. p + l <= q /\ q + c - 1 <= n /\ 1 <= p
        BY <1>10, <2>4, <2>7
      <4> QED
        BY <4>1
    <3>2. \A k \in 1 .. c : r[(q - l + b) + k - 1] = o[k]
      <4> SUFFICES ASSUME NEW k \in 1 .. c PROVE r[(q - l + b) + k - 1] = o[k]
        OBVIOUS
      <4>1. q + k - 1 \in p + l .. n /\ (q + k - 1) - l + b = (q - l + b) + k - 1
        BY <2>3, <2>4, <2>7
      <4> QED
        BY <1>11, <2>4, <4>1
    <3>3. KindOf[o[1]] \in {"title", "date"} \/ (1 < q - l + b /\ KindOf[r[(q - l + b) - 1]] \in Around)
      <4>1. CASE q = p + l
        <5>1. q - 1 = p + l - 1 /\ t[p + l - 1] = e[l]
          <6>1. l \in 1 .. l
            BY <1>8
          <6>2. \A k \in 1 .. l : t[p + k - 1] = e[k]
            BY <1>3, <1>4, <1>8 DEF Placed
          <6> QED
            BY <4>1, <6>1, <6>2
        <5>2. KindOf[e[l]] \notin Around
          BY <1>3, <1>8 DEF Clean
        <5> QED
          BY <2>4, <5>1, <5>2
      <4>2. CASE q # p + l
        <5>1. q - 1 \in p + l .. n /\ (q - 1) - l + b = (q - l + b) - 1 /\ 1 < q - l + b
          <6>1. p + l <= q /\ q + c - 1 <= n /\ 1 <= p /\ c >= 1 /\ b >= 1
            BY <1>9, <1>10, <2>4, <2>7
          <6> QED
            BY <4>2, <6>1
        <5>2. r[(q - l + b) - 1] = t[q - 1]
          BY <1>11, <5>1
        <5> QED
          BY <2>4, <5>1, <5>2
      <4> QED
        BY <4>1, <4>2
    <3> QED
      BY <1>11, <2>1, <2>3, <2>7, <3>1, <3>2, <3>3 DEF Placed
  <2> QED
    BY <2>5, <2>6, <2>7
<1>16. ASSUME NEW m \in U \ {f}, NEW k \in U \ {f}, k # m
       PROVE  new[m] + Len(ms[m].original) <= new[k] \/ new[k] + Len(ms[k].original) <= new[m]
  <2>1. PICK c \in Nat \ {0} : c = Len(ms[m].original)
    BY <1>14
  <2>2. PICK d \in Nat \ {0} : d = Len(ms[k].original)
    BY <1>14
  <2>3. PICK x \in Nat : x = pos[m]
    BY <1>14
  <2>4. PICK y \in Nat : y = pos[k]
    BY <1>14
  <2>5. x + c <= y \/ y + d <= x
    BY <1>1, <2>1, <2>2, <2>3, <2>4, <1>16
  <2>6. PICK u : u = new[m]
    OBVIOUS
  <2>7. PICK v : v = new[k]
    OBVIOUS
  <2>8. (x + c <= p /\ u = x) \/ (p + l <= x /\ u = x - l + b)
    BY <1>14, <2>1, <2>3, <2>6
  <2>9. (y + d <= p /\ v = y) \/ (p + l <= y /\ v = y - l + b)
    BY <1>14, <2>2, <2>4, <2>7
  <2>10. u + c <= v \/ v + d <= u
    BY <1>8, <1>9, <2>5, <2>8, <2>9
  <2> QED
    BY <2>1, <2>2, <2>6, <2>7, <2>10
<1>17. Standing(r, ms, U \ {f})
  BY <1>13, <1>15, <1>16 DEF Standing
<1> QED
  BY <1>2, <1>5, <1>6, <1>11, <1>17

-----------------------------------------------------------------------------
(* Applying the items *)

OptItems == [ok : BOOLEAN, module : Lines, index : Nat, original : Passages, optimized : Seq(Lines)]
Swaps    == [from : Passages, over : Passages]
Accs     == [ok : BOOLEAN, text : Passages, swaps : SUBSET Swaps]

\* The entry an item is for is one of the resume's, with its heading and number.
LEMMA FindModuleIs ==
  ASSUME NEW t \in Seq(Lines), NEW item, FindModule(t, item).found
  PROVE  \E n \in DOMAIN Modules(t) : /\ FindModule(t, item).original = Modules(t)[n].original
                                      /\ Modules(t)[n].module = item.module /\ Modules(t)[n].index = item.index
<1>1. PICK all : all = Modules(t)
  OBVIOUS
<1>2. PICK same : same = {n \in DOMAIN all : all[n].module = item.module /\ all[n].index = item.index}
  OBVIOUS
<1>3. FindModule(t, item) = IF same = {} THEN [found |-> FALSE, original |-> <<>>]
                            ELSE [found |-> TRUE, original |-> all[First(same)].original]
  BY <1>1, <1>2, Zenon DEF FindModule
<1>4. same # {}
  BY <1>3
<1>5. same \in SUBSET Nat
  <2>1. PICK l \in Nat : DOMAIN all = 1 .. l
    BY <1>1, ModulesAre
  <2> QED
    BY <1>2, <2>1
<1>6. First(same) \in same
  BY <1>4, <1>5, FirstIs
<1>7. FindModule(t, item).original = all[First(same)].original
  BY <1>3, <1>4
<1> QED
  BY <1>1, <1>2, <1>6, <1>7

\* One item of Applied.
AddItem(base, item, acc) ==
  LET m == FindModule(base, item)
  IN  IF acc.ok /\ m.found /\ Once(acc.text, m.original)
        THEN [ok |-> TRUE,
              text |-> Replaced(acc.text, First(Found(acc.text, m.original)), m.original, item.optimized),
              swaps |-> acc.swaps \union {[from |-> item.original, over |-> m.original]}]
        ELSE [acc EXCEPT !.ok = FALSE]

Untouched(base, items) ==
  [ok |-> \A i, j \in DOMAIN items : i # j => Key(items[i]) # Key(items[j]), text |-> base, swaps |-> {}]

LEMMA AddItemFits ==
  ASSUME NEW base \in Passages, NEW item \in OptItems, item.optimized \in Passages, NEW acc \in Accs
  PROVE  AddItem(base, item, acc) \in Accs
<1>1. PICK m : m = FindModule(base, item)
  OBVIOUS
<1>2. base \in Seq(Lines) /\ acc.text \in Seq(Lines) /\ acc.swaps \in SUBSET Swaps /\ item.original \in Passages
  BY DEF Passages, Accs, OptItems
<1>3. CASE acc.ok /\ m.found /\ Once(acc.text, m.original)
  <2>1. PICK n \in DOMAIN Modules(base) : m.original = Modules(base)[n].original
    BY <1>1, <1>2, <1>3, FindModuleIs
  <2>2. m.original \in Passages
    <3>1. Clean(Modules(base)[n].original)
      BY <1>2, ModulesAre
    <3> QED
      BY <2>1, <3>1 DEF Clean
  <2>3. PICK i : i = First(Found(acc.text, m.original))
    OBVIOUS
  <2>4. i \in Nat /\ 1 <= i /\ i + Len(m.original) - 1 <= Len(acc.text)
    <3>1. \A j : j \in Found(acc.text, m.original) => j \in Nat /\ 1 <= j /\ j + Len(m.original) - 1 <= Len(acc.text)
      BY <1>2, <2>2, FoundIs
    <3>2. Found(acc.text, m.original) \in SUBSET Nat /\ Found(acc.text, m.original) # {}
      BY <1>3, <3>1 DEF Once
    <3>3. i \in Found(acc.text, m.original)
      BY <2>3, <3>2, FirstIs
    <3> QED
      BY <3>1, <3>3
  <2>5. PICK r : r = Replaced(acc.text, i, m.original, item.optimized)
    OBVIOUS
  <2>6. r \in Passages
    BY <1>2, <2>2, <2>4, <2>5, ReplacedIs
  <2>7. [from |-> item.original, over |-> m.original] \in Swaps
    BY <1>2, <2>2 DEF Swaps
  <2>8. AddItem(base, item, acc) = [ok |-> TRUE, text |-> r, swaps |-> acc.swaps \union {[from |-> item.original, over |-> m.original]}]
    BY <1>1, <1>3, <2>3, <2>5 DEF AddItem
  <2>9. acc.swaps \union {[from |-> item.original, over |-> m.original]} \in SUBSET Swaps
    BY <1>2, <2>7
  <2> QED
    BY <2>6, <2>8, <2>9 DEF Accs
<1>4. CASE ~ (acc.ok /\ m.found /\ Once(acc.text, m.original))
  <2>1. AddItem(base, item, acc) = [acc EXCEPT !.ok = FALSE]
    BY <1>1, <1>4, Zenon DEF AddItem
  <2> QED
    BY <2>1 DEF Accs
<1> QED
  BY <1>3, <1>4

\* The items are applied one after the other.
LEMMA AppliedIs ==
  ASSUME NEW base \in Passages, NEW items \in Seq(OptItems), \A k \in DOMAIN items : items[k].optimized \in Passages
  PROVE  \E g \in [0 .. Len(items) -> Accs] :
           /\ g[0] = Untouched(base, items)
           /\ \A k \in 1 .. Len(items) : g[k] = AddItem(base, items[k], g[k - 1])
           /\ Applied(base, items) = g[Len(items)]
<1>1. PICK n \in Nat : n = Len(items) /\ DOMAIN items = 1 .. n
  OBVIOUS
<1>2. PICK x : x = Untouched(base, items)
  OBVIOUS
<1>3. x \in Accs
  BY <1>2 DEF Untouched, Accs, Swaps
<1> DEFINE F == [k \in 1 .. n |-> [a \in Accs |-> AddItem(base, items[k], a)]]
           Table(f) == f = [k \in 0 .. Len(items) |-> IF k = 0 THEN Untouched(base, items) ELSE AddItem(base, items[k], f[k - 1])]
<1>4. \A k \in 1 .. n : \A a \in Accs : F[k][a] = AddItem(base, items[k], a)
  OBVIOUS
<1>5. \A k \in 1 .. n : \A a \in Accs : AddItem(base, items[k], a) \in Accs
  <2>1. \A k \in 1 .. n : items[k] \in OptItems /\ items[k].optimized \in Passages
    BY <1>1
  <2> QED
    BY <2>1, AddItemFits
<1>6. PICK g : Computes(g, n, Accs, x, F)
  <2> HIDE DEF F
  <2>1. StaysIn(n, Accs, F)
    BY <1>4, <1>5 DEF StaysIn
  <2> QED
    BY <1>3, <2>1, StepsExist
<1>7. g \in [0 .. n -> Accs] /\ g = [k \in 0 .. n |-> IF k = 0 THEN x ELSE F[k][g[k - 1]]]
  <2> HIDE DEF F
  <2> QED
    BY <1>6 DEF Computes
<1>8. Table(g)
  <2>1. \A k \in 0 .. n : k # 0 => k \in 1 .. n /\ k - 1 \in 0 .. n /\ g[k - 1] \in Accs
    <3> HIDE DEF F
    <3>1. \A k \in 0 .. n : k # 0 => k \in 1 .. n /\ k - 1 \in 0 .. n
      OBVIOUS
    <3> QED
      BY <1>7, <3>1
  <2>2. \A k \in 0 .. n : g[k] = IF k = 0 THEN x ELSE AddItem(base, items[k], g[k - 1])
    <3> HIDE DEF F
    <3> QED
      BY <1>4, <1>7, <2>1
  <2>3. g = [k \in 0 .. n |-> g[k]]
    <3> HIDE DEF F
    <3> QED
      BY <1>7
  <2> HIDE DEF F
  <2> QED
    BY <1>1, <1>2, <2>2, <2>3
<1>9. PICK h : h = CHOOSE f : Table(f)
  OBVIOUS
<1>10. Table(h)
  <2> HIDE DEF Table, F
  <2> QED
    BY <1>8, <1>9
<1>11. Applied(base, items) = h[Len(items)]
  BY <1>9, Zenon DEF Applied, AddItem, Untouched
<1> HIDE DEF F
<1>12. h[0] = x /\ \A k \in 1 .. n : h[k] = AddItem(base, items[k], h[k - 1])
  BY <1>1, <1>2, <1>10
<1>13. h \in [0 .. n -> Accs]
  <2> DEFINE P == {k \in 0 .. n : h[k] \in Accs}
  <2>1. 0 \in P
    BY <1>3, <1>12
  <2>2. ASSUME NEW k \in 0 .. n, k \in P, k < n PROVE k + 1 \in P
    <3>1. k + 1 \in 1 .. n /\ k + 1 \in 0 .. n /\ (k + 1) - 1 = k
      BY <2>2
    <3>2. h[k + 1] = AddItem(base, items[k + 1], h[k]) /\ h[k] \in Accs
      BY <1>12, <2>2, <3>1
    <3> QED
      BY <1>5, <3>1, <3>2
  <2>3. \A k \in 0 .. n : k \in P
    <3> HIDE DEF P
    <3>1. \A k \in 0 .. n : k \in P /\ k < n => k + 1 \in P
      BY <2>2
    <3> QED
      BY <2>1, <3>1, CountedInduction
  <2>4. DOMAIN h = 0 .. n /\ h = [k \in 0 .. n |-> h[k]]
    BY <1>1, <1>10
  <2> QED
    BY <2>3, <2>4
<1> QED
  BY <1>1, <1>2, <1>11, <1>12, <1>13

\* The entries of the base that no item has replaced stand in the text of acc; every other one
\* has the heading and number of one of the first k items.
Remain(base, items, k, acc) ==
  \E U \in SUBSET DOMAIN Modules(base) :
    /\ Standing(acc.text, Modules(base), U)
    /\ \A n \in DOMAIN Modules(base) \ U :
         /\ \E s \in acc.swaps : s.over = Modules(base)[n].original
         /\ \E j \in 1 .. k : Key(items[j]) = Key(Modules(base)[n])

LEMMA AddItemKeeps ==
  ASSUME NEW base \in Passages, NEW items \in Seq(OptItems), NEW k \in 1 .. Len(items), NEW acc \in Accs,
         \A i, j \in DOMAIN items : i # j => Key(items[i]) # Key(items[j]),
         items[k].optimized \in Passages, Remain(base, items, k - 1, acc),
         AddItem(base, items[k], acc).ok,
         \A s \in AddItem(base, items[k], acc).swaps : ~ DatedTwice(s.over)
  PROVE  Remain(base, items, k, AddItem(base, items[k], acc))
<1>1. PICK item : item = items[k]
  OBVIOUS
<1>2. PICK ms : ms = Modules(base)
  OBVIOUS
<1>3. PICK m : m = FindModule(base, item)
  OBVIOUS
<1>4. PICK r : r = AddItem(base, item, acc)
  OBVIOUS
<1>5. base \in Seq(Lines) /\ acc.text \in Seq(Lines)
  BY DEF Passages, Accs
<1>6. /\ acc.ok /\ m.found /\ Once(acc.text, m.original)
      /\ r = [ok |-> TRUE,
              text |-> Replaced(acc.text, First(Found(acc.text, m.original)), m.original, item.optimized),
              swaps |-> acc.swaps \union {[from |-> item.original, over |-> m.original]}]
  <2>1. r = IF acc.ok /\ m.found /\ Once(acc.text, m.original)
              THEN [ok |-> TRUE,
                    text |-> Replaced(acc.text, First(Found(acc.text, m.original)), m.original, item.optimized),
                    swaps |-> acc.swaps \union {[from |-> item.original, over |-> m.original]}]
              ELSE [acc EXCEPT !.ok = FALSE]
    BY <1>3, <1>4, Zenon DEF AddItem
  <2>2. [acc EXCEPT !.ok = FALSE].ok = FALSE
    BY DEF Accs
  <2>3. r.ok
    BY <1>1, <1>4
  <2> QED
    BY <2>1, <2>2, <2>3
<1>7. PICK f \in DOMAIN ms : m.original = ms[f].original /\ ms[f].module = item.module /\ ms[f].index = item.index
  BY <1>2, <1>3, <1>5, <1>6, FindModuleIs
<1>8. PICK U \in SUBSET DOMAIN ms :
        /\ Standing(acc.text, ms, U)
        /\ \A n \in DOMAIN ms \ U : /\ \E s \in acc.swaps : s.over = ms[n].original
                                    /\ \E j \in 1 .. k - 1 : Key(items[j]) = Key(ms[n])
  BY <1>2 DEF Remain
<1>9. Key(item) = Key(ms[f])
  BY <1>7 DEF Key
<1>10. f \in U
  <2> SUFFICES ASSUME f \notin U PROVE FALSE
    OBVIOUS
  <2>1. PICK j \in 1 .. k - 1 : Key(items[j]) = Key(ms[f])
    BY <1>8
  <2>2. j \in DOMAIN items /\ k \in DOMAIN items /\ j # k
    OBVIOUS
  <2> QED
    BY <1>1, <1>9, <2>1, <2>2
<1>11. ~ DatedTwice(m.original)
  <2>1. PICK s : s = [from |-> item.original, over |-> m.original]
    OBVIOUS
  <2>2. s \in r.swaps /\ s.over = m.original
    BY <1>6, <2>1
  <2> QED
    BY <1>1, <1>4, <2>2
<1>12. \A n \in DOMAIN ms : Clean(ms[n].original)
  BY <1>2, <1>5, ModulesAre
<1>13. Standing(r.text, ms, U \ {f})
  <2>1. item.optimized \in Passages
    BY <1>1
  <2>2. Once(acc.text, ms[f].original) /\ ~ DatedTwice(ms[f].original)
    BY <1>6, <1>7, <1>11
  <2>3. Standing(Replaced(acc.text, First(Found(acc.text, ms[f].original)), ms[f].original, item.optimized), ms, U \ {f})
    BY <1>5, <1>8, <1>10, <1>12, <2>1, <2>2, ReplaceKeeps
  <2> QED
    BY <1>6, <1>7, <2>3
<1>14. ASSUME NEW n \in DOMAIN ms \ (U \ {f})
       PROVE  /\ \E s \in r.swaps : s.over = ms[n].original
              /\ \E j \in 1 .. k : Key(items[j]) = Key(ms[n])
  <2>1. CASE n = f
    <3>1. PICK s : s = [from |-> item.original, over |-> m.original]
      OBVIOUS
    <3>2. s \in r.swaps /\ s.over = ms[f].original
      BY <1>6, <1>7, <3>1
    <3>3. k \in 1 .. k
      OBVIOUS
    <3> QED
      BY <1>1, <1>9, <2>1, <3>2, <3>3
  <2>2. CASE n # f
    <3>1. n \in DOMAIN ms \ U
      BY <2>2
    <3>2. PICK s \in acc.swaps : s.over = ms[n].original
      BY <1>8, <3>1
    <3>3. PICK j \in 1 .. k - 1 : Key(items[j]) = Key(ms[n])
      BY <1>8, <3>1
    <3>4. s \in r.swaps /\ j \in 1 .. k
      BY <1>6
    <3> QED
      BY <3>2, <3>3, <3>4
  <2> QED
    BY <2>1, <2>2
<1>15. Remain(base, items, k, r)
  BY <1>2, <1>13, <1>14 DEF Remain
<1> QED
  BY <1>1, <1>4, <1>15

\* What was applied: the entries that no item replaced are in the new text.
LEMMA AppliedKeeps ==
  ASSUME NEW base \in Passages, NEW items \in Seq(OptItems), \A k \in DOMAIN items : items[k].optimized \in Passages
  PROVE  LET d == Applied(base, items)
         IN  /\ d \in Accs
             /\ d.ok /\ (\A s \in d.swaps : ~ DatedTwice(s.over)) =>
                  \A m \in Range(Modules(base)) : (\A s \in d.swaps : s.over # m.original) => Found(d.text, m.original) # {}
<1>1. PICK n \in Nat : n = Len(items) /\ DOMAIN items = 1 .. n
  OBVIOUS
<1>2. PICK g \in [0 .. n -> Accs] :
        /\ g[0] = Untouched(base, items)
        /\ \A k \in 1 .. n : g[k] = AddItem(base, items[k], g[k - 1])
        /\ Applied(base, items) = g[n]
  BY <1>1, AppliedIs
<1>3. base \in Seq(Lines)
  BY DEF Passages
<1>4. g[n] \in Accs
  BY <1>2
<1>5. ASSUME g[n].ok, \A s \in g[n].swaps : ~ DatedTwice(s.over),
             NEW m \in Range(Modules(base)), \A s \in g[n].swaps : s.over # m.original
      PROVE  Found(g[n].text, m.original) # {}
  <2>1. \A k \in 1 .. n : /\ k - 1 \in 0 .. n /\ k \in 0 .. n /\ g[k - 1] \in Accs /\ g[k - 1].swaps \subseteq g[k].swaps
                          /\ g[k].ok => g[k - 1].ok
    <3> SUFFICES ASSUME NEW k \in 1 .. n
                 PROVE  /\ k - 1 \in 0 .. n /\ k \in 0 .. n /\ g[k - 1] \in Accs /\ g[k - 1].swaps \subseteq g[k].swaps
                        /\ g[k].ok => g[k - 1].ok
      OBVIOUS
    <3>1. k - 1 \in 0 .. n /\ k \in 0 .. n
      OBVIOUS
    <3>2. PICK a \in Accs : a = g[k - 1]
      BY <1>2, <3>1
    <3>3. g[k] = AddItem(base, items[k], a)
      BY <1>2, <3>2
    <3>4. PICK f : f = FindModule(base, items[k])
      OBVIOUS
    <3>5. g[k] = IF a.ok /\ f.found /\ Once(a.text, f.original)
                  THEN [ok |-> TRUE,
                        text |-> Replaced(a.text, First(Found(a.text, f.original)), f.original, items[k].optimized),
                        swaps |-> a.swaps \union {[from |-> items[k].original, over |-> f.original]}]
                  ELSE [a EXCEPT !.ok = FALSE]
      BY <3>3, <3>4, Zenon DEF AddItem
    <3>6. [a EXCEPT !.ok = FALSE].ok = FALSE /\ [a EXCEPT !.ok = FALSE].swaps = a.swaps
      BY DEF Accs
    <3>7. a.swaps \subseteq g[k].swaps /\ (g[k].ok => a.ok)
      BY <3>5, <3>6
    <3> QED
      BY <3>1, <3>2, <3>7
  <2> DEFINE Back == {k \in 0 .. n : g[n - k].ok /\ g[n - k].swaps \subseteq g[n].swaps}
  <2>2. \A k \in 0 .. n : g[k].ok /\ g[k].swaps \subseteq g[n].swaps
    <3>1. 0 \in Back
      <4>1. n - 0 = n /\ 0 \in 0 .. n
        OBVIOUS
      <4> QED
        BY <1>5, <4>1
    <3>2. ASSUME NEW k \in 0 .. n, k \in Back, k < n PROVE k + 1 \in Back
      <4>1. k + 1 \in 0 .. n /\ n - k \in 1 .. n /\ n - (k + 1) = (n - k) - 1
        BY <3>2
      <4>2. g[n - k].ok /\ g[n - k].swaps \subseteq g[n].swaps
        BY <3>2
      <4>3. g[(n - k) - 1].ok /\ g[(n - k) - 1].swaps \subseteq g[n].swaps
        BY <2>1, <4>1, <4>2
      <4> QED
        BY <4>1, <4>3
    <3>3. \A k \in 0 .. n : k \in Back
      <4> HIDE DEF Back
      <4>1. \A k \in 0 .. n : k \in Back /\ k < n => k + 1 \in Back
        BY <3>2
      <4> QED
        BY <3>1, <4>1, CountedInduction
    <3> SUFFICES ASSUME NEW k \in 0 .. n PROVE g[k].ok /\ g[k].swaps \subseteq g[n].swaps
      OBVIOUS
    <3>4. n - k \in 0 .. n /\ n - (n - k) = k
      OBVIOUS
    <3>5. n - k \in Back
      <4> HIDE DEF Back
      <4> QED
        BY <3>3, <3>4
    <3> QED
      BY <3>4, <3>5
  <2>3. \A i, j \in DOMAIN items : i # j => Key(items[i]) # Key(items[j])
    <3>1. 0 \in 0 .. n
      OBVIOUS
    <3>2. g[0].ok
      BY <2>2, <3>1
    <3> QED
      BY <1>2, <3>2 DEF Untouched
  <2> DEFINE P == {k \in 0 .. n : Remain(base, items, k, g[k])}
  <2>4. 0 \in P
    <3>1. Standing(base, Modules(base), DOMAIN Modules(base))
      BY <1>3, ModulesAre
    <3>2. g[0].text = base
      BY <1>2 DEF Untouched
    <3>3. Remain(base, items, 0, g[0])
      BY <3>1, <3>2 DEF Remain
    <3> QED
      BY <3>3
  <2>5. ASSUME NEW k \in 0 .. n, k \in P, k < n PROVE k + 1 \in P
    <3>1. PICK j \in 1 .. Len(items) : j = k + 1 /\ j - 1 = k /\ j \in 0 .. n /\ j \in 1 .. n
      BY <1>1, <2>5
    <3>2. PICK a \in Accs : a = g[k]
      BY <2>1, <3>1
    <3>3. g[j] = AddItem(base, items[j], a)
      BY <1>2, <3>1, <3>2
    <3>4. Remain(base, items, j - 1, a)
      BY <2>5, <3>1, <3>2
    <3>5. AddItem(base, items[j], a).ok /\ \A s \in AddItem(base, items[j], a).swaps : ~ DatedTwice(s.over)
      BY <1>5, <2>2, <3>1, <3>3
    <3>6. items[j].optimized \in Passages
      BY <1>1, <3>1
    <3>7. Remain(base, items, j, AddItem(base, items[j], a))
      BY <2>3, <3>4, <3>5, <3>6, AddItemKeeps
    <3> QED
      BY <3>1, <3>3, <3>7
  <2>6. n \in P
    <3> HIDE DEF P
    <3>1. \A k \in 0 .. n : k \in P /\ k < n => k + 1 \in P
      BY <2>5
    <3>2. \A k \in 0 .. n : k \in P
      BY <2>4, <3>1, CountedInduction
    <3> QED
      BY <3>2
  <2>7. PICK U \in SUBSET DOMAIN Modules(base) :
          /\ Standing(g[n].text, Modules(base), U)
          /\ \A i \in DOMAIN Modules(base) \ U : \E s \in g[n].swaps : s.over = Modules(base)[i].original
    <3>1. Remain(base, items, n, g[n])
      BY <2>6
    <3> QED
      BY <3>1 DEF Remain
  <2>8. PICK i \in DOMAIN Modules(base) : m = Modules(base)[i]
    BY DEF Range
  <2>9. i \in U
    BY <1>5, <2>7, <2>8
  <2>10. PICK p : Placed(g[n].text, m.original, p)
    BY <2>7, <2>8, <2>9 DEF Standing
  <2>11. p \in Found(g[n].text, m.original)
    <3>1. m.original \in Passages
      BY <1>3, <2>8, ModulesAre DEF Clean
    <3>2. g[n].text \in Seq(Lines)
      BY <1>4 DEF Accs, Passages
    <3> QED
      BY <2>10, <3>1, <3>2, FoundIs DEF Placed
  <2> QED
    BY <2>11
<1> QED
  BY <1>2, <1>4, <1>5

-----------------------------------------------------------------------------
(* The optimization keeps its types, and what a request will write *)

Optimizing == [at : {"none", "client", "polish", "done"}, runs : Nat, modules : Seq(Slots), items : Seq(OptItems)]
Applications  == [at : {"idle", "write"}, base : Seq(Lines), new : Seq(Lines), swaps : SUBSET Swaps]

ItemsFit ==
  /\ Len(task.items) <= Len(task.modules)
  /\ \A i \in DOMAIN task.items : task.items[i].ok => task.items[i].optimized \in Passages

\* The new text of a request has the entries of its base that the request does not replace.
Keeps(a) == (\A s \in a.swaps : ~ DatedTwice(s.over)) => EntriesKept(a)

AcceptFits(a) ==
  /\ a \in Applications
  /\ a.at = "idle" => a.base = <<>>
  /\ a.at = "write" => a.base \in Passages /\ a.new \in Passages /\ Keeps(a)

OptInv ==
  /\ content \in Passages /\ task \in Optimizing /\ ItemsFit
  /\ DOMAIN accepts = Accepts /\ \A c \in Accepts : AcceptFits(accepts[c])

LEMMA ContentFits == Resumes \subseteq Passages
BY OptimizeAssumption DEF Passages, Lines

LEMMA QuietFits == AcceptFits(Quiet)
<1>1. Quiet.at = "idle" /\ Quiet.base = <<>> /\ Quiet \in Applications
  BY DEF Quiet, Applications
<1> QED
  BY <1>1 DEF AcceptFits

LEMMA OptStarts == ASSUME OptInit PROVE OptInv
<1>1. content \in Passages
  BY ContentFits DEF OptInit
<1>2. task \in Optimizing /\ ItemsFit
  <2>1. task = [at |-> "none", runs |-> 0, modules |-> <<>>, items |-> <<>>]
    BY DEF OptInit
  <2>2. <<>> \in Seq(Slots) /\ <<>> \in Seq(OptItems) /\ Len(<<>>) = 0 /\ DOMAIN <<>> = {}
    OBVIOUS
  <2> QED
    BY <2>1, <2>2 DEF Optimizing, ItemsFit
<1>3. DOMAIN accepts = Accepts /\ \A c \in Accepts : accepts[c] = Quiet
  BY DEF OptInit
<1> QED
  BY <1>1, <1>2, <1>3, QuietFits DEF OptInv

LEMMA ItemTyped ==
  ASSUME NEW m \in Slots, NEW i \in Nat \ {0}
  PROVE  /\ Failed(i, m) \in OptItems /\ ~ Failed(i, m).ok
         /\ \A text \in Polishes : Polished(m, text) \in OptItems /\ Polished(m, text).optimized \in Passages
<1>1. i - 1 \in Nat /\ <<>> \in Seq(Lines)
  OBVIOUS
<1>2. Failed(i, m) \in OptItems /\ ~ Failed(i, m).ok
  BY <1>1 DEF Failed, OptItems, Slots
<1>3. \A text \in Polishes : text \in Passages /\ text \in Seq(Lines)
  BY OptimizeAssumption DEF Passages, Lines
<1>4. \A text \in Polishes : Polished(m, text) \in OptItems /\ Polished(m, text).optimized \in Passages
  BY <1>3 DEF Polished, OptItems, Slots
<1> QED
  BY <1>2, <1>4

LEMMA RunsKeep == ASSUME OptInv, QueueOptimize \/ BuildClient \/ PolishNext PROVE OptInv'
<1>1. UNCHANGED <<content, accepts>> /\ task \in Optimizing /\ ItemsFit
  BY DEF QueueOptimize, BuildClient, PolishNext, OptInv
<1>2. SUFFICES task' \in Optimizing /\ ItemsFit'
  BY <1>1 DEF OptInv, AcceptFits, Keeps
<1>3. CASE QueueOptimize
  <2>1. task' = [at |-> "client", runs |-> task.runs + 1, modules |-> Modules(content), items |-> <<>>]
    BY <1>3 DEF QueueOptimize
  <2>2. Modules(content) \in Seq(Slots) /\ task.runs + 1 \in Nat
    BY <1>1, ModulesAre DEF OptInv, Passages, Optimizing
  <2>3. <<>> \in Seq(OptItems) /\ Len(<<>>) = 0 /\ DOMAIN <<>> = {} /\ Len(Modules(content)) \in Nat
    BY <2>2
  <2> QED
    BY <2>1, <2>2, <2>3 DEF Optimizing, ItemsFit
<1>4. CASE BuildClient
  <2>1. CASE task' = [task EXCEPT !.at = "polish"]
    BY <1>1, <2>1 DEF Optimizing, ItemsFit
  <2>2. CASE task' = [task EXCEPT !.at = "done", !.items = [i \in DOMAIN task.modules |-> Failed(i, task.modules[i])]]
    <3>1. PICK l \in Nat : l = Len(task.modules) /\ DOMAIN task.modules = 1 .. l
      BY <1>1 DEF Optimizing
    <3>2. PICK x : x = [i \in 1 .. l |-> Failed(i, task.modules[i])]
      OBVIOUS
    <3>3. \A i \in 1 .. l : x[i] \in OptItems /\ ~ x[i].ok
      <4>1. \A i \in 1 .. l : task.modules[i] \in Slots /\ i \in Nat \ {0}
        BY <1>1, <3>1 DEF Optimizing
      <4> QED
        BY <3>2, <4>1, ItemTyped
    <3>4. x \in [1 .. l -> OptItems]
      BY <3>2, <3>3
    <3>5. x \in Seq(OptItems) /\ Len(x) = l /\ DOMAIN x = 1 .. l
      BY <3>4
    <3>6. task' = [task EXCEPT !.at = "done", !.items = x]
      BY <2>2, <3>1, <3>2
    <3>7. task' \in Optimizing /\ task'.items = x /\ task'.modules = task.modules
      BY <1>1, <3>5, <3>6 DEF Optimizing
    <3> QED
      BY <3>1, <3>3, <3>5, <3>7 DEF ItemsFit
  <2> QED
    BY <1>4, <2>1, <2>2 DEF BuildClient
<1>5. CASE PolishNext
  <2>1. PICK i : i = Len(task.items) + 1
    OBVIOUS
  <2>2. CASE i > Len(task.modules)
    <3>1. task' = [task EXCEPT !.at = "done"]
      BY <1>5, <2>1, <2>2 DEF PolishNext
    <3> QED
      BY <1>1, <3>1 DEF Optimizing, ItemsFit
  <2>3. CASE ~ (i > Len(task.modules))
    <3>1. PICK item \in {Polished(task.modules[i], text) : text \in Polishes} \union {Failed(i, task.modules[i])} :
            task' = [task EXCEPT !.items = Append(@, item)]
      BY <1>5, <2>1, <2>3 DEF PolishNext
    <3>2. PICK l \in Nat : l = Len(task.modules) /\ DOMAIN task.modules = 1 .. l
      BY <1>1 DEF Optimizing
    <3>3. PICK k \in Nat : k = Len(task.items) /\ DOMAIN task.items = 1 .. k
      BY <1>1 DEF Optimizing
    <3>4. i \in 1 .. l /\ i = k + 1 /\ i \in Nat \ {0}
      BY <2>1, <2>3, <3>2, <3>3
    <3>5. task.modules[i] \in Slots
      BY <1>1, <3>2, <3>4 DEF Optimizing
    <3>6. item \in OptItems /\ (item.ok => item.optimized \in Passages)
      BY <3>1, <3>4, <3>5, ItemTyped
    <3>7. PICK x : x = Append(task.items, item)
      OBVIOUS
    <3>8. task.items \in Seq(OptItems)
      BY <1>1 DEF Optimizing
    <3>9. /\ x \in Seq(OptItems) /\ Len(x) = k + 1 /\ DOMAIN x = 1 .. k + 1
          /\ \A j \in 1 .. k : x[j] = task.items[j]
      BY <3>3, <3>6, <3>7, <3>8
    <3>10. x[k + 1] = item
      BY <3>3, <3>6, <3>7, <3>8
    <3>11. task' \in Optimizing /\ task'.items = x /\ task'.modules = task.modules
      BY <1>1, <3>1, <3>7, <3>9 DEF Optimizing
    <3>12. \A j \in DOMAIN x : x[j].ok => x[j].optimized \in Passages
      <4> SUFFICES ASSUME NEW j \in DOMAIN x, x[j].ok PROVE x[j].optimized \in Passages
        OBVIOUS
      <4>1. CASE j = k + 1
        BY <3>6, <3>10, <4>1
      <4>2. CASE j # k + 1
        <5>1. j \in 1 .. k /\ j \in DOMAIN task.items
          BY <3>3, <3>9, <4>2
        <5> QED
          BY <1>1, <3>9, <5>1 DEF ItemsFit
      <4> QED
        BY <4>1, <4>2
    <3> QED
      BY <3>2, <3>4, <3>9, <3>11, <3>12 DEF ItemsFit
  <2> QED
    BY <2>2, <2>3
<1> QED
  BY <1>3, <1>4, <1>5

LEMMA ReadKeeps == ASSUME OptInv, NEW c \in Accepts, ReadForApply(c) PROVE OptInv'
<1>1. UNCHANGED <<content, task>> /\ content \in Passages /\ task \in Optimizing /\ ItemsFit
      /\ DOMAIN accepts = Accepts
  BY DEF ReadForApply, OptInv
<1>2. PICK chosen \in SUBSET {i \in DOMAIN task.items : task.items[i].ok} \ {{}} :
        LET order == InOrder(chosen)
            done  == Applied(content, [n \in DOMAIN order |-> task.items[order[n]]])
        IN  /\ done.ok
            /\ accepts' = [accepts EXCEPT ![c] = [at |-> "write", base |-> content, new |-> done.text, swaps |-> done.swaps]]
  BY Zenon DEF ReadForApply
<1>3. PICK q : q = InOrder(chosen)
  OBVIOUS
<1>4. PICK items : items = [n \in DOMAIN q |-> task.items[q[n]]]
  OBVIOUS
<1>5. PICK d : d = Applied(content, items)
  OBVIOUS
<1>6. /\ d.ok
      /\ accepts' = [accepts EXCEPT ![c] = [at |-> "write", base |-> content, new |-> d.text, swaps |-> d.swaps]]
  BY <1>2, <1>3, <1>4, <1>5, Zenon
<1>7. PICK k \in Nat : DOMAIN task.items = 1 .. k
  BY <1>1 DEF Optimizing
<1>8. chosen \subseteq 1 .. k /\ \A i \in chosen : task.items[i].ok /\ task.items[i] \in OptItems /\ task.items[i].optimized \in Passages
  BY <1>1, <1>2, <1>7 DEF Optimizing, ItemsFit
<1>9. q \in Seq(chosen)
  <2>1. IsFiniteSet(1 .. k)
    <3>1. 1 \in Int /\ k \in Int
      OBVIOUS
    <3> QED
      BY <3>1, FS_Interval, Zenon
  <2>2. IsFiniteSet(chosen) /\ chosen \subseteq Nat
    <3>1. IsFiniteSet(chosen)
      BY <1>8, <2>1, FS_Subset
    <3> QED
      BY <1>8, <3>1
  <2> QED
    BY <1>3, <2>2, InOrderIs
<1>10. PICK n \in Nat : DOMAIN q = 1 .. n /\ \A j \in 1 .. n : q[j] \in chosen
  BY <1>9
<1>11. items \in [1 .. n -> OptItems] /\ \A j \in 1 .. n : items[j].optimized \in Passages
  BY <1>4, <1>8, <1>10
<1>12. items \in Seq(OptItems) /\ DOMAIN items = 1 .. n
  BY <1>11
<1>13. PICK a : a = [at |-> "write", base |-> content, new |-> d.text, swaps |-> d.swaps]
  OBVIOUS
<1>14. d \in Accs /\ Keeps(a)
  BY <1>1, <1>5, <1>6, <1>11, <1>12, <1>13, AppliedKeeps DEF Keeps, EntriesKept
<1>15. AcceptFits(a)
  <2>1. d.text \in Passages /\ d.text \in Seq(Lines) /\ d.swaps \in SUBSET Swaps /\ content \in Seq(Lines)
    BY <1>1, <1>14 DEF Accs, Passages
  <2>2. a \in Applications
    BY <1>13, <2>1 DEF Applications
  <2> QED
    BY <1>1, <1>13, <1>14, <2>1, <2>2 DEF AcceptFits
<1>16. accepts' = [accepts EXCEPT ![c] = a]
  BY <1>6, <1>13
<1>17. DOMAIN accepts' = Accepts /\ \A x \in Accepts : AcceptFits(accepts'[x])
  BY <1>1, <1>15, <1>16 DEF OptInv
<1>18. ItemsFit'
  BY <1>1 DEF ItemsFit
<1> QED
  BY <1>1, <1>17, <1>18 DEF OptInv, AcceptFits, Keeps

LEMMA OptKeep == ASSUME OptInv, [OptNext]_optVars PROVE OptInv'
<1>1. CASE QueueOptimize \/ BuildClient \/ PolishNext
  BY <1>1, RunsKeep
<1>2. ASSUME NEW c \in Accepts, ReadForApply(c) PROVE OptInv'
  BY <1>2, ReadKeeps
<1>3. ASSUME NEW c \in Accepts, WriteApplied(c) PROVE OptInv'
  <2>1. content' = accepts[c].new /\ accepts' = [accepts EXCEPT ![c] = Quiet] /\ task' = task
    BY <1>3 DEF WriteApplied
  <2>2. accepts[c].new \in Passages
    BY <1>3 DEF WriteApplied, OptInv, AcceptFits
  <2>3. DOMAIN accepts' = Accepts /\ \A x \in Accepts : AcceptFits(accepts'[x])
    BY <2>1, QuietFits DEF OptInv
  <2>4. ItemsFit' /\ task' \in Optimizing
    BY <2>1 DEF OptInv, ItemsFit
  <2> QED
    BY <2>1, <2>2, <2>3, <2>4 DEF OptInv, AcceptFits, Keeps
<1>4. CASE EditResume
  <2>1. content' \in Passages /\ UNCHANGED <<task, accepts>>
    BY <1>4, ContentFits DEF EditResume
  <2> QED
    BY <2>1 DEF OptInv, ItemsFit, AcceptFits, Keeps
<1>5. CASE UNCHANGED optVars
  BY <1>5 DEF optVars, OptInv, ItemsFit, AcceptFits, Keeps
<1> QED
  BY <1>1, <1>2, <1>3, <1>4, <1>5 DEF OptNext

\* Whatever the resume, its edits and the polished entries: what a request to apply will write has the
\* entries of its base that the request does not replace (api/services/resume_optimize.py:134-200).
THEOREM OptInvariance == OptSpec => []OptInv
BY OptStarts, OptKeep, PTL DEF OptSpec

LEMMA OptTyped == OptInv => OptTypeOK
<1>1. ASSUME OptInv PROVE content # <<>> /\ task.at \in {"none", "client", "polish", "done"} /\ Len(task.items) <= Len(task.modules)
  BY <1>1 DEF OptInv, Passages, Optimizing, ItemsFit
<1>2. ASSUME OptInv, NEW c \in Accepts
      PROVE  accepts[c].at \in {"idle", "write"} /\ (accepts[c].at = "idle" <=> accepts[c].base = <<>>)
  BY <1>2 DEF OptInv, AcceptFits, Applications, Passages
<1> QED
  BY <1>1, <1>2 DEF OptTypeOK

\* Every variable of the optimization keeps its type; no version of the resume is empty.
THEOREM OptTypes == OptSpec => []OptTypeOK
BY OptInvariance, OptTyped, PTL

\* "Exact one-occurrence substring replacement keeps unrelated text untouched"
\* (api/services/resume_optimize.py:142-143), unless an entry that is replaced is dated twice.
THEOREM EntriesStay == OptSpec => []OtherEntriesStay
<1>1. OptInv => OtherEntriesStay
  BY DEF OptInv, AcceptFits, Keeps, OtherEntriesStay
<1> QED
  BY <1>1, OptInvariance, PTL

-----------------------------------------------------------------------------
(* The composition that the engine run checks *)

\* A step of the composition is, for each part, one of its own or none.
LEMMA EngineStarts ==
  ASSUME EngineInit PROVE EditorInit /\ LLMInit /\ RankInv /\ OptInit /\ TaskInit
BY RankStarts DEF EngineInit, MCRankInit

LEMMA EngineSteps ==
  ASSUME [EngineNext]_<<part, edVars, llmVars, rankVars, optVars, taskVars>>
  PROVE  [EditorNext]_edVars /\ [LLMNext]_llmVars /\ [RankNext]_rankVars /\ [OptNext]_optVars /\ [TaskNext]_taskVars
BY DEF EngineNext, PipelinePart, ProviderPart, RankingPart, OptimizePart, LedgerPart

\* The pipeline, the calls, the optimization and the ledger of the composition behave as they do alone.
LEMMA EngineParts == EngineSpec => EditorSpec /\ LLMSpec /\ OptSpec /\ TaskSpec
BY EngineStarts, EngineSteps, PTL DEF EngineSpec, EditorSpec, LLMSpec, OptSpec, TaskSpec

\* In the composition every variable of the LLM side keeps its type.
THEOREM EngineTypes == EngineSpec => []EngineTypeOK
<1>1. EngineSpec => []RankTypeOK
  BY EngineStarts, EngineSteps, RankKeep, RankTyped, PTL DEF EngineSpec
<1>2. EditorTypeOK /\ LLMTypeOK /\ RankTypeOK /\ OptTypeOK /\ TaskTypeOK => EngineTypeOK
  BY DEF EngineTypeOK
<1> QED
  BY <1>1, <1>2, EngineParts, EditorTypes, LLMTypes, OptTypes, TaskTypes, PTL

\* In the composition: advice is grounded, a refused bullet keeps its words, calls are metered, accounted
\* for and end at their deadline, entries that no item replaces stay, bookings hold the cap, and a
\* ranking serves what the library holds.
THEOREM EngineIsSafe ==
  EngineSpec => /\ [](/\ AdviceIsGrounded /\ RefusedKeepsItsWords /\ CallsAreMetered
                      /\ DeadlineEndsTheCall /\ CallsAreAccounted /\ OtherEntriesStay /\ BookingsHoldTheCap)
                /\ RankingsServeTheLibrary
<1>1. EngineSpec => RankingsServeTheLibrary
  BY EngineStarts, EngineSteps, RankKeep, SearchesServe, PTL DEF EngineSpec, RankingsServeTheLibrary, ServesNow
<1> QED
  BY <1>1, EngineParts, GroundedAdvice, WordsAreKept, CallsMetered, DeadlinesEnd, AccountsAdd, EntriesStay, CapIsHeld, PTL
=============================================================================
