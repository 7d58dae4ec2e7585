-------------------------- MODULE SessionFileProofs --------------------------
(***************************************************************************)
(* Theorems about the parts of MCWorkspaceSuite: SessionFile, for any number*)
(* of saves and any length of the text; and, below, the search for a Chrome*)
(* that runs, the start of the command line tool, the chat loop, the file  *)
(* tools of a turn and the times of a HAR entry.                           *)
(***************************************************************************)
EXTENDS MCWorkspaceSuite, TLAPS, SequenceTheorems, FiniteSetTheorems, WellFoundedInduction

(***************************************************************************)
(* The inductive invariant.                                                *)
(***************************************************************************)

\* The first m pieces of the text of save n, and how many it has.
Start(n, m) == [i \in 1 .. m |-> n]
Size(n) == IF kind[n] = "reset" THEN 1 ELSE Pieces

Born(n) == outcome[n] # "unborn"

\* Saves are numbered in the order they begin; only the newest can be under
\* way, and what its caller awaits is what the pool has of it.
AwaitInv ==
    /\ \E k \in 0 .. MaxSaves : \A n \in Saves : Born(n) <=> n <= k
    /\ running # None => \A n \in Saves : n > running => ~Born(n)
    /\ \A n \in Saves : outcome[n] = "pending" <=> running = n
    /\ running = None <=> step = "idle"
    /\ alone \subseteq {n \in Saves : Born(n)}

\* The pool has at most one call of each save, of one that is under way or was
\* dropped.
PoolInv ==
    /\ \A c, d \in pool : c.save = d.save => c = d
    /\ \A c \in pool : outcome[c.save] \in {"pending", "cancelled"}
    /\ \A c \in pool : c.save = running =>
          step = IF c.call = "rename" THEN "rename" ELSE "write"
    /\ \A c \in pool : c.call = "put" => c.at <= Size(c.save)
    /\ tmp # None => tmp # path

\* A save that is under way and began with an empty pool is alone with the
\* temporary file.
LoneInv ==
    running \in alone =>
        /\ \A c \in pool : c.save = running
        /\ \A c \in pool : c.call = "put" =>
              c.file = tmp /\ tmp # None /\ data[tmp] = Start(running, c.at - 1)
        /\ step \in {"written", "rename"} => tmp # None /\ data[tmp] = Text(running)
        /\ step = "renamed" => Holds(running)

\* One that was acknowledged stays in the file until the next one begins.
LastInv ==
    \A n \in alone :
        outcome[n] = "ok" /\ (\A m \in Saves : m > n => ~Born(m)) => pool = {} /\ Holds(n)

\* As long as no save was dropped, each began with an empty pool, and the file
\* has the last acknowledged one or a later one that did not fail.
KeptInv ==
    NoneDropped =>
        /\ \A n \in Saves : Born(n) => n \in alone
        /\ \/ path = None /\ Acknowledged = {}
           \/ \E n \in Saves :
                 /\ Holds(n) /\ outcome[n] \in {"ok", "pending", "lost"}
                 /\ \A m \in Acknowledged : m <= n
                 /\ n = running => step = "renamed"

StoreInv == TypeOK /\ AwaitInv /\ PoolInv /\ LoneInv /\ LastInv /\ KeptInv

(***************************************************************************)
(* Texts, minima and maxima.                                               *)
(***************************************************************************)

\* The beginning of a text is a sequence of its length.
LEMMA StartSeq ==
    ASSUME NEW S, NEW n \in S, NEW m \in Nat
    PROVE  Start(n, m) \in Seq(S) /\ Len(Start(n, m)) = m
<1>1. Start(n, m) \in [1 .. m -> S] /\ DOMAIN Start(n, m) = 1 .. m
  BY DEF Start
<1>2. Start(n, m) \in Seq(S)
  BY <1>1, SeqDef
<1>. QED  BY <1>1, <1>2, LenProperties

\* A text is all its pieces.
LEMMA TextStart ==
    ASSUME TypeOK, NEW n \in Saves
    PROVE  /\ Size(n) \in 1 .. Pieces
           /\ Text(n) = Start(n, Size(n)) /\ Len(Text(n)) = Size(n)
<1>1. Size(n) \in 1 .. Pieces /\ Size(n) \in Nat
  BY StoreAssumption DEF Size, TypeOK, Kinds
<1>2. Text(n) = Start(n, Size(n))
  BY DEF Text, Start, Size
<1>. QED  BY <1>1, <1>2, StartSeq

\* A set of numbers that is not empty has a smallest one, and Min finds it.
LEMMA MinMember ==
    ASSUME NEW S, S \subseteq Nat, S # {}
    PROVE  Min(S) \in S /\ \A y \in S : Min(S) <= y
<1>. DEFINE R == OpToRel(<, Nat)
<1>1. IsWellFoundedOn(R, Nat)
  BY NatLessThanWellFounded
<1>2. \A x, y \in Nat : y < x => <<y, x>> \in R
  BY DEF OpToRel
<1>. HIDE DEF R
<1>3. PICK x \in S : \A y \in S : ~(<<y, x>> \in R)
  BY <1>1, WFMin
<1>4. ASSUME NEW y \in S PROVE x <= y
  <2>1. x \in Nat /\ y \in Nat /\ ~(y < x)
    BY <1>2, <1>3
  <2>. QED  BY <2>1
<1>. QED  BY <1>4 DEF Min

\* A bounded one has a largest one: the smallest bound is in it.
LEMMA MaxOfNumbers ==
    ASSUME NEW n \in Nat, NEW S, S \subseteq 1 .. n, S # {}
    PROVE  Max(S) \in S /\ \A y \in S : Max(S) >= y
<1>. DEFINE B == {b \in Nat : \A x \in S : x <= b}
            m == Min(B)
<1>1. n \in B
  OBVIOUS
<1>2. m \in B /\ \A b \in B : m <= b
  BY <1>1, MinMember
<1>3. m \in S
  <2>. SUFFICES ASSUME m \notin S PROVE FALSE
    OBVIOUS
  <2>. HIDE DEF m
  <2>1. PICK x \in S : TRUE
    OBVIOUS
  <2>2. m \in Nat /\ \A y \in S : y \in Nat /\ y >= 1 /\ y <= m /\ y # m
    BY <1>2
  <2>3. m - 1 \in Nat /\ \A y \in S : y <= m - 1
    BY <2>1, <2>2
  <2>4. m - 1 \in B
    BY <2>3
  <2>. QED  BY <1>2, <2>2, <2>4
<1>4. \A y \in S : m >= y
  BY <1>2
<1>. HIDE DEF m
<1>5. \A y \in S : m \in Nat /\ y \in Nat
  BY <1>2
<1>. QED  BY <1>3, <1>4, <1>5 DEF Max

LEMMA MaxMember ==
    ASSUME NEW S, S \subseteq Saves, S # {}
    PROVE  Max(S) \in S /\ \A y \in S : Max(S) >= y
BY StoreAssumption, MaxOfNumbers DEF Saves

(***************************************************************************)
(* Files.                                                                  *)
(***************************************************************************)

\* The files that the session path, the temporary path and the pool use.
Used == {path, tmp} \cup {c.file : c \in {d \in pool : d.call = "put"}}

\* There is always a new file: every save has at most one call in the pool.
LEMMA FreeInode ==
    ASSUME TypeOK, PoolInv, tmp = None
    PROVE  Min(Inodes \ Used) \in Inodes \ Used
<1>. DEFINE P == {d \in pool : d.call = "put"}
            F == {c.file : c \in P}
            N == {c.save : c \in P}
            f == [n \in N |-> (CHOOSE c \in P : c.save = n).file]
<1>1. N \subseteq Saves /\ None \notin Inodes /\ Inodes \subseteq Nat
  BY StoreAssumption DEF TypeOK, None, Inodes
<1>2. IsFiniteSet(Saves) /\ Cardinality(Saves) = MaxSaves
  <2>1. MaxSaves - 1 + 1 = MaxSaves /\ (1 > MaxSaves <=> MaxSaves = 0)
    BY StoreAssumption
  <2>. QED  BY <2>1, StoreAssumption, FS_Interval DEF Saves
<1>3. IsFiniteSet(Inodes) /\ Cardinality(Inodes) = MaxSaves + 2
  BY StoreAssumption, FS_Interval DEF Inodes
<1>4. IsFiniteSet(N) /\ Cardinality(N) <= MaxSaves
  BY <1>1, <1>2, FS_Subset
<1>5. f \in Surjection(N, F)
  <2>1. \A c \in P : c.save \in N /\ f[c.save] = c.file
    BY DEF PoolInv
  <2>2. \A n \in N : \E c \in P : n = c.save
    OBVIOUS
  <2>3. f \in [N -> F]
    BY <2>1, <2>2
  <2>4. \A y \in F : \E n \in N : f[n] = y
    BY <2>1
  <2>. QED  BY <2>3, <2>4 DEF Surjection
<1>6. IsFiniteSet(F) /\ Cardinality(F) <= Cardinality(N)
  BY <1>4, <1>5, FS_Surjection
<1>. HIDE DEF F, N, f
<1>. DEFINE G == F \cup {path}
<1>7. IsFiniteSet(G) /\ Cardinality(G) <= MaxSaves + 1
  <2>1. /\ Cardinality(F) \in Nat /\ Cardinality(N) \in Nat
    BY <1>4, <1>6, FS_CardinalityType
  <2>2. IsFiniteSet(G) /\ (Cardinality(G) = Cardinality(F) \/ Cardinality(G) = Cardinality(F) + 1)
    BY <1>6, FS_AddElement
  <2>. HIDE DEF G
  <2>. QED  BY <1>4, <1>6, <2>1, <2>2, StoreAssumption
<1>8. Used = G \cup {None}
  BY DEF Used, F
<1>9. Inodes \ Used # {}
  <2>. SUFFICES ASSUME Inodes \subseteq Used PROVE FALSE
    OBVIOUS
  <2>1. Inodes \subseteq G
    BY <1>1, <1>8
  <2>. HIDE DEF G
  <2>2. Cardinality(Inodes) <= Cardinality(G)
    BY <1>7, <2>1, FS_Subset
  <2>3. Cardinality(G) \in Nat
    BY <1>7, FS_CardinalityType
  <2>. QED  BY <1>3, <1>7, <2>2, <2>3, StoreAssumption
<1>. QED  BY <1>1, <1>9, MinMember

\* A piece written into w at place at.
Written(w, n, at) ==
    [i \in 1 .. Max({Len(w), at}) |->
        CASE i = at -> n
          [] i # at /\ i <= Len(w) -> w[i]
          [] OTHER -> None]

\* It leaves a file of pieces, and in place after what is there it is the next
\* one of the text.
LEMMA WrittenSeq ==
    ASSUME NEW w \in Seq(Saves \cup {None}), NEW n \in Saves, NEW at \in Nat \ {0}
    PROVE  /\ Written(w, n, at) \in Seq(Saves \cup {None})
           /\ w = Start(n, at - 1) => Written(w, n, at) = Start(n, at)
<1>. DEFINE l == Len(w)
            m == Max({l, at})
            S == Saves \cup {None}
<1>1. l \in Nat /\ w \in [1 .. l -> S]
  BY LenProperties
<1>. HIDE DEF l
<1>2. m \in Nat /\ (l < at => m = at)
  <2>1. \E x \in {l, at} : \A y \in {l, at} : x >= y
    BY <1>1
  <2>2. m \in {l, at} /\ \A y \in {l, at} : m >= y
    BY <2>1 DEF Max
  <2>. HIDE DEF m
  <2>. QED  BY <1>1, <2>2
<1>3. Written(w, n, at) = [i \in 1 .. m |-> CASE i = at -> n
                                           [] i # at /\ i <= l -> w[i]
                                           [] OTHER -> None]
  BY DEF Written, l
<1>. HIDE DEF m
<1>4. \A i \in 1 .. m : i <= l => w[i] \in S
  BY <1>1, <1>2
<1>5. Written(w, n, at) \in [1 .. m -> S]
  BY <1>3, <1>4
<1>6. Written(w, n, at) \in Seq(S)
  BY <1>2, <1>5, SeqDef
<1>7. ASSUME w = Start(n, at - 1)
      PROVE  Written(w, n, at) = Start(n, at)
  <2>1. at - 1 \in Nat /\ n \in S
    OBVIOUS
  <2>2. l = at - 1
    BY <1>7, <2>1, StartSeq DEF l
  <2>3. m = at
    BY <1>2, <2>2
  <2>4. \A i \in 1 .. at : i # at => i \in 1 .. at - 1 /\ i <= l
    BY <2>2
  <2>5. \A i \in 1 .. at - 1 : w[i] = n
    BY <1>7 DEF Start
  <2>. QED  BY <1>3, <2>3, <2>4, <2>5 DEF Start
<1>. QED  BY <1>6, <1>7

(***************************************************************************)
(* The steps.                                                              *)
(***************************************************************************)

\* Nothing was saved.
LEMMA InitStore == Init => StoreInv
<1>. SUFFICES ASSUME Init PROVE StoreInv
  OBVIOUS
<1>1. None \notin Saves
  BY StoreAssumption DEF None, Saves
<1>2. TypeOK
  BY <1>1, EmptySeq DEF Init, TypeOK, Kinds
<1>3. AwaitInv
  <2>1. 0 \in 0 .. MaxSaves /\ \A n \in Saves : ~(n <= 0)
    BY StoreAssumption DEF Saves
  <2>. QED  BY <1>1, <2>1 DEF Init, AwaitInv, Born
<1>4. PoolInv /\ LoneInv /\ LastInv /\ KeptInv
  BY DEF Init, PoolInv, LoneInv, LastInv, KeptInv, Born, Acknowledged
<1>. QED  BY <1>2, <1>3, <1>4 DEF StoreInv

\* The next save is the one after the newest.
LEMMA NextSave ==
    ASSUME TypeOK, AwaitInv, Unborn # {}
    PROVE  /\ Min(Unborn) \in Saves /\ ~Born(Min(Unborn))
           /\ \A n \in Saves : Born(n) => n < Min(Unborn)
           /\ \A n \in Saves : n < Min(Unborn) => Born(n)
<1>. DEFINE m == Min(Unborn)
<1>1. m \in Unborn /\ \A n \in Unborn : m <= n
  BY MinMember DEF Unborn, Saves
<1>. HIDE DEF m
<1>2. PICK k \in 0 .. MaxSaves : \A n \in Saves : Born(n) <=> n <= k
  BY DEF AwaitInv
<1>3. m \in Saves /\ ~Born(m)
  BY <1>1 DEF Unborn, Born
<1>4. m > k
  BY <1>2, <1>3 DEF Saves
<1>5. ASSUME NEW n \in Saves, Born(n) PROVE n < m
  BY <1>2, <1>4, <1>5, <1>3, StoreAssumption DEF Saves
<1>6. ASSUME NEW n \in Saves, n < m PROVE Born(n)
  BY <1>1, <1>3, <1>6 DEF Unborn, Born, Saves
<1>. QED  BY <1>3, <1>5, <1>6 DEF m

\* A save begins: nothing is written yet, and if the pool is empty it has the
\* temporary file for itself.
LEMMA SaveStore ==
    ASSUME StoreInv, NEW k \in Kinds, Save(k)
    PROVE  StoreInv'
<1>. USE DEF StoreInv
<1>. DEFINE n == Min(Unborn)
            o == OpenCall(n)
<1>1. /\ running = None /\ Unborn # {}
      /\ kind' = [kind EXCEPT ![n] = k] /\ outcome' = [outcome EXCEPT ![n] = "pending"]
      /\ running' = n /\ alone' = (IF pool = {} THEN alone \cup {n} ELSE alone)
      /\ pool' = pool \cup {o} /\ step' = "write"
      /\ path' = path /\ tmp' = tmp /\ data' = data
  BY DEF Save
<1>2. /\ n \in Saves /\ ~Born(n)
      /\ \A m \in Saves : Born(m) => m < n
      /\ \A m \in Saves : m < n => Born(m)
  BY <1>1, NextSave
<1>3. o.call = "open" /\ o.save = n
  BY DEF OpenCall
<1>. HIDE DEF n, o
<1>4. None \notin Saves /\ Saves \subseteq Nat /\ n \in 0 .. MaxSaves
  BY <1>2, StoreAssumption DEF None, Saves
<1>5. \A m \in Saves :
          /\ outcome'[m] = (IF m = n THEN "pending" ELSE outcome[m])
          /\ m # n => kind'[m] = kind[m]
  BY <1>1, <1>2 DEF TypeOK
<1>6. \A m \in Saves : Born(m) => m # n
  BY <1>2
<1>7. \A m \in Saves : Born(m)' <=> (Born(m) \/ m = n)
  BY <1>5, <1>2 DEF Born
<1>8. TypeOK'
  <2>1. kind' \in [Saves -> Kinds]
    BY <1>1 DEF TypeOK
  <2>2. outcome' \in [Saves -> {"unborn", "pending", "ok", "error", "cancelled", "lost"}]
    BY <1>1 DEF TypeOK
  <2>3. alone' \subseteq Saves
    BY <1>1, <1>2 DEF TypeOK
  <2>4. \A c \in pool' :
            /\ c.call \in {"open", "put", "rename"} /\ c.save \in Saves
            /\ c.call = "put" => c.file \in Inodes /\ c.at \in 1 .. Pieces
    BY <1>1, <1>2, <1>3 DEF TypeOK
  <2>. QED  BY <1>1, <1>2, <2>1, <2>2, <2>3, <2>4 DEF TypeOK
<1>9. AwaitInv'
  <2>1. \A m \in Saves : Born(m)' <=> m <= n
    BY <1>2, <1>4, <1>7
  <2>2. \A m \in Saves : m > n => ~Born(m)'
    BY <1>2, <1>4, <2>1
  <2>3. \A m \in Saves : outcome'[m] = "pending" <=> n = m
    BY <1>1, <1>4, <1>5 DEF AwaitInv
  <2>4. alone' \subseteq {m \in Saves : Born(m)'}
    BY <1>1, <1>2, <1>7 DEF AwaitInv
  <2>5. n # None
    BY <1>2, <1>4
  <2>. QED  BY <1>1, <1>4, <2>1, <2>2, <2>3, <2>4, <2>5 DEF AwaitInv, Born
<1>10. \A c \in pool : c.save \in Saves /\ c.save # n /\ Born(c.save)
  <2>1. \A c \in pool : c.save \in Saves /\ Born(c.save)
    BY DEF TypeOK, PoolInv, Born
  <2>. QED  BY <1>6, <2>1
<1>11. PoolInv'
  <2>1. \A c \in pool : Size(c.save)' = Size(c.save)
    BY <1>5, <1>10 DEF Size
  <2>. QED  BY <1>1, <1>2, <1>3, <1>5, <1>10, <2>1 DEF PoolInv
<1>12. LoneInv'
  <2>. SUFFICES ASSUME n \in alone' PROVE \A c \in pool' : c = o
    BY <1>1, <1>3 DEF LoneInv
  <2>1. n \notin alone
    BY <1>2 DEF AwaitInv
  <2>. QED  BY <1>1, <2>1
<1>13. \A m \in Saves : Born(m) => (Holds(m)' <=> Holds(m))
  BY <1>1, <1>5, <1>6 DEF Holds, Text
<1>14. LastInv'
  <2>. SUFFICES ASSUME NEW m \in alone', outcome'[m] = "ok", \A q \in Saves : q > m => ~Born(q)'
                PROVE  FALSE
    BY <1>1 DEF LastInv, Born
  <2>1. m \in Saves /\ m # n /\ Born(m)
    BY <1>1, <1>2, <1>5 DEF TypeOK, Born
  <2>2. n > m
    BY <1>2, <1>4, <2>1
  <2>. QED  BY <1>2, <1>7, <2>2
<1>15. KeptInv'
  <2>. SUFFICES ASSUME NoneDropped'
                PROVE  /\ \A m \in Saves : Born(m)' => m \in alone'
                       /\ \/ path = None /\ Acknowledged' = {}
                          \/ \E m \in Saves :
                                /\ Holds(m)' /\ outcome'[m] \in {"ok", "pending", "lost"}
                                /\ \A q \in Acknowledged' : q <= m
                                /\ m = n => "write" = "renamed"
    BY <1>1 DEF KeptInv
  <2>1. NoneDropped
    BY <1>2, <1>5 DEF NoneDropped, Born
  <2>2. pool = {}
    BY <1>1, <1>4, <1>10, <2>1 DEF PoolInv, NoneDropped, AwaitInv
  <2>3. \A m \in Saves : Born(m)' => m \in alone'
    BY <1>1, <1>7, <2>1, <2>2 DEF KeptInv
  <2>4. Acknowledged' = Acknowledged
    BY <1>2, <1>5 DEF Acknowledged, Born
  <2>5. CASE path = None /\ Acknowledged = {}
    BY <2>3, <2>4, <2>5
  <2>6. ASSUME NEW m \in Saves, Holds(m), outcome[m] \in {"ok", "pending", "lost"},
               \A q \in Acknowledged : q <= m
        PROVE  /\ Holds(m)' /\ outcome'[m] \in {"ok", "pending", "lost"} /\ m # n
               /\ \A q \in Acknowledged' : q <= m
    <3>1. Born(m) /\ m # n
      BY <1>6, <2>6 DEF Born
    <3>. QED  BY <1>5, <1>13, <2>4, <2>6, <3>1
  <2>. QED  BY <2>1, <2>3, <2>5, <2>6 DEF KeptInv
<1>. QED  BY <1>8, <1>9, <1>11, <1>12, <1>14, <1>15

\* While a save is under way, an acknowledged one is not the newest.
LEMMA NotNewest ==
    ASSUME StoreInv, running # None, NEW n \in Saves, outcome[n] = "ok"
    PROVE  \E m \in Saves : m > n /\ Born(m)
<1>1. running \in Saves /\ outcome[running] = "pending" /\ Saves \subseteq Nat
  BY StoreAssumption DEF StoreInv, TypeOK, AwaitInv, Saves
<1>2. ~(n > running) /\ n # running
  BY <1>1 DEF StoreInv, AwaitInv, Born
<1>. QED  BY <1>1, <1>2 DEF Born

\* Without dropped saves, what is in the pool is of the save that is under way,
\* and that one is alone.
LEMMA PoolOfRunning ==
    ASSUME StoreInv, NoneDropped, NEW c \in pool
    PROVE  c.save = running /\ running \in alone /\ running \in Saves
<1>1. c.save \in Saves /\ outcome[c.save] = "pending"
  BY DEF StoreInv, TypeOK, PoolInv, NoneDropped
<1>2. c.save = running
  BY <1>1 DEF StoreInv, AwaitInv
<1>. QED  BY <1>1, <1>2 DEF StoreInv, KeptInv, Born

\* std::fs::write opens the temporary file and empties it.
LEMMA OpenStore ==
    ASSUME StoreInv, NEW call \in pool, Open(call)
    PROVE  StoreInv'
<1>. USE DEF StoreInv
<1>. DEFINE file == IF tmp # None THEN tmp ELSE Min(Inodes \ Used)
            put == PutCall(call.save, file, 1)
<1>1. /\ call.call = "open" /\ tmp' = file /\ data' = [data EXCEPT ![file] = <<>>]
      /\ pool' = (pool \ {call}) \cup {put}
      /\ UNCHANGED <<path, kind, outcome, running, step, alone>>
  BY DEF Open, Replace, Used
<1>2. put.call = "put" /\ put.save = call.save /\ put.file = file /\ put.at = 1
  BY DEF PutCall
<1>3. file \in Inodes /\ file # None /\ file # path
  <2>1. None \notin Inodes
    BY StoreAssumption DEF None, Inodes
  <2>2. CASE tmp # None
    BY <2>1, <2>2 DEF TypeOK, PoolInv
  <2>3. CASE tmp = None
    BY <2>1, <2>3, FreeInode DEF Used
  <2>. QED  BY <2>2, <2>3
<1>. HIDE DEF file, put
<1>4. call.save \in Saves
  BY DEF TypeOK
<1>5. data'[file] = <<>> /\ \A f \in Inodes : f # file => data'[f] = data[f]
  BY <1>1, <1>3 DEF TypeOK
<1>6. TypeOK'
  <2>1. data' \in [Inodes -> Seq(Saves \cup {None})]
    BY <1>1, <1>3, EmptySeq DEF TypeOK
  <2>2. 1 \in 1 .. Pieces
    BY StoreAssumption
  <2>3. \A c \in pool' :
            /\ c.call \in {"open", "put", "rename"} /\ c.save \in Saves
            /\ c.call = "put" => c.file \in Inodes /\ c.at \in 1 .. Pieces
    BY <1>1, <1>2, <1>3, <1>4, <2>2 DEF TypeOK
  <2>. QED  BY <1>1, <1>3, <2>1, <2>3 DEF TypeOK
<1>7. AwaitInv'
  BY <1>1 DEF AwaitInv, Born
<1>8. PoolInv'
  <2>1. 1 <= Size(call.save) /\ \A n : Size(n)' = Size(n)
    BY <1>1, <1>4, TextStart, StoreAssumption DEF Size
  <2>2. call.save = running => step = "write"
    BY <1>1 DEF PoolInv
  <2>. QED  BY <1>1, <1>2, <1>3, <2>1, <2>2 DEF PoolInv
<1>9. path # None => data'[path] = data[path]
  BY <1>3, <1>5 DEF TypeOK
<1>10. \A n \in Saves : Holds(n)' <=> Holds(n)
  BY <1>1, <1>9 DEF Holds, Text
<1>11. LoneInv'
  <2>. SUFFICES ASSUME running \in alone PROVE LoneInv'
    BY <1>1 DEF LoneInv
  <2>1. call.save = running /\ \A c \in pool : c = call
    BY DEF LoneInv, PoolInv
  <2>2. step = "write" /\ pool' = {put}
    BY <1>1, <2>1 DEF PoolInv
  <2>3. Start(running, 1 - 1) = <<>>
    <3>1. Start(running, 0) \in Seq({running}) /\ Len(Start(running, 0)) = 0
      BY StartSeq
    <3>. QED  BY <3>1, EmptySeq
  <2>. QED  BY <1>1, <1>2, <1>3, <1>5, <2>1, <2>2, <2>3 DEF LoneInv
<1>12. LastInv'
  BY <1>1 DEF LastInv, Born
<1>13. KeptInv'
  BY <1>1, <1>10 DEF KeptInv, NoneDropped, Acknowledged, Born
<1>. QED  BY <1>6, <1>7, <1>8, <1>11, <1>12, <1>13

\* It writes a piece.
LEMMA PutStore ==
    ASSUME StoreInv, NEW call \in pool, Put(call)
    PROVE  StoreInv'
<1>. USE DEF StoreInv
<1>. DEFINE n == call.save
            at == call.at
            file == call.file
            w == data[file]
            more == PutCall(n, file, at + 1)
<1>1. /\ call.call = "put" /\ data' = [data EXCEPT ![file] = Written(w, n, at)]
      /\ UNCHANGED <<path, tmp, kind, outcome, running, alone>>
  BY DEF Put, Written
<1>2. /\ n \in Saves /\ file \in Inodes /\ at \in 1 .. Pieces /\ at \in Nat \ {0}
      /\ w \in Seq(Saves \cup {None})
  BY <1>1 DEF TypeOK
<1>3. /\ Size(n) \in 1 .. Pieces /\ Text(n) = Start(n, Size(n)) /\ Len(Text(n)) = Size(n)
      /\ at <= Size(n)
  BY <1>1, <1>2, TextStart DEF PoolInv
<1>4. \/ at < Size(n) /\ pool' = (pool \ {call}) \cup {more} /\ step' = step
      \/ at = Size(n) /\ pool' = pool \ {call} /\ step' = IF running = n THEN "written" ELSE step
  <2>1. IF at < Size(n)
        THEN pool' = (pool \ {call}) \cup {more} /\ step' = step
        ELSE pool' = pool \ {call} /\ step' = IF running = n THEN "written" ELSE step
    BY <1>3 DEF Put, Replace
  <2>2. at < Size(n) \/ at = Size(n)
    BY <1>2, <1>3
  <2>. QED  BY <2>1, <2>2
<1>5. more.call = "put" /\ more.save = n /\ more.file = file /\ more.at = at + 1
  BY DEF PutCall
<1>6. /\ Written(w, n, at) \in Seq(Saves \cup {None})
      /\ w = Start(n, at - 1) => Written(w, n, at) = Start(n, at)
  BY <1>2, WrittenSeq
<1>7. running = n => step = "write"
  BY <1>1 DEF PoolInv
<1>. HIDE DEF more, w, n, at, file
<1>8. data'[file] = Written(w, n, at) /\ \A f \in Inodes : f # file => data'[f] = data[f]
  BY <1>1, <1>2 DEF TypeOK
<1>9. TypeOK'
  <2>1. data' \in [Inodes -> Seq(Saves \cup {None})]
    BY <1>1, <1>2, <1>6 DEF TypeOK
  <2>2. at < Size(n) => at + 1 \in 1 .. Pieces
    BY <1>2, <1>3, StoreAssumption
  <2>3. \A c \in pool' :
            /\ c.call \in {"open", "put", "rename"} /\ c.save \in Saves
            /\ c.call = "put" => c.file \in Inodes /\ c.at \in 1 .. Pieces
    BY <1>2, <1>4, <1>5, <2>2 DEF TypeOK
  <2>4. step' \in {"idle", "write", "written", "rename", "renamed"}
    BY <1>4 DEF TypeOK
  <2>. QED  BY <1>1, <2>1, <2>3, <2>4 DEF TypeOK
<1>10. AwaitInv'
  <2>1. step' = "idle" <=> step = "idle"
    BY <1>4, <1>7
  <2>. QED  BY <1>1, <2>1 DEF AwaitInv, Born
<1>11. PoolInv'
  <2>1. \A m : Size(m)' = Size(m)
    BY <1>1 DEF Size
  <2>2. at < Size(n) => at + 1 <= Size(n)
    BY <1>2, <1>3
  <2>3. \A c \in pool : c # call => c.save # n
    BY DEF PoolInv, n
  <2>4. \A c \in pool : c # call /\ c.save = running => step' = step
    BY <1>4, <2>3
  <2>. QED  BY <1>1, <1>4, <1>5, <1>7, <2>1, <2>2, <2>3, <2>4 DEF PoolInv, n
<1>12. LoneInv'
  <2>. SUFFICES ASSUME running \in alone PROVE LoneInv'
    BY <1>1 DEF LoneInv
  <2>1. n = running /\ \A c \in pool : c = call
    BY DEF LoneInv, PoolInv, n
  <2>2. file = tmp /\ tmp # None /\ w = Start(n, at - 1)
    BY <1>1, <2>1 DEF LoneInv, w, n, at, file
  <2>3. data'[tmp] = Start(n, at)
    BY <1>6, <1>8, <2>2
  <2>4. (at + 1) - 1 = at
    BY <1>2
  <2>5. Text(n)' = Text(n)
    BY <1>1 DEF Text
  <2>6. CASE at < Size(n) /\ pool' = (pool \ {call}) \cup {more} /\ step' = step
    BY <1>1, <1>5, <1>7, <2>1, <2>2, <2>3, <2>4, <2>6 DEF LoneInv
  <2>7. CASE at = Size(n) /\ pool' = pool \ {call} /\ step' = IF running = n THEN "written" ELSE step
    BY <1>1, <1>3, <2>1, <2>2, <2>3, <2>5, <2>7 DEF LoneInv
  <2>. QED  BY <1>4, <2>6, <2>7
<1>13. LastInv'
  BY <1>1 DEF LastInv, Born
<1>14. KeptInv'
  <2>. SUFFICES ASSUME NoneDropped PROVE KeptInv'
    BY <1>1 DEF KeptInv, NoneDropped
  <2>1. n = running /\ running \in alone
    BY PoolOfRunning DEF n
  <2>2. file = tmp /\ file # path
    BY <1>1, <2>1 DEF LoneInv, PoolInv, n, file
  <2>3. path # None => data'[path] = data[path]
    BY <1>8, <2>2 DEF TypeOK
  <2>4. \A m \in Saves : Holds(m)' <=> Holds(m)
    BY <1>1, <2>3 DEF Holds, Text
  <2>5. step # "renamed"
    BY <1>7, <2>1
  <2>. QED  BY <1>1, <2>4, <2>5 DEF KeptInv, NoneDropped, Acknowledged, Born
<1>. QED  BY <1>9, <1>10, <1>11, <1>12, <1>13, <1>14

\* save() goes on to the rename: of its own it has nothing in the pool.
LEMMA RequestRenameStore ==
    ASSUME StoreInv, RequestRename
    PROVE  StoreInv'
<1>. USE DEF StoreInv
<1>. DEFINE r == RenameCall(running)
<1>1. /\ step = "written" /\ pool' = pool \cup {r} /\ step' = "rename"
      /\ UNCHANGED <<path, tmp, data, kind, outcome, running, alone>>
  BY DEF RequestRename
<1>2. r.call = "rename" /\ r.save = running
  BY DEF RenameCall
<1>. HIDE DEF r
<1>3. running # None /\ running \in Saves /\ outcome[running] = "pending"
  BY <1>1 DEF AwaitInv, TypeOK
<1>4. \A c \in pool : c.save # running
  BY <1>1 DEF PoolInv
<1>5. TypeOK'
  <2>1. \A c \in pool' :
            /\ c.call \in {"open", "put", "rename"} /\ c.save \in Saves
            /\ c.call = "put" => c.file \in Inodes /\ c.at \in 1 .. Pieces
    BY <1>1, <1>2, <1>3 DEF TypeOK
  <2>. QED  BY <1>1, <2>1 DEF TypeOK
<1>6. AwaitInv'
  BY <1>1, <1>3 DEF AwaitInv, Born
<1>7. PoolInv'
  BY <1>1, <1>2, <1>3, <1>4 DEF PoolInv, Size
<1>8. LoneInv'
  BY <1>1, <1>2 DEF LoneInv, Text
<1>9. LastInv'
  BY <1>1, <1>3, NotNewest DEF LastInv, TypeOK, Born
<1>10. KeptInv'
  BY <1>1 DEF KeptInv, NoneDropped, Acknowledged, Born, Holds, Text
<1>. QED  BY <1>5, <1>6, <1>7, <1>8, <1>9, <1>10

\* The rename brings the whole text of a lone save to the session path.
LEMMA RenameStore ==
    ASSUME StoreInv, NEW call \in pool, Rename(call)
    PROVE  StoreInv'
<1>. USE DEF StoreInv
<1>1. /\ call.call = "rename" /\ tmp # None /\ path' = tmp /\ tmp' = None
      /\ pool' = pool \ {call}
      /\ step' = (IF running = call.save THEN "renamed" ELSE step)
      /\ UNCHANGED <<data, kind, outcome, alone, running>>
  BY DEF Rename
<1>2. call.save \in Saves
  BY DEF TypeOK
<1>3. TypeOK'
  BY <1>1 DEF TypeOK
<1>4. running = call.save => step = "rename"
  BY <1>1 DEF PoolInv
<1>5. AwaitInv'
  <2>1. step' = "idle" <=> step = "idle"
    BY <1>1, <1>4
  <2>. QED  BY <1>1, <2>1 DEF AwaitInv, Born
<1>6. \A c \in pool' : c \in pool /\ c.save # call.save
  BY <1>1 DEF PoolInv
<1>7. PoolInv'
  BY <1>1, <1>6 DEF PoolInv, Size
<1>8. running \in alone => call.save = running /\ pool' = {} /\ Holds(running)'
  <2>1. running \in alone => call.save = running /\ data[tmp] = Text(running)
    BY <1>4 DEF LoneInv
  <2>2. running \in alone => pool' = {}
    BY <1>6, <2>1 DEF LoneInv
  <2>. QED  BY <1>1, <2>1, <2>2 DEF Holds, Text
<1>9. LoneInv'
  BY <1>1, <1>8 DEF LoneInv
<1>10. LastInv'
  BY <1>1 DEF LastInv, Born
<1>11. KeptInv'
  <2>. SUFFICES ASSUME NoneDropped PROVE KeptInv'
    BY <1>1 DEF KeptInv, NoneDropped
  <2>1. call.save = running /\ running \in alone /\ running \in Saves
    BY PoolOfRunning
  <2>2. Holds(running)' /\ outcome[running] = "pending" /\ step' = "renamed"
    BY <1>1, <1>8, <2>1 DEF AwaitInv
  <2>3. ASSUME NEW m \in Acknowledged PROVE m <= running
    <3>1. m \in Saves /\ ~(m > running)
      BY <2>1 DEF Acknowledged, AwaitInv, Born, None, Saves
    <3>. QED  BY <2>1, <3>1 DEF Saves
  <2>. QED  BY <1>1, <2>1, <2>2, <2>3 DEF KeptInv, NoneDropped, Acknowledged, Born
<1>. QED  BY <1>3, <1>5, <1>7, <1>9, <1>10, <1>11

\* Nothing of it is left in the pool when a save returns.
LEMMA ReturnAwait ==
    ASSUME StoreInv, running # None, NEW x \in {"ok", "error", "cancelled"}, Return(running, x),
           UNCHANGED <<kind, alone>>
    PROVE  /\ outcome' \in [Saves -> {"unborn", "pending", "ok", "error", "cancelled", "lost"}]
           /\ outcome'[running] = x /\ running \in Saves /\ outcome[running] = "pending"
           /\ \A n \in Saves : n # running => outcome'[n] = outcome[n]
           /\ \A n \in Saves : Born(n)' <=> Born(n)
           /\ AwaitInv' /\ running' = None /\ step' = "idle" /\ None \notin Saves
           /\ None \notin alone
<1>. USE DEF StoreInv
<1>1. outcome' = [outcome EXCEPT ![running] = x] /\ running' = None /\ step' = "idle"
  BY DEF Return
<1>2. running \in Saves /\ outcome[running] = "pending" /\ None \notin Saves /\ None \notin alone
  BY StoreAssumption DEF TypeOK, AwaitInv, None, Saves
<1>3. /\ outcome' \in [Saves -> {"unborn", "pending", "ok", "error", "cancelled", "lost"}]
      /\ outcome'[running] = x
      /\ \A n \in Saves : n # running => outcome'[n] = outcome[n]
  BY <1>1, <1>2 DEF TypeOK
<1>4. \A n \in Saves : Born(n)' <=> Born(n)
  BY <1>2, <1>3 DEF Born
<1>5. AwaitInv'
  <2>1. \A n \in Saves : outcome'[n] # "pending" /\ n # None
    BY <1>2, <1>3 DEF AwaitInv
  <2>2. alone' \subseteq {n \in Saves : Born(n)'}
    BY <1>4 DEF AwaitInv
  <2>3. \E k \in 0 .. MaxSaves : \A n \in Saves : Born(n)' <=> n <= k
    BY <1>4 DEF AwaitInv
  <2>. QED  BY <1>1, <2>1, <2>2, <2>3 DEF AwaitInv, Born
<1>. QED  BY <1>1, <1>2, <1>3, <1>4, <1>5

\* save() returns when its rename is done.
LEMMA AcknowledgeStore ==
    ASSUME StoreInv, Acknowledge
    PROVE  StoreInv'
<1>. USE DEF StoreInv
<1>1. /\ step = "renamed" /\ Return(running, "ok")
      /\ UNCHANGED <<path, tmp, data, pool, kind, alone>>
  BY DEF Acknowledge
<1>2. running # None
  BY <1>1 DEF AwaitInv
<1>3. /\ outcome' \in [Saves -> {"unborn", "pending", "ok", "error", "cancelled", "lost"}]
      /\ outcome'[running] = "ok" /\ running \in Saves /\ outcome[running] = "pending"
      /\ \A n \in Saves : n # running => outcome'[n] = outcome[n]
      /\ \A n \in Saves : Born(n)' <=> Born(n)
      /\ AwaitInv' /\ running' = None /\ step' = "idle" /\ None \notin Saves
      /\ None \notin alone
  BY <1>1, <1>2, ReturnAwait
<1>4. TypeOK'
  BY <1>1, <1>3 DEF TypeOK
<1>5. \A c \in pool : c.save \in Saves /\ c.save # running
  BY <1>1 DEF PoolInv, TypeOK
<1>6. PoolInv'
  BY <1>1, <1>3, <1>5 DEF PoolInv, Size
<1>7. LoneInv'
  BY <1>1, <1>3 DEF LoneInv
<1>8. \A n \in Saves : Holds(n)' <=> Holds(n)
  BY <1>1 DEF Holds, Text
<1>9. LastInv'
  <2>. SUFFICES ASSUME NEW n \in alone, outcome'[n] = "ok", \A m \in Saves : m > n => ~Born(m)
                PROVE  pool = {} /\ Holds(n)
    BY <1>1, <1>3, <1>8 DEF LastInv, TypeOK
  <2>1. n \in Saves
    BY DEF TypeOK
  <2>2. n = running
    BY <1>2, <1>3, <2>1, NotNewest
  <2>. QED  BY <1>1, <1>5, <2>2 DEF LoneInv
<1>10. KeptInv'
  <2>. SUFFICES ASSUME NoneDropped' PROVE KeptInv'
    BY DEF KeptInv
  <2>1. NoneDropped
    BY <1>3 DEF NoneDropped
  <2>. PICK r \in Saves : r = running
    BY <1>3
  <2>2. r \in alone /\ Holds(r)'
    <3>1. Born(r)
      BY <1>3 DEF Born
    <3>2. r \in alone
      BY <2>1, <3>1 DEF KeptInv
    <3>3. Holds(r)
      BY <1>1, <3>2 DEF LoneInv
    <3>. QED  BY <1>8, <3>2, <3>3
  <2>3. ASSUME NEW m \in Acknowledged' PROVE m <= r
    <3>1. m \in Saves /\ Born(m)
      BY <1>3 DEF Acknowledged, Born
    <3>2. ~(m > running)
      BY <1>2, <3>1 DEF AwaitInv
    <3>. QED  BY <1>3, <3>1, <3>2 DEF Saves
  <2>4. \A m \in Saves : Born(m)' => m \in alone'
    BY <1>1, <1>3, <2>1 DEF KeptInv
  <2>5. outcome'[r] = "ok" /\ r # running'
    BY <1>3
  <2>. QED  BY <2>2, <2>3, <2>4, <2>5 DEF KeptInv
<1>. QED  BY <1>3, <1>4, <1>6, <1>7, <1>9, <1>10

\* A call fails, of the save under way or of a dropped one.
LEMMA CallFailsStore ==
    ASSUME StoreInv, NEW call \in pool, CallFails(call)
    PROVE  StoreInv'
<1>. USE DEF StoreInv
<1>1. /\ pool' = pool \ {call} /\ UNCHANGED <<path, tmp, data, kind, alone>>
      /\ IF running = call.save THEN Return(call.save, "error")
                                ELSE UNCHANGED <<outcome, running, step>>
  BY DEF CallFails
<1>2. call.save \in Saves /\ None \notin Saves
  BY StoreAssumption DEF TypeOK, None, Saves
<1>3. \A c \in pool' : c \in pool /\ c.save \in Saves /\ c.save # call.save
  BY <1>1 DEF PoolInv, TypeOK
<1>4. \A n \in Saves : Holds(n)' <=> Holds(n)
  BY <1>1 DEF Holds, Text
<1>5. CASE running = call.save
  <2>1. running # None /\ Return(running, "error")
    BY <1>1, <1>2, <1>5
  <2>2. /\ outcome' \in [Saves -> {"unborn", "pending", "ok", "error", "cancelled", "lost"}]
        /\ outcome'[running] = "error" /\ running \in Saves /\ outcome[running] = "pending"
        /\ \A n \in Saves : n # running => outcome'[n] = outcome[n]
        /\ \A n \in Saves : Born(n)' <=> Born(n)
        /\ AwaitInv' /\ running' = None /\ step' = "idle" /\ None \notin alone
    BY <1>1, <2>1, ReturnAwait
  <2>3. TypeOK'
    BY <1>1, <2>2 DEF TypeOK
  <2>4. PoolInv'
    BY <1>1, <1>2, <1>3, <1>5, <2>2 DEF PoolInv, Size
  <2>5. LoneInv'
    BY <1>1, <2>2 DEF LoneInv
  <2>6. LastInv'
    <3>. SUFFICES ASSUME NEW n \in alone, outcome'[n] = "ok", \A m \in Saves : m > n => ~Born(m)
                  PROVE  FALSE
      BY <1>1, <2>2 DEF LastInv, TypeOK
    <3>1. n \in Saves /\ outcome[n] = "ok"
      BY <2>2 DEF TypeOK
    <3>. QED  BY <2>1, <3>1, NotNewest
  <2>7. KeptInv'
    <3>. SUFFICES ASSUME NoneDropped' PROVE KeptInv'
      BY DEF KeptInv
    <3>1. NoneDropped /\ Acknowledged' = Acknowledged /\ step # "renamed"
      BY <1>5, <2>2 DEF NoneDropped, Acknowledged, PoolInv
    <3>2. \A n \in Saves : Born(n)' => n \in alone'
      BY <1>1, <2>2, <3>1 DEF KeptInv
    <3>3. CASE path = None /\ Acknowledged = {}
      BY <1>1, <3>1, <3>2, <3>3 DEF KeptInv
    <3>4. ASSUME NEW n \in Saves, Holds(n), outcome[n] \in {"ok", "pending", "lost"},
                 \A m \in Acknowledged : m <= n, n = running => step = "renamed"
          PROVE  KeptInv'
      <4>1. n # running /\ n # None
        BY <1>2, <3>1, <3>4
      <4>. QED  BY <1>4, <2>2, <3>1, <3>2, <3>4, <4>1 DEF KeptInv
    <3>. QED  BY <3>1, <3>3, <3>4 DEF KeptInv
  <2>. QED  BY <2>2, <2>3, <2>4, <2>5, <2>6, <2>7
<1>6. CASE running # call.save
  <2>1. UNCHANGED <<outcome, running, step>>
    BY <1>1, <1>6
  <2>2. TypeOK'
    BY <1>1, <2>1 DEF TypeOK
  <2>3. AwaitInv'
    BY <1>1, <2>1 DEF AwaitInv, Born
  <2>4. PoolInv'
    BY <1>1, <1>3, <2>1 DEF PoolInv, Size
  <2>5. LoneInv'
    BY <1>1, <1>6, <2>1 DEF LoneInv
  <2>6. LastInv'
    BY <1>1, <2>1 DEF LastInv, Born
  <2>7. KeptInv'
    BY <1>1, <1>4, <2>1 DEF KeptInv, NoneDropped, Acknowledged, Born
  <2>. QED  BY <2>2, <2>3, <2>4, <2>5, <2>6, <2>7
<1>. QED  BY <1>5, <1>6

\* A turn is dropped: its call stays in the pool.
LEMMA CancelStore ==
    ASSUME StoreInv, Cancel
    PROVE  StoreInv'
<1>. USE DEF StoreInv
<1>1. /\ running # None /\ Return(running, "cancelled")
      /\ UNCHANGED <<path, tmp, data, pool, kind, alone>>
  BY DEF Cancel
<1>2. /\ outcome' \in [Saves -> {"unborn", "pending", "ok", "error", "cancelled", "lost"}]
      /\ outcome'[running] = "cancelled" /\ running \in Saves /\ outcome[running] = "pending"
      /\ \A n \in Saves : n # running => outcome'[n] = outcome[n]
      /\ \A n \in Saves : Born(n)' <=> Born(n)
      /\ AwaitInv' /\ running' = None /\ step' = "idle" /\ None \notin Saves
      /\ None \notin alone
  BY <1>1, ReturnAwait
<1>3. TypeOK'
  BY <1>1, <1>2 DEF TypeOK
<1>4. PoolInv'
  <2>1. \A c \in pool : c.save \in Saves
    BY DEF TypeOK
  <2>2. \A c \in pool : outcome'[c.save] \in {"pending", "cancelled"} /\ c.save # None
    BY <1>2, <2>1 DEF PoolInv
  <2>. QED  BY <1>1, <1>2, <2>2 DEF PoolInv, Size
<1>5. LoneInv' /\ KeptInv'
  BY <1>1, <1>2 DEF LoneInv, KeptInv, NoneDropped
<1>6. LastInv'
  <2>. SUFFICES ASSUME NEW n \in alone, outcome'[n] = "ok", \A m \in Saves : m > n => ~Born(m)
                PROVE  FALSE
    BY <1>1, <1>2 DEF LastInv, TypeOK
  <2>1. n \in Saves /\ outcome[n] = "ok"
    BY <1>2 DEF TypeOK
  <2>. QED  BY <1>1, <2>1, NotNewest
<1>. QED  BY <1>2, <1>3, <1>4, <1>5, <1>6

\* The process dies; the files stay as they are.
LEMMA CrashStore ==
    ASSUME StoreInv, Crash
    PROVE  StoreInv'
<1>. USE DEF StoreInv
<1>1. /\ pool' = {} /\ running' = None /\ step' = "idle"
      /\ outcome' = [n \in Saves |-> IF outcome[n] = "pending" THEN "lost" ELSE outcome[n]]
      /\ UNCHANGED <<path, tmp, data, kind, alone>>
  BY DEF Crash
<1>2. None \notin Saves /\ None \notin alone
  BY StoreAssumption DEF TypeOK, None, Saves
<1>3. TypeOK'
  BY <1>1 DEF TypeOK
<1>4. \A n \in Saves : Born(n)' <=> Born(n)
  BY <1>1 DEF Born
<1>5. \A n \in Saves : /\ outcome'[n] # "pending"
                       /\ outcome'[n] \in {"ok", "cancelled"} <=> outcome[n] \in {"ok", "cancelled"}
  BY <1>1
<1>6. AwaitInv'
  <2>1. \E k \in 0 .. MaxSaves : \A n \in Saves : Born(n)' <=> n <= k
    BY <1>4 DEF AwaitInv
  <2>2. alone' \subseteq {n \in Saves : Born(n)'}
    BY <1>1, <1>4 DEF AwaitInv
  <2>3. \A n \in Saves : outcome'[n] # "pending" /\ n # None
    BY <1>2, <1>5
  <2>. QED  BY <1>1, <2>1, <2>2, <2>3 DEF AwaitInv, Born
<1>7. PoolInv' /\ LoneInv'
  BY <1>1, <1>2 DEF PoolInv, LoneInv
<1>8. \A n \in Saves : (Holds(n)' <=> Holds(n)) /\ (outcome'[n] = "ok" <=> outcome[n] = "ok")
  BY <1>1 DEF Holds, Text
<1>9. LastInv'
  BY <1>1, <1>4, <1>8 DEF LastInv, TypeOK
<1>10. KeptInv'
  <2>. SUFFICES ASSUME NoneDropped' PROVE KeptInv'
    BY DEF KeptInv
  <2>1. NoneDropped /\ Acknowledged' = Acknowledged
    BY <1>1, <1>8 DEF NoneDropped, Acknowledged
  <2>2. \A n \in Saves : Born(n)' => n \in alone'
    BY <1>1, <1>4, <2>1 DEF KeptInv
  <2>3. CASE path = None /\ Acknowledged = {}
    BY <1>1, <2>1, <2>2, <2>3 DEF KeptInv
  <2>4. ASSUME NEW n \in Saves, Holds(n), outcome[n] \in {"ok", "pending", "lost"},
               \A m \in Acknowledged : m <= n
        PROVE  KeptInv'
    <3>1. Holds(n)' /\ outcome'[n] \in {"ok", "pending", "lost"} /\ n # running'
      BY <1>1, <1>2, <1>8, <2>4
    <3>. QED  BY <2>1, <2>2, <2>4, <3>1 DEF KeptInv
  <2>. QED  BY <2>1, <2>3, <2>4 DEF KeptInv
<1>. QED  BY <1>3, <1>6, <1>7, <1>9, <1>10

(***************************************************************************)
(* The theorem.                                                            *)
(***************************************************************************)

\* Every step keeps the invariant.
LEMMA NextStore == StoreInv /\ [Next]_vars => StoreInv'
<1>. SUFFICES ASSUME StoreInv, [Next]_vars PROVE StoreInv'
  OBVIOUS
<1>1. ASSUME NEW k \in Kinds, Save(k) PROVE StoreInv'
  BY <1>1, SaveStore
<1>2. ASSUME NEW call \in pool, Open(call) \/ Put(call) \/ Rename(call) \/ CallFails(call)
      PROVE  StoreInv'
  BY <1>2, OpenStore, PutStore, RenameStore, CallFailsStore
<1>3. CASE RequestRename \/ Acknowledge \/ Cancel \/ Crash
  BY <1>3, RequestRenameStore, AcknowledgeStore, CancelStore, CrashStore
<1>4. CASE UNCHANGED vars
  <2>1. UNCHANGED <<path, tmp, data, pool, kind, outcome, alone, running, step>>
    BY <1>4 DEF vars
  <2>2. TypeOK' /\ AwaitInv' /\ PoolInv'
    BY <2>1 DEF StoreInv, TypeOK, AwaitInv, PoolInv, Born, Size
  <2>3. LoneInv' /\ LastInv' /\ KeptInv'
    BY <2>1 DEF StoreInv, LoneInv, LastInv, KeptInv, NoneDropped, Acknowledged, Born, Holds, Text
  <2>. QED  BY <2>2, <2>3 DEF StoreInv
<1>. QED  BY <1>1, <1>2, <1>3, <1>4 DEF Next

\* The invariant says what load() may rely on.
LEMMA StoreKeeps == StoreInv => SavesAreAtomic
<1>. SUFFICES ASSUME StoreInv PROVE SavesAreAtomic
  OBVIOUS
<1>. USE DEF StoreInv
<1>. DEFINE last == LastAcknowledged
<1>1. Acknowledged \subseteq Saves /\ None \notin Saves /\ Saves \subseteq Nat
  BY StoreAssumption DEF Acknowledged, None, Saves
<1>2. CASE Acknowledged = {}
  <2>1. last = None /\ None = 0
    BY <1>2 DEF LastAcknowledged, None
  <2>2. LoneSaveHolds
    BY <1>1, <2>1 DEF LoneSaveHolds, TypeOK
  <2>3. NoneDropped => AlwaysLoadable /\ NeverStale
    <3>1. \A n \in Saves : n >= 0
      BY <1>1
    <3>. QED  BY <2>1, <3>1 DEF KeptInv, AlwaysLoadable, NeverStale
  <2>. QED  BY <2>2, <2>3 DEF SavesAreAtomic
<1>3. CASE Acknowledged # {}
  <2>1. last \in Acknowledged /\ \A n \in Acknowledged : last >= n
    BY <1>1, <1>3, MaxMember DEF LastAcknowledged
  <2>. HIDE DEF last
  <2>2. last \in Saves /\ outcome[last] = "ok"
    BY <2>1 DEF Acknowledged
  <2>3. LoneSaveHolds
    BY <2>2 DEF LoneSaveHolds, LastInv, Born, last
  <2>4. NoneDropped => AlwaysLoadable /\ NeverStale
    <3>. SUFFICES ASSUME NoneDropped PROVE AlwaysLoadable /\ NeverStale
      OBVIOUS
    <3>1. PICK n \in Saves : /\ Holds(n) /\ outcome[n] \in {"ok", "pending", "lost"}
                             /\ \A m \in Acknowledged : m <= n
      BY <1>3 DEF KeptInv
    <3>2. n >= last
      BY <1>1, <2>1, <2>2, <3>1
    <3>. QED  BY <3>1, <3>2 DEF AlwaysLoadable, NeverStale, last
  <2>. QED  BY <2>3, <2>4 DEF SavesAreAtomic
<1>. QED  BY <1>2, <1>3

(***************************************************************************)
(* However saves, failures, dropped turns and crashes follow one another:  *)
(* until a turn is dropped the session file loads at every moment, as the  *)
(* last acknowledged save or a later one; and a save that begins with an   *)
(* empty pool and is acknowledged is found whole, whatever was dropped     *)
(* before.  For any number of saves and any length of the text.            *)
(***************************************************************************)
THEOREM StoreIsAtomic == Spec => []SavesAreAtomic
<1>1. Spec => []StoreInv
  BY InitStore, NextStore, PTL DEF Spec
<1>. QED  BY <1>1, StoreKeeps, PTL

(***************************************************************************)
(* AutoConnect, part "search": for any profiles and ports.                 *)
(***************************************************************************)

\* The variables of the part, named as the component names them.

serves == v1
file == v2
pc == v3
at == v4
method == v5
steady == v6
result == v7
USE DEF serves, file, pc, at, method, steady, result

\* The scan has not yet passed a place with a Chrome that could be found all
\* along; the one it asks still has an answer ahead, and none loses its file.
SearchInv ==
    /\ Search!TypeOK
    /\ \A p \in steady : serves[p] # {} /\ (p \in Search!Range(Profiles) => p \in file)
    /\ pc \in {"ask", "remove"} => at <= Len(Search!Order)
    /\ pc # "idle" => \A p \in steady : \E i \in at .. Len(Search!Order) : Search!Order[i] = p
    /\ pc = "ask" /\ Search!Order[at] \in steady =>
          \E m \in method .. 4 : Search!Methods[m] \in serves[Search!Order[at]]
    /\ pc = "remove" => Search!Order[at] \notin steady
    /\ pc = "idle" /\ result = "err" => steady = {}

\* Every place is somewhere in the order of the scan, and nothing else is.
LEMMA SearchOrder ==
    /\ Len(Search!Order) \in Nat
    /\ \A p \in Search!Places : \E i \in 1 .. Len(Search!Order) : Search!Order[i] = p
    /\ \A i \in 1 .. Len(Search!Order) : Search!Order[i] \in Search!Places
<1>. USE PlacesAssumption DEF Search!Range
<1>1. Len(Profiles) \in Nat /\ Len(Ports) \in Nat /\ Len(Search!Order) = Len(Profiles) + Len(Ports)
    BY DEF Search!Order
<1>2. \A i \in 1 .. Len(Search!Order) :
         Search!Order[i] = IF i <= Len(Profiles) THEN Profiles[i] ELSE Ports[i - Len(Profiles)]
    BY DEF Search!Order
<1>3. \A i \in 1 .. Len(Profiles) : Search!Order[i] = Profiles[i]
    BY <1>1, <1>2
<1>4. \A i \in 1 .. Len(Ports) : Search!Order[i + Len(Profiles)] = Ports[i] /\ i + Len(Profiles) \in 1 .. Len(Search!Order)
    BY <1>1, <1>2
<1>5. ASSUME NEW p \in Search!Places
      PROVE  \E i \in 1 .. Len(Search!Order) : Search!Order[i] = p
    <2>1. CASE \E i \in 1 .. Len(Profiles) : Profiles[i] = p
        BY <2>1, <1>1, <1>3
    <2>2. CASE \E i \in 1 .. Len(Ports) : Ports[i] = p
        BY <2>2, <1>1, <1>4
    <2>. QED  BY <2>1, <2>2 DEF Search!Places, Search!Range
<1>6. ASSUME NEW i \in 1 .. Len(Search!Order)
      PROVE  Search!Order[i] \in Search!Places
    <2>1. CASE i <= Len(Profiles)
        BY <2>1, <1>1, <1>2 DEF Search!Places, Search!Range
    <2>2. CASE ~ (i <= Len(Profiles))
        BY <2>2, <1>1, <1>2 DEF Search!Places, Search!Range
    <2>. QED  BY <2>1, <2>2
<1>. QED  BY <1>1, <1>5, <1>6

\* Whatever a running Chrome answers to, it answers to one of the last three.
LEMMA SearchKinds ==
    ASSUME NEW k \in Search!Kinds, k # {}
    PROVE  \E m \in 2 .. 4 : Search!Methods[m] \in k
<1>1. "version" \in k \/ "devtools" \in k
    BY DEF Search!Kinds
<1>2. Search!Methods[2] = "version" /\ Search!Methods[4] = "devtools"
    BY DEF Search!Methods
<1>. QED  BY <1>1, <1>2

\* chrome.rs: a step of the scan passes only a place that failed to answer, and a
\* Chrome that starts or quits meanwhile changes nothing for the others.
LEMMA SearchKeeps ==
    ASSUME SearchInv, [Search!Next]_(Search!vars)
    PROVE  SearchInv'
<1>. USE SearchOrder, PlacesAssumption
<1>. DEFINE L == Len(Search!Order)
<1>0. Len(Search!Methods) = 4
    BY DEF Search!Methods
<1>. USE DEF SearchInv, Search!TypeOK
<1>1. CASE UNCHANGED Search!vars
    BY <1>1 DEF Search!vars
<1>2. CASE Search!Scan
    BY <1>2 DEF Search!Scan
<1>3. CASE Search!Read
    <2>1. CASE Search!Order[at] \in Search!Range(Profiles) /\ Search!Order[at] \notin file
        BY <1>3, <2>1 DEF Search!Read
    <2>2. CASE ~ (Search!Order[at] \in Search!Range(Profiles) /\ Search!Order[at] \notin file)
        <3>1. /\ pc' = "ask" /\ at' = at /\ method' \in {1, 2} /\ at <= L /\ pc = "read"
              /\ UNCHANGED <<serves, file, steady, result>>
            BY <1>3, <2>2 DEF Search!Read
        <3>2. Search!Order[at] \in steady => serves[Search!Order[at]] \in Search!Kinds /\ serves[Search!Order[at]] # {}
            BY <3>1
        <3>3. Search!Order[at] \in steady => \E m \in method' .. 4 : Search!Methods[m] \in serves[Search!Order[at]]
            <4>. SUFFICES ASSUME Search!Order[at] \in steady
                          PROVE  \E m \in method' .. 4 : Search!Methods[m] \in serves[Search!Order[at]]
                OBVIOUS
            <4>1. PICK m \in 2 .. 4 : Search!Methods[m] \in serves[Search!Order[at]]
                BY <3>2, SearchKinds
            <4>2. m \in method' .. 4
                BY <3>1
            <4>. QED  BY <4>1, <4>2
        <3>4. Search!TypeOK'
            BY <3>1, <1>0
        <3>. QED  BY <3>1, <3>3, <3>4
    <2>. QED  BY <2>1, <2>2
<1>4. CASE Search!Answers
    BY <1>4 DEF Search!Answers
<1>5. CASE Search!NoAnswer
    BY <1>5, <1>0 DEF Search!NoAnswer
<1>6. CASE Search!Dead
    BY <1>6, <1>0 DEF Search!Dead
<1>7. CASE Search!RemoveFile
    BY <1>7 DEF Search!RemoveFile
<1>8. CASE Search!NotFound
    BY <1>8 DEF Search!NotFound
<1>9. ASSUME NEW p \in Search!Places, Search!ChromeStarts(p)
      PROVE  SearchInv'
    <2>1. PICK k \in Search!Kinds \ {{}} : serves' = [serves EXCEPT ![p] = k]
        BY <1>9 DEF Search!ChromeStarts
    <2>2. /\ p \notin steady /\ UNCHANGED <<pc, at, method, steady, result>>
          /\ file' = file \/ (file' = file \cup {p} /\ p \in Search!Range(Profiles))
        BY <1>9 DEF Search!ChromeStarts
    <2>3. \A q \in steady : serves'[q] = serves[q]
        BY <2>1, <2>2
    <2>4. serves' \in [Search!Places -> Search!Kinds]
        BY <2>1
    <2>. QED  BY <2>2, <2>3, <2>4
<1>10. ASSUME NEW p \in Search!Places, Search!ChromeQuits(p)
       PROVE  SearchInv'
    BY <1>10 DEF Search!ChromeQuits, Search!Kinds
<1>. QED  BY <1>1, <1>2, <1>3, <1>4, <1>5, <1>6, <1>7, <1>8, <1>9, <1>10 DEF Search!Next

\* chrome.rs: before the first search nothing is promised.
LEMMA SearchStart == Search!Init => SearchInv
    BY SearchOrder, PlacesAssumption DEF Search!Init, SearchInv, Search!TypeOK, Search!Methods

(***************************************************************************)
(* CliStartup, part "startup": for any number of commands.                 *)
(***************************************************************************)

\* The variables of the part, named as the component names them.

toml == v1
given == v2
ws == v3
index == v4
css == v5
run == v6
runs == v7
killed == v8
USE DEF toml, given, ws, index, css, run, runs, killed

Pages == {"none", "empty", "default", "own"}

\* The running command is a record with the options and the configuration the
\* code decides by.
RunInv ==
    /\ DOMAIN run = {"cmd", "opts", "pc", "cfg", "generated"}
    /\ "workspace" \in DOMAIN run.cfg
    /\ "workspace" \in DOMAIN run.opts /\ run.opts["workspace"] \in {Unset, "own"}
    /\ run.pc = "idle" => run.cmd = "none"

\* config.toml is missing, generated, left empty by a killed write, or the user's.
ConfigInv ==
    /\ toml \in {Absent, Startup!Default, Startup!EmptyConfig} \cup Startup!UserConfigs
    /\ given \in {Absent, Garbage} \cup Startup!UserConfigs

\* Who works on the pages has checked or made their workspace, only clean removes,
\* and a page is written only where there was none.
AtInv ==
    /\ run.pc \in {"clean", "index", "css", "write"} => ws[Startup!W]
    /\ run.pc = "clean" => run.cmd = "clean"
    /\ run.pc \in {"css", "write"} => index[Startup!W] = "none"

\* A page is made after its stylesheet and nothing is empty until a command is
\* killed; what a command says it made is there when it goes on.
WholeInv ==
    /\ ~killed => \A w \in Startup!Workspaces : index[w] # "empty" /\ css[w] # "empty"
    /\ run.pc = "write" => css[Startup!W] # "none"
    /\ run.pc \in {"build", "initialised", "serving"} => index[Startup!W] # "none"
    /\ run.generated => run.pc \in {"idle", "build", "initialised", "serving"}
    /\ run.generated /\ run.pc # "idle" => index[Startup!W] = "default" /\ css[Startup!W] # "none"

StartupInv == Startup!TypeOK /\ RunInv /\ ConfigInv /\ AtInv /\ WholeInv

\* lib.rs: a command that only decides changes no file; what it decided is
\* consistent with the invariant when the next place is.
LEMMA StartupMoves ==
    ASSUME StartupInv,
           UNCHANGED <<toml, given, ws, index, css, killed>>,
           runs' \in 0 .. MaxRuns,
           RunInv', run'.cfg.workspace \in Startup!Workspaces,
           AtInv', WholeInv'
    PROVE  StartupInv'
<1>1. Startup!TypeOK'
    BY DEF StartupInv, Startup!TypeOK
<1>2. ConfigInv'
    BY DEF StartupInv, ConfigInv
<1>. QED  BY <1>1, <1>2 DEF StartupInv

\* Finish: the next command finds what this one left.
LEMMA StartupFinish ==
    ASSUME StartupInv, Startup!Finish,
           ~killed' => \A w \in Startup!Workspaces : index'[w] # "empty" /\ css'[w] # "empty"
    PROVE  RunInv' /\ AtInv' /\ WholeInv' /\ run'.cfg.workspace \in Startup!Workspaces
<1>1. run' = Startup!Idle
    BY DEF Startup!Finish
<1>2. RunInv'
    BY <1>1 DEF RunInv, Startup!Idle, Startup!NoOptions, Startup!Default
<1>3. run'.pc = "idle" /\ run'.cfg.workspace = "home" /\ run'.generated = FALSE
    BY <1>1 DEF Startup!Idle, Startup!Default
<1>4. AtInv'
    BY <1>3 DEF AtInv
<1>5. WholeInv'
    BY <1>3 DEF WholeInv
<1>. QED  BY <1>2, <1>3, <1>4, <1>5 DEF Startup!Workspaces

\* Goto changes the place only.
LEMMA StartupGoto ==
    ASSUME RunInv, NEW place, place # "idle", Startup!Goto(place)
    PROVE  /\ RunInv'
           /\ run'.pc = place /\ run'.cmd = run.cmd
           /\ run'.cfg = run.cfg /\ run'.opts = run.opts /\ Startup!W' = Startup!W
           /\ run'.generated = run.generated
<1>1. run' = [run EXCEPT !.pc = place]
    BY DEF Startup!Goto
<1>2. run'.pc = place /\ run'.cmd = run.cmd /\ run'.cfg = run.cfg /\ run'.opts = run.opts
      /\ DOMAIN run' = DOMAIN run /\ run'.generated = run.generated
    BY <1>1 DEF RunInv
<1>. QED  BY <1>2 DEF RunInv, Startup!W

\* ensure_workspace_index_html returns, and the command goes on.
LEMMA StartupAfter ==
    ASSUME RunInv, NEW made, Startup!After(made)
    PROVE  /\ RunInv'
           /\ run'.pc \in {"initialised", "build"} /\ run'.generated = made
           /\ run'.cfg = run.cfg /\ Startup!W' = Startup!W
<1>1. PICK place \in {"initialised", "build"} :
         run' = [run EXCEPT !.generated = made, !.pc = place]
    BY DEF Startup!After
<1>2. run'.pc = place /\ run'.generated = made /\ run'.cfg = run.cfg /\ run'.opts = run.opts
      /\ DOMAIN run' = DOMAIN run
    BY <1>1 DEF RunInv
<1>. QED  BY <1>2 DEF RunInv, Startup!W

\* The user's values, whatever file they are from: the workspace is one there is.
LEMMA StartupLoaded ==
    ASSUME StartupInv, Startup!Loaded(run.opts) # Failed
    PROVE  Startup!Effective(run.opts)["workspace"] \in Startup!Workspaces
<1>. DEFINE file_ == Startup!Loaded(run.opts)
<1>1. file_ \in {Startup!Default, Startup!EmptyConfig} \cup Startup!UserConfigs
    BY DEF StartupInv, ConfigInv, Startup!Loaded
<1>2. ASSUME NEW c \in {Startup!Default, Startup!EmptyConfig} \cup Startup!UserConfigs
      PROVE  c["workspace"] \in {Unset, "home", "own"}
    <2>1. Startup!Default["workspace"] = "home"
        BY DEF Startup!Default
    <2>2. /\ DOMAIN Startup!EmptyConfig = Startup!Fields
          /\ Startup!EmptyConfig["workspace"] = Unset
        BY DEF Startup!EmptyConfig, Startup!Fields
    <2>. DEFINE e == Startup!EmptyConfig
    <2>3. c \in Startup!UserConfigs => c["workspace"] \in {Unset, "own"}
        <3>1. c \in Startup!UserConfigs =>
                \/ c = [e EXCEPT !.key = "own"]
                \/ c = [e EXCEPT !.key = "own", !.workspace = "own"]
                \/ c = [e EXCEPT !.key = "own", !.level = "bad"]
                \/ c = [e EXCEPT !.key = "own", !.host = "bad"]
                \/ c = [e EXCEPT !.provider = "bad", !.search = "nokey"]
            BY DEF Startup!UserConfigs
        <3>. HIDE DEF e
        <3>. QED  BY <3>1, <2>2 DEF Startup!Fields, e
    <2>. QED  BY <2>1, <2>2, <2>3
<1>3. file_["workspace"] \in {Unset, "home", "own"}
    BY <1>1, <1>2
<1>4. Startup!Default["workspace"] = "home" /\ "workspace" \in Startup!Fields
    BY DEF Startup!Default, Startup!Fields
<1>. HIDE DEF file_
<1>5. Startup!Effective(run.opts)["workspace"] =
        IF run.opts["workspace"] # Unset THEN run.opts["workspace"]
        ELSE IF file_["workspace"] # Unset THEN file_["workspace"] ELSE Startup!Default["workspace"]
    BY <1>4 DEF Startup!Effective, StartupInv, RunInv, file_
<1>. QED  BY <1>3, <1>4, <1>5 DEF StartupInv, RunInv, Startup!Workspaces

\* What lib.rs promises of the files of the user, of one step.
KeptStep ==
    \A w \in Startup!Workspaces :
        /\ index[w] = "own" /\ index'[w] # "own" => run.cmd \in {"clean", "none"}
        /\ css[w] = "own" /\ css'[w] # "own" => run.cmd \in {"clean", "none"}

\* Start and the steps that only read.
LEMMA StartupReads ==
    ASSUME StartupInv,
           \/ Startup!Start \/ Startup!LogLevel \/ Startup!ServerConfig
           \/ Startup!EnsureIndex \/ Startup!BuildRuntime \/ Startup!Stop
    PROVE  StartupInv' /\ KeptStep
<1>. USE DEF StartupInv, Startup!TypeOK, Startup!At
<1>0. UNCHANGED <<toml, given, ws, index, css, killed>>
    BY DEF Startup!Start, Startup!LogLevel, Startup!ServerConfig, Startup!EnsureIndex,
        Startup!BuildRuntime, Startup!Stop
<1>1. KeptStep
    BY <1>0 DEF KeptStep
<1>2. ~killed => \A w \in Startup!Workspaces : index'[w] # "empty" /\ css'[w] # "empty"
    BY <1>0 DEF WholeInv
<1>3. CASE Startup!Start
    <2>1. PICK cmd \in {"agent", "version", "clean", "init"}, outer, sub \in Startup!Options :
             run' = [cmd |-> cmd, opts |-> Startup!Merge(outer, sub), pc |-> "level",
                     cfg |-> Startup!Default, generated |-> FALSE]
        BY ONLY <1>3 DEF Startup!Start
    <2>2. runs' \in 0 .. MaxRuns
        <3>1. runs < MaxRuns /\ runs' = runs + 1 /\ runs \in 0 .. MaxRuns /\ MaxRuns \in Nat
            BY <1>3, StartupAssumption DEF Startup!Start
        <3>. QED  BY ONLY <3>1
    <2>3. /\ DOMAIN run' = {"cmd", "opts", "pc", "cfg", "generated"} /\ run'.pc = "level"
          /\ run'.generated = FALSE
          /\ run'.cfg = Startup!Default /\ run'.opts = Startup!Merge(outer, sub)
        BY <2>1
    <2>4. /\ outer.workspace \in {Unset, "own"} /\ sub.workspace \in {Unset, "own"}
          /\ "workspace" \in DOMAIN outer
        BY DEF Startup!Options
    <2>5. "workspace" \in DOMAIN run'.opts /\ run'.opts["workspace"] \in {Unset, "own"}
        BY <2>3, <2>4 DEF Startup!Merge
    <2>6. "workspace" \in DOMAIN run'.cfg /\ run'.cfg.workspace = "home"
        <3>1. "workspace" \in DOMAIN Startup!Default /\ Startup!Default.workspace = "home"
            BY ONLY DEF Startup!Default
        <3>. QED  BY ONLY <2>3, <3>1
    <2>7. RunInv' /\ AtInv'
        BY <2>3, <2>5, <2>6 DEF RunInv, AtInv
    <2>8. WholeInv'
        BY <1>0, <1>2, <2>3 DEF WholeInv
    <2>. QED  BY <1>0, <1>1, <2>2, <2>6, <2>7, <2>8, StartupMoves DEF Startup!Workspaces
<1>4. runs' \in 0 .. MaxRuns
    BY <1>3 DEF Startup!Start, Startup!LogLevel, Startup!ServerConfig, Startup!EnsureIndex,
        Startup!BuildRuntime, Startup!Stop
<1>5. CASE Startup!Finish
    BY <1>0, <1>1, <1>2, <1>4, <1>5, StartupFinish, StartupMoves
<1>6. ASSUME NEW place \in {"prepare", "config", "serving"}, Startup!Goto(place),
             run.pc \in {"level", "server", "build"}, place = "serving" <=> run.pc = "build"
      PROVE  StartupInv' /\ KeptStep
    <2>1. RunInv' /\ run'.pc = place /\ run'.cfg = run.cfg /\ Startup!W' = Startup!W
          /\ run'.generated = run.generated
        BY <1>6, StartupGoto
    <2>2. AtInv'
        BY <1>6, <2>1 DEF AtInv
    <2>3. WholeInv'
        BY <1>0, <1>6, <2>1 DEF WholeInv
    <2>. QED  BY <1>0, <1>1, <1>4, <2>1, <2>2, <2>3, StartupMoves
<1>7. CASE Startup!LogLevel
    <2>1. run.pc = "level" /\ (Startup!Finish \/ Startup!Goto("prepare"))
        BY <1>7 DEF Startup!LogLevel
    <2>. QED  BY <2>1, <1>5, <1>6
<1>8. CASE Startup!ServerConfig
    <2>1. run.pc = "server" /\ (Startup!Finish \/ Startup!Goto("config"))
        BY <1>8 DEF Startup!ServerConfig
    <2>. QED  BY <2>1, <1>5, <1>6
<1>9. CASE Startup!BuildRuntime
    <2>1. run.pc = "build" /\ (Startup!Finish \/ Startup!Goto("serving"))
        BY <1>9 DEF Startup!BuildRuntime
    <2>. QED  BY <2>1, <1>5, <1>6
<1>10. CASE Startup!Stop
    BY <1>10, <1>5 DEF Startup!Stop
<1>11. CASE Startup!EnsureIndex
    <2>0. run.pc = "index" /\ ws[Startup!W]
        BY <1>11 DEF Startup!EnsureIndex, AtInv
    <2>1. CASE index[Startup!W] # "none"
        <3>1. Startup!After(FALSE)
            BY <1>11, <2>1 DEF Startup!EnsureIndex
        <3>2. RunInv' /\ run'.pc \in {"initialised", "build"} /\ run'.cfg = run.cfg
              /\ run'.generated = FALSE /\ Startup!W' = Startup!W
            BY <3>1, StartupAfter
        <3>3. AtInv'
            BY <3>2 DEF AtInv
        <3>4. WholeInv'
            BY <1>0, <2>0, <2>1, <3>2 DEF WholeInv
        <3>. QED  BY <1>0, <1>1, <1>4, <3>2, <3>3, <3>4, StartupMoves
    <2>2. CASE index[Startup!W] = "none"
        <3>1. Startup!Goto("css")
            BY <1>11, <2>2 DEF Startup!EnsureIndex
        <3>2. RunInv' /\ run'.pc = "css" /\ run'.cfg = run.cfg /\ Startup!W' = Startup!W
              /\ run'.generated = run.generated
            BY <3>1, StartupGoto
        <3>3. AtInv'
            BY <1>0, <2>0, <2>2, <3>2 DEF AtInv
        <3>4. WholeInv'
            BY <1>0, <2>0, <3>2 DEF WholeInv
        <3>. QED  BY <1>0, <1>1, <1>4, <3>2, <3>3, <3>4, StartupMoves
    <2>. QED  BY <2>1, <2>2
<1>. QED  BY <1>3, <1>7, <1>8, <1>9, <1>10, <1>11

\* prepare_user_environment writes the defaults where there is no config.toml.
LEMMA StartupPrepare ==
    ASSUME StartupInv, Startup!Prepare
    PROVE  StartupInv' /\ KeptStep
<1>. USE DEF StartupInv
<1>1. /\ run.pc = "prepare" /\ ws' = [ws EXCEPT !["home"] = TRUE]
      /\ UNCHANGED <<given, index, css, runs, killed>>
      /\ toml' \in {toml, Startup!Default}
      /\ Startup!Finish \/ Startup!Goto("server") \/ Startup!Goto("config")
    BY DEF Startup!Prepare, Startup!At, Startup!default_config_toml
<1>2. KeptStep
    BY <1>1 DEF KeptStep
<1>3. ConfigInv'
    BY <1>1 DEF ConfigInv
<1>4. ws' \in [Startup!Workspaces -> BOOLEAN] /\ \A w \in Startup!Workspaces : ws[w] => ws'[w]
    BY <1>1 DEF Startup!TypeOK
<1>5. RunInv' /\ AtInv' /\ WholeInv' /\ run'.cfg.workspace \in Startup!Workspaces
    <2>1. CASE Startup!Finish
        <3>1. ~killed => \A w \in Startup!Workspaces : index'[w] # "empty" /\ css'[w] # "empty"
            BY <1>1 DEF WholeInv
        <3>. QED  BY <1>1, <2>1, <3>1, StartupFinish
    <2>2. ASSUME NEW place \in {"server", "config"}, Startup!Goto(place)
          PROVE  RunInv' /\ AtInv' /\ WholeInv' /\ run'.cfg.workspace \in Startup!Workspaces
        <3>1. RunInv' /\ run'.pc = place /\ run'.cfg = run.cfg /\ Startup!W' = Startup!W
              /\ run'.generated = run.generated
            BY <2>2, StartupGoto
        <3>2. AtInv' /\ WholeInv'
            BY <1>1, <3>1 DEF AtInv, WholeInv
        <3>. QED  BY <3>1, <3>2 DEF Startup!TypeOK
    <2>. QED  BY <1>1, <2>1, <2>2
<1>6. Startup!TypeOK'
    BY <1>1, <1>4, <1>5 DEF Startup!TypeOK
<1>. QED  BY <1>2, <1>3, <1>5, <1>6

\* into_config and resolved_workspace_for_init: what goes on has its workspace.
LEMMA StartupConfig ==
    ASSUME StartupInv, Startup!IntoConfig
    PROVE  StartupInv' /\ KeptStep
<1>. USE DEF StartupInv
<1>. DEFINE cfg == Startup!Effective(run.opts)
<1>1. run.pc = "config" /\ UNCHANGED <<toml, given, index, css, runs, killed>>
    BY DEF Startup!IntoConfig, Startup!At
<1>2. KeptStep
    BY <1>1 DEF KeptStep
<1>3. ConfigInv'
    BY <1>1 DEF ConfigInv
<1>4. ASSUME ws' \in [Startup!Workspaces -> BOOLEAN],
             \A w \in Startup!Workspaces : ws[w] => ws'[w],
             RunInv', AtInv', WholeInv', run'.cfg.workspace \in Startup!Workspaces
      PROVE  StartupInv'
    BY <1>1, <1>3, <1>4 DEF Startup!TypeOK
<1>5. CASE Startup!Finish /\ UNCHANGED ws
    <2>1. ~killed => \A w \in Startup!Workspaces : index'[w] # "empty" /\ css'[w] # "empty"
        BY <1>1 DEF WholeInv
    <2>2. ws' \in [Startup!Workspaces -> BOOLEAN] /\ \A w \in Startup!Workspaces : ws[w] => ws'[w]
        BY <1>5 DEF Startup!TypeOK
    <2>. QED  BY <1>1, <1>2, <1>4, <1>5, <2>1, <2>2, StartupFinish
<1>6. ASSUME NEW w \in Startup!Workspaces, NEW place \in {"index", "clean"},
             run'.pc = place, run'.cfg.workspace = w, ws'[w],
             DOMAIN run' = DOMAIN run, run'.opts = run.opts, "workspace" \in DOMAIN run'.cfg,
             run'.generated = run.generated,
             place = "clean" => run'.cmd = "clean",
             ws' \in [Startup!Workspaces -> BOOLEAN],
             \A u \in Startup!Workspaces : ws[u] => ws'[u]
      PROVE  StartupInv'
    <2>1. RunInv'
        BY <1>6 DEF RunInv
    <2>2. AtInv'
        BY <1>6 DEF AtInv, Startup!W
    <2>3. WholeInv'
        BY <1>1, <1>6 DEF WholeInv
    <2>. QED  BY <1>4, <1>6, <2>1, <2>2, <2>3
<1>7. CASE run.cmd = "init" /\ ~ (Startup!Finish /\ UNCHANGED ws)
    <2>. DEFINE w == IF run.opts.workspace # Unset THEN "own" ELSE cfg.workspace
    <2>1. /\ run' = [run EXCEPT !.pc = "index", !.cfg.workspace = w]
          /\ ws' = [ws EXCEPT ![w] = TRUE]
          /\ ~ (Startup!Loaded(run.opts) = Failed /\ run.opts.workspace = Unset)
        BY <1>7 DEF Startup!IntoConfig
    <2>2. w \in Startup!Workspaces
        BY <2>1, StartupLoaded DEF Startup!Workspaces
    <2>. HIDE DEF w, cfg
    <2>3. /\ run'.pc = "index" /\ DOMAIN run' = DOMAIN run /\ run'.opts = run.opts
          /\ run'.generated = run.generated
          /\ run'.cfg.workspace = w /\ "workspace" \in DOMAIN run'.cfg
        BY <2>1 DEF RunInv
    <2>4. ws' \in [Startup!Workspaces -> BOOLEAN] /\ ws'[w] /\ \A u \in Startup!Workspaces : ws[u] => ws'[u]
        BY <2>1, <2>2 DEF Startup!TypeOK
    <2>. QED  BY <1>2, <1>6, <2>2, <2>3, <2>4
<1>8. CASE run.cmd # "init" /\ ~ (Startup!Finish /\ UNCHANGED ws)
    <2>1. /\ run' = [run EXCEPT !.cfg = cfg, !.pc = IF run.cmd = "clean" THEN "clean" ELSE "index"]
          /\ ws' = ws /\ ws[cfg.workspace] /\ Startup!Loaded(run.opts) # Failed
        BY <1>8 DEF Startup!IntoConfig
    <2>2. cfg.workspace \in Startup!Workspaces /\ "workspace" \in DOMAIN cfg
        BY <2>1, StartupLoaded DEF Startup!Effective, Startup!Fields
    <2>. HIDE DEF cfg
    <2>3. /\ run'.pc = IF run.cmd = "clean" THEN "clean" ELSE "index"
          /\ DOMAIN run' = DOMAIN run /\ run'.opts = run.opts /\ run'.cmd = run.cmd
          /\ run'.cfg = cfg /\ run'.generated = run.generated
        BY <2>1 DEF RunInv
    <2>4. ws' \in [Startup!Workspaces -> BOOLEAN] /\ \A u \in Startup!Workspaces : ws[u] => ws'[u]
        BY <2>1 DEF Startup!TypeOK
    <2>. QED  BY <1>2, <1>6, <2>1, <2>2, <2>3, <2>4
<1>. QED  BY <1>2, <1>5, <1>7, <1>8

\* Clean, EnsureCss and WriteIndex: pages change in the resolved workspace only.
LEMMA StartupPages ==
    ASSUME StartupInv, Startup!Clean \/ Startup!EnsureCss \/ Startup!WriteIndex
    PROVE  StartupInv' /\ KeptStep
<1>. USE DEF StartupInv, Startup!At
<1>. DEFINE w0 == Startup!W
<1>1. UNCHANGED <<toml, given, ws, runs, killed>> /\ run.pc \in {"clean", "css", "write"}
    BY DEF Startup!Clean, Startup!EnsureCss, Startup!WriteIndex
<1>2. ConfigInv'
    BY <1>1 DEF ConfigInv
<1>3. w0 \in Startup!Workspaces /\ ws[w0]
    BY <1>1 DEF Startup!TypeOK, AtInv, Startup!W
<1>4. ASSUME index' \in [Startup!Workspaces -> Pages], css' \in [Startup!Workspaces -> Pages],
             \A w \in Startup!Workspaces : w # w0 => index'[w] = index[w] /\ css'[w] = css[w],
             RunInv', AtInv', WholeInv', run'.cfg.workspace \in Startup!Workspaces
      PROVE  StartupInv'
    <2>1. Startup!TypeOK'
        BY <1>1, <1>3, <1>4 DEF Startup!TypeOK, Pages
    <2>. QED  BY <1>2, <1>4, <2>1
<1>. HIDE DEF w0
<1>5. CASE Startup!Clean
    <2>0. run.pc = "clean" /\ run.cmd = "clean"
        BY <1>5 DEF Startup!Clean, AtInv
    <2>1. KeptStep
        BY <2>0 DEF KeptStep
    <2>2. CASE /\ UNCHANGED run
               /\ \/ index' = [index EXCEPT ![w0] = "none"] /\ css' = css
                  \/ css' = [css EXCEPT ![w0] = "none"] /\ index' = index
        <3>1. index' \in [Startup!Workspaces -> Pages] /\ css' \in [Startup!Workspaces -> Pages]
            BY <2>2, <1>3 DEF Startup!TypeOK, Pages
        <3>2. \A w \in Startup!Workspaces :
                 /\ index'[w] \in {index[w], "none"} /\ css'[w] \in {css[w], "none"}
                 /\ w # w0 => index'[w] = index[w] /\ css'[w] = css[w]
            BY <2>2, <1>3 DEF Startup!TypeOK
        <3>3. Startup!W' = w0
            BY <2>2 DEF Startup!W, w0
        <3>4. RunInv' /\ AtInv'
            BY <2>0, <2>2, <1>1, <1>3, <3>3 DEF RunInv, AtInv
        <3>5. WholeInv'
            BY <2>0, <2>2, <1>1, <3>2, <3>3 DEF WholeInv, w0
        <3>6. run'.cfg.workspace \in Startup!Workspaces
            BY <2>2 DEF Startup!TypeOK
        <3>. QED  BY <2>1, <3>1, <3>2, <3>4, <3>5, <3>6, <1>4
    <2>3. CASE index[w0] = "none" /\ css[w0] = "none" /\ Startup!Finish /\ UNCHANGED <<index, css>>
        <3>1. ~killed => \A w \in Startup!Workspaces : index'[w] # "empty" /\ css'[w] # "empty"
            BY <2>3 DEF WholeInv, w0
        <3>2. RunInv' /\ AtInv' /\ WholeInv' /\ run'.cfg.workspace \in Startup!Workspaces
            BY <1>1, <2>3, <3>1, StartupFinish
        <3>. QED  BY <2>1, <2>3, <3>2, <1>4 DEF Startup!TypeOK, Pages
    <2>. QED  BY <1>5, <2>2, <2>3 DEF Startup!Clean, w0
<1>6. CASE Startup!EnsureCss
    <2>0. /\ run.pc = "css" /\ index' = index /\ Startup!Goto("write")
          /\ css' = [css EXCEPT ![w0] = IF @ = "none" THEN "default" ELSE @]
        BY <1>6 DEF Startup!EnsureCss, w0
    <2>1. css' \in [Startup!Workspaces -> Pages]
        BY <2>0, <1>3 DEF Startup!TypeOK, Pages
    <2>2. \A w \in Startup!Workspaces :
             /\ w # w0 \/ css[w] # "none" => css'[w] = css[w]
             /\ css'[w0] # "none"
             /\ css'[w] = "empty" => css[w] = "empty"
        BY <2>0, <1>3 DEF Startup!TypeOK
    <2>3. KeptStep
        BY <2>0, <2>2 DEF KeptStep
    <2>4. RunInv' /\ run'.pc = "write" /\ run'.cfg = run.cfg /\ Startup!W' = w0
          /\ run'.generated = run.generated
        BY <2>0, StartupGoto DEF w0
    <2>5. AtInv'
        BY <2>0, <2>4, <1>1, <1>3 DEF AtInv, w0
    <2>6. WholeInv'
        BY <2>0, <2>2, <2>4, <1>1, <1>3 DEF WholeInv
    <2>. QED  BY <2>0, <2>1, <2>2, <2>3, <2>4, <2>5, <2>6, <1>4 DEF Startup!TypeOK, Pages
<1>7. CASE Startup!WriteIndex
    <2>0. /\ run.pc = "write" /\ css' = css /\ index' = [index EXCEPT ![w0] = "default"]
          /\ Startup!After(TRUE) /\ css[w0] # "none"
        BY <1>7 DEF Startup!WriteIndex, WholeInv, w0
    <2>2. index' \in [Startup!Workspaces -> Pages]
        BY <2>0, <1>3 DEF Startup!TypeOK, Pages
    <2>3. /\ index'[w0] = "default"
          /\ \A w \in Startup!Workspaces : w # w0 => index'[w] = index[w]
        BY <2>0, <1>3 DEF Startup!TypeOK
    <2>4. KeptStep
        BY <2>0, <2>3 DEF KeptStep, AtInv, w0
    <2>5. RunInv' /\ run'.pc \in {"initialised", "build"} /\ run'.cfg = run.cfg /\ Startup!W' = w0
        BY <2>0, StartupAfter DEF w0
    <2>6. AtInv'
        BY <2>5 DEF AtInv
    <2>7. WholeInv'
        BY <2>0, <2>3, <2>5, <1>1, <1>3 DEF WholeInv, w0
    <2>. QED  BY <2>0, <2>2, <2>3, <2>4, <2>5, <2>6, <2>7, <1>4 DEF Startup!TypeOK, Pages
<1>. QED  BY <1>5, <1>6, <1>7

\* Crash: whatever file it leaves empty, it is none the user wrote.
LEMMA StartupCrash ==
    ASSUME StartupInv, Startup!Crash
    PROVE  StartupInv' /\ KeptStep
<1>. USE DEF StartupInv, Startup!At
<1>. DEFINE w0 == Startup!W
<1>1. UNCHANGED <<given, ws, runs>> /\ killed' = TRUE /\ Startup!Finish
    BY DEF Startup!Crash
<1>2. toml' \in {toml, Startup!EmptyConfig}
    BY DEF Startup!Crash
<1>3. \/ UNCHANGED <<index, css>>
      \/ run.pc = "css" /\ css[w0] = "none" /\ css' = [css EXCEPT ![w0] = "empty"] /\ index' = index
      \/ run.pc = "write" /\ index' = [index EXCEPT ![w0] = "empty"] /\ css' = css
    BY DEF Startup!Crash
<1>4. w0 \in Startup!Workspaces
    BY DEF Startup!TypeOK, Startup!W
<1>5. run.pc \in {"css", "write"} => ws[w0] /\ index[w0] = "none"
    BY DEF AtInv
<1>6. RunInv' /\ AtInv' /\ WholeInv' /\ run'.cfg.workspace \in Startup!Workspaces
    BY <1>1, StartupFinish
<1>7. ConfigInv'
    BY <1>1, <1>2 DEF ConfigInv
<1>. HIDE DEF w0
<1>8. /\ index' \in [Startup!Workspaces -> Pages] /\ css' \in [Startup!Workspaces -> Pages]
      /\ \A w \in Startup!Workspaces : w # w0 => index'[w] = index[w] /\ css'[w] = css[w]
    BY <1>3, <1>4 DEF Startup!TypeOK, Pages
<1>9. Startup!TypeOK'
    BY <1>1, <1>3, <1>4, <1>5, <1>6, <1>8 DEF Startup!TypeOK, Pages
<1>10. KeptStep
    BY <1>3, <1>4, <1>5 DEF KeptStep, Startup!TypeOK
<1>. QED  BY <1>6, <1>7, <1>9, <1>10

\* Edit: between commands the user writes and removes files, one at a time.
LEMMA StartupEdit ==
    ASSUME StartupInv, Startup!Edit
    PROVE  StartupInv' /\ KeptStep
<1>. USE DEF StartupInv, Startup!At
<1>1. run.pc = "idle" /\ UNCHANGED <<given, run, runs, killed>>
    BY DEF Startup!Edit
<1>0. run.cmd = "none"
    BY <1>1 DEF RunInv
<1>2. /\ ws' \in [Startup!Workspaces -> BOOLEAN]
      /\ \A w \in Startup!Workspaces : ws[w] => ws'[w]
    BY DEF Startup!Edit, Startup!TypeOK, Startup!Workspaces
<1>3. /\ index' \in [Startup!Workspaces -> Pages] /\ css' \in [Startup!Workspaces -> Pages]
      /\ \A w \in Startup!Workspaces :
            /\ index'[w] \in {index[w], "none", "own"} /\ css'[w] \in {css[w], "none", "own"}
            /\ ws'[w] \/ (index'[w] = index[w] /\ css'[w] = css[w])
    BY DEF Startup!Edit, Startup!TypeOK, Pages
<1>4. ConfigInv'
    BY <1>1 DEF ConfigInv, Startup!Edit
<1>5. RunInv' /\ AtInv'
    BY <1>1 DEF RunInv, AtInv
<1>6. WholeInv'
    BY <1>1, <1>3 DEF WholeInv
<1>7. Startup!TypeOK'
    BY <1>1, <1>2, <1>3 DEF Startup!TypeOK, Pages
<1>8. KeptStep
    BY <1>0 DEF KeptStep
<1>. QED  BY <1>4, <1>5, <1>6, <1>7, <1>8

\* Every step keeps the invariant and the files of the user.
LEMMA StartupKeeps ==
    ASSUME StartupInv, [Startup!Next]_(Startup!vars)
    PROVE  StartupInv' /\ KeptStep
<1>1. CASE UNCHANGED Startup!vars
    <2>1. UNCHANGED <<toml, given, ws, index, css, run, runs, killed>>
        BY <1>1 DEF Startup!vars
    <2>. QED  BY <2>1 DEF StartupInv, Startup!TypeOK, RunInv, ConfigInv, AtInv, WholeInv, KeptStep, Startup!W
<1>2. CASE \/ Startup!Start \/ Startup!LogLevel \/ Startup!ServerConfig
           \/ Startup!EnsureIndex \/ Startup!BuildRuntime \/ Startup!Stop
    BY <1>2, StartupReads
<1>3. CASE Startup!Prepare \/ Startup!IntoConfig
    BY <1>3, StartupPrepare, StartupConfig
<1>4. CASE Startup!Clean \/ Startup!EnsureCss \/ Startup!WriteIndex
    BY <1>4, StartupPages
<1>5. CASE Startup!Crash \/ Startup!Edit
    BY <1>5, StartupCrash, StartupEdit
<1>. QED  BY <1>1, <1>2, <1>3, <1>4, <1>5 DEF Startup!Next

\* A first start finds nothing.
LEMMA StartupStart == Startup!Init => StartupInv
<1>. SUFFICES ASSUME Startup!Init PROVE StartupInv
    OBVIOUS
<1>1. run = Startup!Idle /\ toml = Absent /\ given \in {Absent, Garbage} \cup Startup!UserConfigs
      /\ runs = 0 /\ killed = FALSE
      /\ \A w \in Startup!Workspaces : ~ws[w] /\ index[w] = "none" /\ css[w] = "none"
    BY DEF Startup!Init
<1>2. run.pc = "idle" /\ run.cfg.workspace = "home"
    BY <1>1 DEF Startup!Idle, Startup!Default
<1>3. RunInv
    BY <1>1 DEF RunInv, Startup!Idle, Startup!NoOptions, Startup!Default
<1>4. Startup!TypeOK
    <2>1. runs \in 0 .. MaxRuns
        <3>1. MaxRuns \in Nat /\ runs = 0
            BY ONLY <1>1, StartupAssumption, Zenon
        <3>. QED  BY ONLY <3>1
    <2>2. run.cfg.workspace \in Startup!Workspaces /\ killed \in BOOLEAN
        BY ONLY <1>1, <1>2 DEF Startup!Workspaces
    <2>3. /\ ws \in [Startup!Workspaces -> BOOLEAN]
          /\ index \in [Startup!Workspaces -> {"none", "empty", "default", "own"}]
          /\ css \in [Startup!Workspaces -> {"none", "empty", "default", "own"}]
        BY DEF Startup!Init
    <2>. QED  BY <1>1, <2>1, <2>2, <2>3 DEF Startup!TypeOK
<1>5. ConfigInv /\ AtInv /\ WholeInv
    BY <1>1, <1>2 DEF ConfigInv, AtInv, WholeInv
<1>. QED  BY <1>3, <1>4, <1>5 DEF StartupInv

\* What the invariant says of pages and configuration.
LEMMA StartupTells ==
    StartupInv => Startup!TypeOK /\ Startup!PageFilesThere /\ Startup!GeneratedConfigIsNeutral
<1>. SUFFICES ASSUME StartupInv PROVE Startup!PageFilesThere /\ Startup!GeneratedConfigIsNeutral
    BY DEF StartupInv
<1>1. Startup!PageFilesThere
    BY DEF Startup!PageFilesThere, StartupInv, WholeInv, Startup!TypeOK, Startup!W
<1>2. ASSUME toml \notin Startup!UserConfigs \cup {Garbage}
      PROVE  Startup!Effective(Startup!NoOptions) = Startup!Default
    <2>. DEFINE d == Startup!Default  e == Startup!EmptyConfig  F == Startup!Fields  o == Startup!NoOptions
    <2>1. d = [f \in F |-> d[f]] /\ \A f \in F : d[f] # Unset
        <3>1. DOMAIN d = F
            BY ONLY DEF Startup!Default, Startup!Fields
        <3>2. d = [f \in DOMAIN d |-> d[f]]
            BY ONLY DEF Startup!Default
        <3>3. \A f \in F : d[f] # Unset
            <4>1. Unset \notin {"given", "home", "own", "info", "bad", "loopback", "openai",
                               "off", "nokey", "blank"}
                BY ONLY StartupAssumption, Zenon
            <4>. QED  BY ONLY <4>1 DEF Startup!Default, Startup!Fields
        <3>. QED  BY ONLY <3>1, <3>2, <3>3
    <2>2. \A f \in F : e[f] = Unset
        BY DEF Startup!EmptyConfig
    <2>3. o.config = Unset /\ \A f \in DOMAIN o : o[f] = Unset
        BY DEF Startup!NoOptions
    <2>4. toml \in {Absent, d, e} /\ toml # Garbage
        BY <1>2 DEF StartupInv, ConfigInv
    <2>. HIDE DEF d, e, F, o
    <2>5. Startup!Loaded(o) \in {d, e}
        BY <2>3, <2>4 DEF Startup!Loaded, e
    <2>6. \A f \in F : (IF Startup!Loaded(o)[f] # Unset THEN Startup!Loaded(o)[f] ELSE d[f]) = d[f]
        BY <2>1, <2>2, <2>5
    <2>7. Startup!Effective(o) = [f \in F |-> IF Startup!Loaded(o)[f] # Unset THEN Startup!Loaded(o)[f] ELSE d[f]]
        BY <2>3 DEF Startup!Effective, d, F
    <2>8. Startup!Effective(o) = d
        BY <2>1, <2>6, <2>7
    <2>. QED  BY <2>8 DEF d, o
<1>. QED  BY <1>1, <1>2 DEF Startup!GeneratedConfigIsNeutral

(***************************************************************************)
(* The chat loop, part "chat": for any number of turns, requests, commands *)
(* and messages to keep.                                                   *)
(***************************************************************************)

\* Calls of a message are followed by their answers; those that go past the end are
\* the calls still to run, in order.
Owed(ms, todo) ==
    \A i \in 1 .. Len(ms) : ms[i].role = "assistant" =>
        \A k \in 1 .. Len(ms[i].calls) :
            \/ i + k <= Len(ms) /\ ms[i + k] = Chat!Tool(ms[i].calls[k])
            \/ /\ i + k > Len(ms) /\ i + k - Len(ms) <= Len(todo)
               /\ todo[i + k - Len(ms)] = ms[i].calls[k]

\* An answer comes after an answer or the message it answers.
Follows(ms) ==
    \A i \in 1 .. Len(ms) : ms[i].role = "tool" => i >= 2 /\ ms[i - 1].role \in {"tool", "assistant"}

\* After the prompt, and what is summarised of the older part, comes a question: so
\* there is one to cut at.
Opens(ms) ==
    /\ ms # <<>> /\ ms[1] = Chat!System
    /\ Len(ms) >= 2 => ms[2] = Chat!User \/ (ms[2] = Chat!Summary /\ Len(ms) >= 3 /\ ms[3] = Chat!User)

\* Calls are left exactly while they are run.
PhaseInv ==
    /\ v2 = "tools" => v3 # <<>> /\ v1[Len(v1)].role \in {"tool", "assistant"}
    /\ v2 # "tools" => v3 = <<>>
    /\ v2 = "request" => v1[Len(v1)].role \in {"user", "tool"}

ChatInv ==
    /\ Chat!TypeOK
    /\ Owed(v1, v3) /\ Follows(v1) /\ Opens(v1)
    /\ PhaseInv
    /\ Chat!PartialNeverRuns

\* The five kinds of message.
LEMMA ChatMessages ==
    /\ Chat!System \in Chat!Messages /\ Chat!System.role = "system"
    /\ Chat!Summary \in Chat!Messages /\ Chat!Summary.role = "summary"
    /\ Chat!User \in Chat!Messages /\ Chat!User.role = "user"
    /\ \A c \in Seq(Nat) : /\ Chat!Assistant(c) \in Chat!Messages
                           /\ Chat!Assistant(c).role = "assistant" /\ Chat!Assistant(c).calls = c
    /\ \A id \in Nat : Chat!Tool(id) \in Chat!Messages /\ Chat!Tool(id).role = "tool"
    /\ \A m \in Chat!Messages : m.role = "assistant" => m.calls \in Seq(Nat)
    /\ \A m \in Chat!Messages : m.role = "user" => m = Chat!User
<1>1. /\ Chat!System \in Chat!Messages /\ Chat!System.role = "system"
      /\ Chat!Summary \in Chat!Messages /\ Chat!Summary.role = "summary"
      /\ Chat!User \in Chat!Messages /\ Chat!User.role = "user"
    BY DEF Chat!Messages, Chat!System, Chat!Summary, Chat!User
<1>2. ASSUME NEW c \in Seq(Nat)
      PROVE  /\ Chat!Assistant(c) \in Chat!Messages
             /\ Chat!Assistant(c).role = "assistant" /\ Chat!Assistant(c).calls = c
    BY DEF Chat!Messages, Chat!Assistant
<1>3. ASSUME NEW id \in Nat
      PROVE  Chat!Tool(id) \in Chat!Messages /\ Chat!Tool(id).role = "tool"
    BY DEF Chat!Messages, Chat!Tool
<1>4. ASSUME NEW m \in Chat!Messages, m.role = "assistant" PROVE m.calls \in Seq(Nat)
    BY <1>4 DEF Chat!Messages
<1>5. ASSUME NEW m \in Chat!Messages, m.role = "user" PROVE m = Chat!User
    BY <1>5 DEF Chat!Messages, Chat!User
<1>. QED  BY <1>1, <1>2, <1>3, <1>4, <1>5

\* A message at the end.
LEMMA Longer ==
    ASSUME NEW ms \in Seq(Chat!Messages), NEW m \in Chat!Messages
    PROVE  /\ Append(ms, m) \in Seq(Chat!Messages) /\ Append(ms, m) # <<>>
           /\ Len(Append(ms, m)) = Len(ms) + 1 /\ Append(ms, m)[Len(ms) + 1] = m
           /\ \A i \in 1 .. Len(ms) : Append(ms, m)[i] = ms[i] /\ ms[i] \in Chat!Messages
           /\ Len(ms) \in Nat
    OBVIOUS

\* It does not come between a message and its answers.
LEMMA OpensLonger ==
    ASSUME NEW ms \in Seq(Chat!Messages), NEW m \in Chat!Messages, Opens(ms),
           Len(ms) >= 2 \/ m = Chat!User
    PROVE  Opens(Append(ms, m))
<1>1. Len(ms) \in Nat /\ Len(ms) >= 1
    BY DEF Opens
<1>. QED  BY <1>1, Longer DEF Opens

LEMMA FollowsLonger ==
    ASSUME NEW ms \in Seq(Chat!Messages), NEW m \in Chat!Messages, Follows(ms), ms # <<>>,
           m.role # "tool" \/ ms[Len(ms)].role \in {"tool", "assistant"}
    PROVE  Follows(Append(ms, m))
<1>. DEFINE n == Len(ms)  more == Append(ms, m)
<1>1. /\ n \in Nat /\ n >= 1 /\ Len(more) = n + 1 /\ more[n + 1] = m
      /\ \A i \in 1 .. n : more[i] = ms[i]
    BY Longer
<1>. HIDE DEF n, more
<1>2. ASSUME NEW i \in 1 .. n + 1, more[i].role = "tool"
      PROVE  i >= 2 /\ more[i - 1].role \in {"tool", "assistant"}
    <2>1. CASE i \in 1 .. n
        <3>1. i >= 2 /\ ms[i - 1].role \in {"tool", "assistant"}
            BY <1>1, <1>2, <2>1 DEF Follows, n
        <3>2. i - 1 \in 1 .. n
            BY <1>1, <2>1, <3>1
        <3>. QED  BY <1>1, <3>1, <3>2
    <2>2. CASE i = n + 1
        <3>1. ms[n].role \in {"tool", "assistant"} /\ n \in 1 .. n /\ i - 1 = n /\ i >= 2
            BY <1>1, <1>2, <2>2 DEF n
        <3>. QED  BY <1>1, <3>1
    <2>. QED  BY <1>1, <2>1, <2>2
<1>. QED  BY <1>1, <1>2 DEF Follows, more

\* Nothing is owed: a question, or a message with calls that are now to be run.
LEMMA OwedLonger ==
    ASSUME NEW ms \in Seq(Chat!Messages), NEW m \in Chat!Messages, NEW calls \in Seq(Nat),
           Owed(ms, <<>>), m.role = "assistant" => m.calls = calls
    PROVE  Owed(Append(ms, m), calls)
<1>. DEFINE n == Len(ms)  more == Append(ms, m)
<1>1. /\ n \in Nat /\ Len(more) = n + 1 /\ more[n + 1] = m
      /\ \A i \in 1 .. n : more[i] = ms[i]
    BY Longer
<1>2. Len(calls) \in Nat /\ Len(<<>>) = 0
    OBVIOUS
<1>. HIDE DEF n, more
<1>3. ASSUME NEW i \in 1 .. n + 1, more[i].role = "assistant", NEW k \in 1 .. Len(more[i].calls)
      PROVE  \/ i + k <= n + 1 /\ more[i + k] = Chat!Tool(more[i].calls[k])
             \/ /\ i + k > n + 1 /\ i + k - (n + 1) <= Len(calls)
                /\ calls[i + k - (n + 1)] = more[i].calls[k]
    <2>1. CASE i \in 1 .. n
        <3>1. more[i] = ms[i] /\ ms[i] \in Chat!Messages /\ ms[i].role = "assistant"
            BY <1>1, <1>3, <2>1, Longer DEF n
        <3>2. Len(ms[i].calls) \in Nat /\ k \in 1 .. Len(ms[i].calls) /\ k \in Nat \ {0}
            BY <1>3, <3>1, ChatMessages
        <3>3. \/ i + k <= n /\ ms[i + k] = Chat!Tool(ms[i].calls[k])
              \/ i + k > n /\ i + k - n <= 0
            BY <1>2, <2>1, <3>1, <3>2 DEF Owed, n
        <3>4. i + k <= n /\ ms[i + k] = Chat!Tool(ms[i].calls[k]) /\ i + k \in 1 .. n
            BY ONLY <1>1, <2>1, <3>2, <3>3
        <3>. QED  BY ONLY <1>1, <3>1, <3>2, <3>4, <2>1
    <2>2. CASE i = n + 1
        <3>1. more[i].calls = calls /\ k \in Nat \ {0} /\ k <= Len(calls)
            BY <1>1, <1>2, <1>3, <2>2
        <3>2. i + k > n + 1 /\ i + k - (n + 1) = k
            BY ONLY <1>1, <2>2, <3>1
        <3>. QED  BY ONLY <3>1, <3>2
    <2>. QED  BY <1>1, <2>1, <2>2
<1>. QED  BY <1>1, <1>3 DEF Owed, more

\* The next call is answered.
LEMMA OwedAnswered ==
    ASSUME NEW ms \in Seq(Chat!Messages), NEW todo \in Seq(Nat), todo # <<>>, Owed(ms, todo)
    PROVE  Owed(Append(ms, Chat!Tool(Head(todo))), Tail(todo))
<1>. DEFINE n == Len(ms)  m == Chat!Tool(Head(todo))  more == Append(ms, m)
<1>0. Head(todo) \in Nat /\ m \in Chat!Messages /\ m.role = "tool"
    BY ChatMessages
<1>1. /\ n \in Nat /\ Len(more) = n + 1 /\ more[n + 1] = m
      /\ \A i \in 1 .. n : more[i] = ms[i]
    BY <1>0, Longer
<1>2. /\ Len(todo) \in Nat /\ Len(Tail(todo)) = Len(todo) - 1
      /\ \A j \in 1 .. Len(todo) - 1 : Tail(todo)[j] = todo[j + 1]
      /\ Head(todo) = todo[1]
    OBVIOUS
<1>. HIDE DEF n, more
<1>3. ASSUME NEW i \in 1 .. n + 1, more[i].role = "assistant", NEW k \in 1 .. Len(more[i].calls)
      PROVE  \/ i + k <= n + 1 /\ more[i + k] = Chat!Tool(more[i].calls[k])
             \/ /\ i + k > n + 1 /\ i + k - (n + 1) <= Len(Tail(todo))
                /\ Tail(todo)[i + k - (n + 1)] = more[i].calls[k]
    <2>0. i \in 1 .. n
        BY <1>0, <1>1, <1>3
    <2>1. more[i] = ms[i] /\ ms[i] \in Chat!Messages /\ ms[i].role = "assistant"
        BY <1>1, <1>3, <2>0, Longer DEF n
    <2>2. Len(ms[i].calls) \in Nat /\ k \in 1 .. Len(ms[i].calls) /\ k \in Nat \ {0}
        BY <1>3, <2>1, ChatMessages
    <2>3. \/ i + k <= n /\ ms[i + k] = Chat!Tool(ms[i].calls[k])
          \/ i + k > n /\ i + k - n <= Len(todo) /\ todo[i + k - n] = ms[i].calls[k]
        BY <2>0, <2>1, <2>2 DEF Owed, n
    <2>4. CASE i + k <= n /\ ms[i + k] = Chat!Tool(ms[i].calls[k])
        <3>1. i + k \in 1 .. n
            BY ONLY <1>1, <2>0, <2>2, <2>4
        <3>. QED  BY ONLY <1>1, <2>0, <2>1, <2>2, <2>4, <3>1
    <2>5. CASE i + k = n + 1 /\ todo[i + k - n] = ms[i].calls[k]
        <3>1. i + k - n = 1
            BY ONLY <1>1, <2>0, <2>2, <2>5
        <3>2. more[i + k] = Chat!Tool(more[i].calls[k])
            BY ONLY <1>1, <1>2, <2>1, <2>5, <3>1 DEF m
        <3>. QED  BY ONLY <1>1, <2>0, <2>2, <2>5, <3>2
    <2>6. CASE i + k > n + 1 /\ i + k - n <= Len(todo) /\ todo[i + k - n] = ms[i].calls[k]
        <3>. DEFINE j == i + k - (n + 1)
        <3>1. j \in 1 .. Len(todo) - 1 /\ j + 1 = i + k - n
            BY ONLY <1>1, <1>2, <2>0, <2>2, <2>6
        <3>. HIDE DEF j
        <3>2. Tail(todo)[j] = ms[i].calls[k] /\ j <= Len(Tail(todo))
            BY ONLY <1>2, <2>6, <3>1
        <3>. QED  BY ONLY <2>1, <2>6, <3>2 DEF j
    <2>. QED  BY ONLY <1>1, <2>0, <2>2, <2>3, <2>4, <2>5, <2>6
<1>. QED  BY <1>1, <1>3 DEF Owed, more, m

\* A long conversation has a question to cut at.
LEMMA CutAtQuestion ==
    ASSUME NEW ms \in Seq(Chat!Messages), Opens(ms), Len(ms) > KeepRecent + 2
    PROVE  LET s == Chat!find_safe_split(ms)
           IN  s \in 1 .. Len(ms) - KeepRecent /\ ms[s + 1] = Chat!User
<1>. DEFINE n == Len(ms)  desired == n - KeepRecent
            users == {i \in 1 .. desired : ms[i + 1].role = "user"}
<1>1. n \in Nat /\ KeepRecent \in Nat \ {0} /\ desired \in Nat /\ desired >= 3
    BY ChatAssumption
<1>2. users \subseteq 1 .. desired /\ users # {}
    <2>1. ms[2] = Chat!User \/ ms[3] = Chat!User
        BY <1>1 DEF Opens
    <2>2. Chat!User.role = "user"
        BY ChatMessages
    <2>3. 1 \in users \/ 2 \in users
        <3>1. 1 \in 1 .. desired /\ 2 \in 1 .. desired /\ 1 + 1 = 2 /\ 2 + 1 = 3
            BY ONLY <1>1
        <3>. QED  BY <2>1, <2>2, <3>1
    <2>. QED  BY <2>3
<1>3. Max(users) \in users
    BY <1>1, <1>2, MaxOfNumbers
<1>4. ASSUME NEW i \in users PROVE i \in 1 .. desired /\ ms[i + 1] = Chat!User
    <2>1. i \in 1 .. desired /\ ms[i + 1].role = "user"
        BY <1>4
    <2>2. i + 1 \in 1 .. n
        BY <1>1, <2>1
    <2>3. ms[i + 1] \in Chat!Messages
        BY <2>2
    <2>. QED  BY <2>1, <2>3, ChatMessages
<1>5. Chat!find_safe_split(ms) = Max(users)
    <2>1. ~(n <= KeepRecent + 1)
        BY <1>1
    <2>2. Chat!find_safe_split(ms) =
            IF n <= KeepRecent + 1 THEN 1 ELSE IF users # {} THEN Max(users) ELSE desired
        <3>1. Chat!Max(users) = Max(users)
            BY DEF Chat!Max, Max
        <3>2. Chat!find_safe_split(ms) =
                IF n <= KeepRecent + 1 THEN 1 ELSE IF users # {} THEN Chat!Max(users) ELSE desired
            BY Zenon DEF Chat!find_safe_split
        <3>. QED  BY ONLY <3>1, <3>2
    <2>. QED  BY ONLY <1>2, <2>1, <2>2
<1>. QED  BY ONLY <1>3, <1>4, <1>5

\* What compaction leaves.
LEMMA Cut ==
    ASSUME NEW ms \in Seq(Chat!Messages), NEW s \in Nat, s >= 1, s < Len(ms)
    PROVE  LET c == Chat!Compacted(ms, s) IN
           /\ c \in Seq(Chat!Messages) /\ Len(c) = Len(ms) - s + 2
           /\ c[1] = ms[1] /\ c[2] = Chat!Summary
           /\ \A j \in 3 .. Len(c) : c[j] = ms[j - 2 + s]
<1>. DEFINE head == <<ms[1], Chat!Summary>>  tail == SubSeq(ms, s + 1, Len(ms))
<1>1. Len(ms) \in Nat /\ ms[1] \in Chat!Messages /\ Chat!Summary \in Chat!Messages
    BY ChatMessages
<1>2. head \in Seq(Chat!Messages) /\ Len(head) = 2 /\ head[1] = ms[1] /\ head[2] = Chat!Summary
    BY <1>1
<1>3. /\ tail \in Seq(Chat!Messages) /\ Len(tail) = Len(ms) - s
      /\ \A j \in 1 .. Len(ms) - s : tail[j] = ms[s + j]
    BY <1>1, SubSeqProperties
<1>. HIDE DEF head, tail
<1>4. /\ head \o tail \in Seq(Chat!Messages) /\ Len(head \o tail) = Len(ms) - s + 2
      /\ \A j \in 1 .. 2 : (head \o tail)[j] = head[j]
      /\ \A j \in 3 .. Len(ms) - s + 2 : (head \o tail)[j] = tail[j - 2]
    <2>1. /\ head \o tail \in Seq(Chat!Messages) /\ Len(head \o tail) = Len(head) + Len(tail)
          /\ \A j \in 1 .. Len(head) + Len(tail) :
                (head \o tail)[j] = IF j <= Len(head) THEN head[j] ELSE tail[j - Len(head)]
        BY ONLY <1>2, <1>3, ConcatProperties
    <2>. QED  BY <1>1, <1>2, <1>3, <2>1
<1>5. ASSUME NEW j \in 3 .. Len(ms) - s + 2 PROVE (head \o tail)[j] = ms[j - 2 + s]
    <2>1. j - 2 \in 1 .. Len(ms) - s /\ s + (j - 2) = j - 2 + s
        BY <1>1, <1>5
    <2>. QED  BY <1>3, <1>4, <2>1
<1>. QED  BY <1>2, <1>4, <1>5 DEF Chat!Compacted, head, tail


\* The last k members of a sequence.
LEMMA EndOf ==
    ASSUME NEW S, NEW r \in Seq(S), NEW k \in Nat, k <= Len(r)
    PROVE  /\ SubSeq(r, Len(r) - k + 1, Len(r)) \in Seq(S)
           /\ Len(SubSeq(r, Len(r) - k + 1, Len(r))) = k
           /\ \A i \in 1 .. k :
                 SubSeq(r, Len(r) - k + 1, Len(r))[i] = r[Len(r) - k + 1 + i - 1]
<1>. DEFINE n == Len(r)  m == n - k + 1
<1>1. n \in Nat /\ m \in Int /\ n \in Int /\ m >= 1 /\ n - m + 1 = k /\ (m > n => k = 0)
    OBVIOUS
<1>2. \A i \in m .. n : r[i] \in S
    BY <1>1
<1>. HIDE DEF m
<1>3. /\ SubSeq(r, m, n) \in Seq(S)
      /\ Len(SubSeq(r, m, n)) = IF m <= n THEN n - m + 1 ELSE 0
      /\ \A i \in 1 .. n - m + 1 : SubSeq(r, m, n)[i] = r[m + i - 1]
    BY <1>1, <1>2, SubSeqProperties
<1>4. Len(SubSeq(r, m, n)) = k
    BY <1>1, <1>3
<1>5. \A i \in 1 .. k : SubSeq(r, m, n)[i] = r[m + i - 1]
    BY ONLY <1>1, <1>3
<1>. QED  BY ONLY <1>3, <1>4, <1>5 DEF m

\* Sequences that agree in their last k members end alike.
LEMMA SameEnds ==
    ASSUME NEW S, NEW s \in Seq(S), NEW t \in Seq(S), NEW k \in Nat,
           k <= Len(s), k <= Len(t),
           \A i \in 1 .. k : s[Len(s) - k + 1 + i - 1] = t[Len(t) - k + 1 + i - 1]
    PROVE  SubSeq(s, Len(s) - k + 1, Len(s)) = SubSeq(t, Len(t) - k + 1, Len(t))
<1>. DEFINE x == SubSeq(s, Len(s) - k + 1, Len(s))  y == SubSeq(t, Len(t) - k + 1, Len(t))
<1>1. /\ x \in Seq(S) /\ Len(x) = k
      /\ \A i \in 1 .. k : x[i] = s[Len(s) - k + 1 + i - 1]
    BY EndOf
<1>2. /\ y \in Seq(S) /\ Len(y) = k
      /\ \A i \in 1 .. k : y[i] = t[Len(t) - k + 1 + i - 1]
    BY EndOf
<1>3. \A i \in 1 .. k : x[i] = y[i]
    <2>. HIDE DEF x, y
    <2>. QED  BY <1>1, <1>2
<1>. HIDE DEF x, y
<1>4. x = y
    BY <1>1, <1>2, <1>3, SeqEqual
<1>. QED  BY <1>4 DEF x, y

\* What was owed nothing still is, and begins as a conversation does.
LEMMA CompactedWell ==
    ASSUME NEW ms \in Seq(Chat!Messages), Opens(ms), Owed(ms, <<>>), Follows(ms),
           Len(ms) > KeepRecent + 2, ms[Len(ms)] = Chat!User
    PROVE  LET c == Chat!Compacted(ms, Chat!find_safe_split(ms)) IN
           /\ c \in Seq(Chat!Messages) /\ c[Len(c)] = Chat!User
           /\ Opens(c) /\ Owed(c, <<>>) /\ Follows(c)
           /\ Chat!KeepsNewest(ms, c)
<1>. DEFINE n == Len(ms)  s == Chat!find_safe_split(ms)  c == Chat!Compacted(ms, s)
<1>1. /\ n \in Nat /\ KeepRecent \in Nat \ {0} /\ n > KeepRecent + 2 /\ s \in 1 .. n - KeepRecent
      /\ ms[s + 1] = Chat!User /\ ms[1] = Chat!System /\ ms[n] = Chat!User
    BY ChatAssumption, CutAtQuestion DEF Opens
<1>. HIDE DEF s
<1>2. s \in Nat /\ s >= 1 /\ s < n
    BY ONLY <1>1
<1>3. /\ c \in Seq(Chat!Messages) /\ Len(c) = n - s + 2
      /\ c[1] = ms[1] /\ c[2] = Chat!Summary
      /\ \A j \in 3 .. Len(c) : c[j] = ms[j - 2 + s]
    BY <1>2, Cut
<1>. HIDE DEF c, n
<1>4. Len(c) \in Nat /\ Len(c) >= 3 /\ c[3] = Chat!User /\ c[Len(c)] = Chat!User
    <2>1. /\ Len(c) \in Nat /\ Len(c) >= 3 /\ 3 \in 3 .. Len(c) /\ Len(c) \in 3 .. Len(c)
          /\ 3 - 2 + s = s + 1 /\ Len(c) - 2 + s = n
        BY ONLY <1>1, <1>2, <1>3
    <2>. QED  BY ONLY <1>1, <1>3, <2>1
<1>5. Opens(c)
    BY <1>1, <1>3, <1>4 DEF Opens
<1>6. ASSUME NEW j \in 1 .. Len(c), c[j].role \in {"tool", "assistant"}
      PROVE  j \in 4 .. Len(c) /\ c[j] = ms[j - 2 + s] /\ j - 2 + s \in 1 .. n
    <2>1. j # 1 /\ j # 2 /\ j # 3
        BY <1>1, <1>3, <1>4, <1>6, ChatMessages
    <2>2. j \in 4 .. Len(c) /\ j \in 3 .. Len(c) /\ j - 2 + s \in 1 .. n
        BY ONLY <1>1, <1>2, <1>3, <1>4, <2>1, <1>6
    <2>. QED  BY ONLY <1>3, <2>2
<1>7. Follows(c)
    <2>1. ASSUME NEW j \in 1 .. Len(c), c[j].role = "tool"
          PROVE  j >= 2 /\ c[j - 1].role \in {"tool", "assistant"}
        <3>1. j \in 4 .. Len(c) /\ c[j] = ms[j - 2 + s] /\ j - 2 + s \in 1 .. n
            BY <1>6, <2>1
        <3>. DEFINE i == j - 2 + s
        <3>2. i \in 1 .. n /\ ms[i].role = "tool"
            BY <2>1, <3>1
        <3>. HIDE DEF i
        <3>5. ms[i - 1].role \in {"tool", "assistant"}
            BY <3>2 DEF Follows, n
        <3>3. j - 1 \in 3 .. Len(c) /\ j - 1 - 2 + s = i - 1 /\ j >= 2
            BY ONLY <1>2, <1>4, <3>1 DEF i
        <3>4. c[j - 1] = ms[i - 1]
            BY ONLY <1>3, <3>3
        <3>. QED  BY ONLY <3>5, <3>3, <3>4
    <2>. QED  BY <2>1 DEF Follows
<1>8. Owed(c, <<>>)
    <2>1. ASSUME NEW j \in 1 .. Len(c), c[j].role = "assistant", NEW k \in 1 .. Len(c[j].calls)
          PROVE  j + k <= Len(c) /\ c[j + k] = Chat!Tool(c[j].calls[k])
        <3>1. j \in 4 .. Len(c) /\ c[j] = ms[j - 2 + s] /\ j - 2 + s \in 1 .. n
            BY <1>6, <2>1
        <3>. DEFINE i == j - 2 + s
        <3>. HIDE DEF i
        <3>2. i \in 1 .. n /\ c[j] = ms[i] /\ ms[i].role = "assistant" /\ ms[i] \in Chat!Messages
            BY <2>1, <3>1 DEF i, n
        <3>3. Len(ms[i].calls) \in Nat /\ k \in 1 .. Len(ms[i].calls) /\ k \in Nat \ {0}
            BY <2>1, <3>2, ChatMessages
        <3>4. \/ i + k <= n /\ ms[i + k] = Chat!Tool(ms[i].calls[k])
              \/ i + k > n /\ i + k - n <= Len(<<>>)
            BY <3>2, <3>3 DEF Owed, n
        <3>5. Len(<<>>) = 0
            OBVIOUS
        <3>6. i + k <= n /\ ms[i + k] = Chat!Tool(ms[i].calls[k])
            BY ONLY <1>1, <3>2, <3>3, <3>4, <3>5
        <3>7. j + k \in 3 .. Len(c) /\ j + k - 2 + s = i + k
            BY ONLY <1>2, <1>3, <1>1, <3>1, <3>3, <3>6 DEF i
        <3>8. c[j + k] = ms[i + k]
            BY ONLY <1>3, <3>7
        <3>. QED  BY ONLY <3>2, <3>6, <3>7, <3>8
    <2>. QED  BY <2>1 DEF Owed
<1>9. Chat!KeepsNewest(ms, c)
    <2>. DEFINE K == KeepRecent  lc == Len(c)
    <2>1. /\ lc \in Nat /\ n > K /\ lc >= K /\ K \in Nat /\ lc - K + 1 \in 3 .. lc
          /\ n - K + 1 \in 1 .. n /\ lc - (lc - K + 1) + 1 = K /\ n - (n - K + 1) + 1 = K
          /\ lc = n - s + 2
        BY ONLY <1>1, <1>2, <1>3, <1>4
    <2>2. ASSUME NEW i \in 1 .. K PROVE c[lc - K + 1 + i - 1] = ms[n - K + 1 + i - 1]
        <3>. DEFINE j == lc - K + 1 + i - 1
        <3>1. j \in 3 .. Len(c) /\ j - 2 + s = n - K + 1 + i - 1
            BY ONLY <1>1, <1>2, <1>3, <2>1, <2>2
        <3>. HIDE DEF j
        <3>2. c[j] = ms[n - K + 1 + i - 1]
            BY ONLY <1>3, <3>1
        <3>. QED  BY ONLY <3>2 DEF j
    <2>3. SubSeq(c, lc - K + 1, lc) = SubSeq(ms, n - K + 1, n)
        <3>1. K <= lc /\ K <= Len(ms) /\ K \in Nat
            BY <2>1 DEF n
        <3>2. \A i \in 1 .. K : c[Len(c) - K + 1 + i - 1] = ms[Len(ms) - K + 1 + i - 1]
            BY ONLY <2>2 DEF n
        <3>3. SubSeq(c, Len(c) - K + 1, Len(c)) = SubSeq(ms, Len(ms) - K + 1, Len(ms))
            <4>. HIDE DEF K
            <4>. QED  BY <1>3, <3>1, <3>2, SameEnds
        <3>. QED  BY <3>3 DEF n
    <2>5. Chat!Newest(c, K) = Chat!Newest(ms, K)
        BY <2>3 DEF Chat!Newest, n
    <2>. QED  BY <2>1, <2>5 DEF Chat!KeepsNewest, n
<1>. QED  BY <1>3, <1>4, <1>5, <1>7, <1>8, <1>9 DEF c, s


\* What the invariant says of the last message.
LEMMA LastMessage ==
    ASSUME ChatInv
    PROVE  /\ v1 \in Seq(Chat!Messages) /\ v1 # <<>> /\ Len(v1) \in Nat
           /\ v2 = "request" => Len(v1) >= 2 /\ v3 = <<>>
           /\ v2 = "tools" => Len(v1) >= 2 /\ v3 \in Seq(Nat) /\ v3 # <<>>
<1>1. v1 \in Seq(Chat!Messages) /\ v1 # <<>> /\ Len(v1) \in Nat /\ v3 \in Seq(Nat)
    <2>1. v3 \in Seq(1 .. v7) /\ 1 .. v7 \subseteq Nat
        BY DEF ChatInv, Chat!TypeOK
    <2>2. v3 \in Seq(Nat)
        BY <2>1, SeqMonotonic
    <2>. QED  BY <2>2 DEF ChatInv, Chat!TypeOK, Opens
<1>2. Len(v1) = 1 => v1[Len(v1)].role = "system"
    BY ChatMessages DEF ChatInv, Opens
<1>3. v2 \in {"request", "tools"} => Len(v1) # 1
    BY <1>2 DEF ChatInv, PhaseInv
<1>4. Len(v1) # 0
    BY <1>1
<1>5. /\ v2 = "request" => v3 = <<>> /\ Len(v1) # 1
      /\ v2 = "tools" => v3 # <<>> /\ Len(v1) # 1
    BY <1>3 DEF ChatInv, PhaseInv
<1>6. Len(v1) # 1 => Len(v1) >= 2
    <2>. DEFINE n == Len(v1)
    <2>1. n \in Nat /\ n # 0
        BY <1>1, <1>4
    <2>. HIDE DEF n
    <2>2. n # 1 => n >= 2
        BY ONLY <2>1
    <2>. QED  BY <2>2 DEF n
<1>7. v2 = "request" => Len(v1) >= 2 /\ v3 = <<>>
    BY ONLY <1>5, <1>6, Zenon
<1>8. v2 = "tools" => Len(v1) >= 2 /\ v3 \in Seq(Nat) /\ v3 # <<>>
    BY ONLY <1>1, <1>5, <1>6, Zenon
<1>. QED  BY <1>1, <1>7, <1>8, Zenon

\* A question asked, and perhaps a compaction.
LEMMA ChatAsk ==
    ASSUME ChatInv, Chat!Ask
    PROVE  ChatInv' /\ Chat!KeepsNewest(Append(v1, Chat!User), v1')
<1>. DEFINE asked == Append(v1, Chat!User)
            Well(c) == /\ c \in Seq(Chat!Messages) /\ c[Len(c)] = Chat!User
                       /\ Opens(c) /\ Owed(c, <<>>) /\ Follows(c)
                       /\ Chat!KeepsNewest(asked, c)
<1>1. /\ v1 \in Seq(Chat!Messages) /\ v1 # <<>> /\ v3 = <<>>
      /\ Owed(v1, <<>>) /\ Follows(v1) /\ Opens(v1)
    BY LastMessage DEF Chat!Ask, ChatInv, PhaseInv
<1>2. Chat!User \in Chat!Messages /\ Chat!User.role = "user"
    BY ChatMessages
<1>3. /\ asked \in Seq(Chat!Messages) /\ asked[Len(asked)] = Chat!User
      /\ Opens(asked) /\ Owed(asked, <<>>) /\ Follows(asked)
    <2>1. asked \in Seq(Chat!Messages) /\ asked[Len(asked)] = Chat!User
        BY <1>1, <1>2, Longer
    <2>2. Opens(asked)
        BY <1>1, <1>2, OpensLonger
    <2>3. Follows(asked)
        BY <1>1, <1>2, FollowsLonger
    <2>4. Owed(asked, <<>>)
        <3>1. <<>> \in Seq(Nat) /\ Chat!User.role # "assistant"
            BY <1>2
        <3>. QED  BY <1>1, <1>2, <3>1, OwedLonger
    <2>. QED  BY <2>1, <2>2, <2>3, <2>4
<1>4. Chat!KeepsNewest(asked, asked)
    BY <1>3, ChatAssumption DEF Chat!KeepsNewest
<1>. HIDE DEF asked
<1>5. Len(asked) > KeepRecent + 2 =>
        Well(Chat!Compacted(asked, Chat!find_safe_split(asked)))
    BY <1>3, CompactedWell
<1>6. /\ Well(v1') /\ v2' = "request" /\ v3' = v3 /\ v4' = 0 /\ v5' = {} /\ v6' = {}
      /\ v7' = v7 /\ v8' = v8 + 1 /\ v8 < MaxTurns
    <2>1. \/ v1' = asked
          \/ /\ Len(asked) > KeepRecent + 2
             /\ v1' = Chat!Compacted(asked, Chat!find_safe_split(asked))
        BY DEF Chat!Ask, asked
    <2>2. Well(v1')
        <3>. HIDE DEF Well
        <3>1. Well(asked)
            BY <1>3, <1>4 DEF Well
        <3>. QED  BY <1>5, <2>1, <3>1
    <2>. QED  BY <2>2 DEF Chat!Ask
<1>7. Chat!TypeOK'
    BY <1>1, <1>6, ChatAssumption DEF ChatInv, Chat!TypeOK
<1>8. (Owed(v1, v3) /\ Follows(v1) /\ Opens(v1))'
    BY <1>1, <1>6
<1>9. PhaseInv' /\ Chat!PartialNeverRuns'
    BY <1>1, <1>2, <1>6 DEF PhaseInv, Chat!PartialNeverRuns
<1>. QED  BY <1>6, <1>7, <1>8, <1>9 DEF ChatInv, asked

\* An answer with new calls, or without.
LEMMA ChatAnswer ==
    ASSUME ChatInv, Chat!Answer
    PROVE  ChatInv'
<1>1. /\ v1 \in Seq(Chat!Messages) /\ v1 # <<>> /\ v3 = <<>> /\ Len(v1) >= 2
      /\ Owed(v1, <<>>) /\ Follows(v1) /\ Opens(v1) /\ v7 \in Nat /\ v4 \in Nat
      /\ v2 = "request"
    BY LastMessage DEF Chat!Answer, ChatInv, PhaseInv, Chat!TypeOK
<1>2. PICK text \in BOOLEAN, n \in 0 .. MaxCalls, cut \in BOOLEAN :
        LET calls == [i \in 1 .. n |-> v7 + i]
        IN  /\ v1' = IF text \/ n > 0 THEN Append(v1, Chat!Assistant(calls)) ELSE v1
            /\ v6' = IF cut /\ n > 0 THEN v6 \cup {v7 + n} ELSE v6
            /\ IF n = 0 THEN v2' = "prompt" /\ v3' = v3 /\ v5' = v5
               ELSE v2' = "tools" /\ v3' = calls /\ v5' = v5
            /\ v7' = v7 + n
    BY Zenon DEF Chat!Answer, Chat!Ends
<1>3. v4 < MaxSteps /\ v4' = v4 + 1 /\ v8' = v8
    BY DEF Chat!Answer
<1>. DEFINE calls == [i \in 1 .. n |-> v7 + i]  m == Chat!Assistant(calls)
<1>4. n \in Nat /\ MaxCalls \in Nat /\ MaxSteps \in Nat
    BY ChatAssumption
<1>5. /\ calls \in Seq(Nat) /\ Len(calls) = n /\ (n = 0 => calls = <<>>)
      /\ calls \in Seq(1 .. v7 + n)
    BY <1>1, <1>4
<1>. HIDE DEF calls
<1>6. m \in Chat!Messages /\ m.role = "assistant" /\ m.calls = calls
    BY <1>5, ChatMessages
<1>. HIDE DEF m
<1>7. /\ Append(v1, m) \in Seq(Chat!Messages) /\ Append(v1, m)[Len(Append(v1, m))] = m
      /\ Append(v1, m) # <<>>
      /\ Opens(Append(v1, m)) /\ Owed(Append(v1, m), calls) /\ Follows(Append(v1, m))
    <2>1. /\ Append(v1, m) \in Seq(Chat!Messages) /\ Append(v1, m)[Len(Append(v1, m))] = m
          /\ Append(v1, m) # <<>>
        BY <1>1, <1>6, Longer
    <2>2. Opens(Append(v1, m))
        BY <1>1, <1>6, OpensLonger
    <2>3. Follows(Append(v1, m))
        <3>1. m.role # "tool"
            BY <1>6
        <3>. QED  BY <1>1, <1>6, <3>1, FollowsLonger
    <2>4. Owed(Append(v1, m), calls)
        BY <1>1, <1>5, <1>6, OwedLonger
    <2>. QED  BY <2>1, <2>2, <2>3, <2>4
<1>8. /\ v1' = IF text \/ n > 0 THEN Append(v1, m) ELSE v1
      /\ v6' = IF cut /\ n > 0 THEN v6 \cup {v7 + n} ELSE v6
      /\ n = 0 => v2' = "prompt" /\ v3' = v3
      /\ n # 0 => v2' = "tools" /\ v3' = calls
      /\ v5' = v5 /\ v7' = v7 + n
    BY <1>2 DEF calls, m
<1>9. Chat!TypeOK' /\ Chat!PartialNeverRuns'
    <2>1. v5 \subseteq 1 .. v7 /\ v6 \subseteq 1 .. v7 /\ v5 \cap v6 = {}
        BY DEF ChatInv, Chat!TypeOK, Chat!PartialNeverRuns
    <2>2. v7' \in Nat /\ v5' \subseteq 1 .. v7' /\ v6' \subseteq 1 .. v7'
        BY ONLY <1>1, <1>4, <1>8, <2>1
    <2>3. v5' \cap v6' = {}
        <3>1. n > 0 => v7 + n \notin v5
            BY <1>1, <1>4, <2>1
        <3>. QED  BY ONLY <1>8, <2>1, <3>1
    <2>4. v1' \in Seq(Chat!Messages) /\ v3' \in Seq(1 .. v7') /\ v2' \in {"prompt", "request", "tools"}
        <3>1. v7' = v7 + n /\ <<>> \in Seq(1 .. v7')
            BY <1>8
        <3>2. n = 0 \/ n > 0
            BY <1>4
        <3>. QED  BY <1>1, <1>5, <1>7, <1>8, <3>1, <3>2
    <2>5. v4' \in 0 .. MaxSteps /\ v8' \in 0 .. MaxTurns
        BY <1>1, <1>3, <1>4 DEF ChatInv, Chat!TypeOK
    <2>. QED  BY <2>2, <2>3, <2>4, <2>5 DEF Chat!TypeOK, Chat!PartialNeverRuns
<1>10. (Owed(v1, v3) /\ Follows(v1) /\ Opens(v1))'
    <2>1. CASE n = 0
        BY <1>1, <1>5, <1>7, <1>8, <2>1
    <2>2. CASE n # 0
        <3>1. v1' = Append(v1, m) /\ v3' = calls
            BY <1>4, <1>8, <2>2
        <3>. QED  BY <1>7, <3>1
    <2>. QED  BY <2>1, <2>2
<1>11. PhaseInv'
    <2>1. CASE n = 0
        BY <1>1, <1>8, <2>1 DEF PhaseInv
    <2>2. CASE n # 0
        <3>1. v1' = Append(v1, m) /\ v3' = calls /\ v2' = "tools" /\ calls # <<>>
            BY <1>4, <1>5, <1>8, <2>2
        <3>. QED  BY <1>6, <1>7, <3>1 DEF PhaseInv
    <2>. QED  BY <2>1, <2>2
<1>. QED  BY <1>9, <1>10, <1>11 DEF ChatInv

\* A call is answered; unless its arguments were cut short it may have run.
LEMMA ChatRunTool ==
    ASSUME ChatInv, Chat!RunTool
    PROVE  ChatInv'
<1>. DEFINE id == Head(v3)  m == Chat!Tool(id)
<1>1. /\ v1 \in Seq(Chat!Messages) /\ v1 # <<>> /\ Len(v1) >= 2 /\ v3 \in Seq(Nat) /\ v3 # <<>>
      /\ Owed(v1, v3) /\ Follows(v1) /\ Opens(v1) /\ v2 = "tools"
      /\ v1[Len(v1)].role \in {"tool", "assistant"}
    BY LastMessage DEF Chat!RunTool, ChatInv, PhaseInv
<1>2. id \in Nat /\ m \in Chat!Messages /\ m.role = "tool"
    BY <1>1, ChatMessages
<1>3. /\ \E starts \in Chat!Runs(id) : v5' = IF starts THEN v5 \cup {id} ELSE v5
      /\ v1' = Append(v1, m) /\ v3' = Tail(v3)
      /\ v2' = IF Len(v3) = 1 THEN "request" ELSE "tools"
      /\ v4' = v4 /\ v6' = v6 /\ v7' = v7 /\ v8' = v8
    BY DEF Chat!RunTool
<1>4. (Len(v3) = 1 => Tail(v3) = <<>>) /\ (Len(v3) # 1 => Tail(v3) # <<>>)
    <2>1. Len(v3) \in Nat /\ Len(v3) # 0 /\ Tail(v3) \in Seq(Nat) /\ Len(Tail(v3)) = Len(v3) - 1
        BY <1>1
    <2>. DEFINE t == Tail(v3)
    <2>. HIDE DEF t
    <2>2. t \in Seq(Nat) /\ Len(t) = Len(v3) - 1
        BY <2>1 DEF t
    <2>3. (t = <<>> => Len(t) = 0) /\ (t # <<>> => Len(t) # 0)
        <3>1. \A q \in Seq(Nat) : q # <<>> => Len(q) \in Nat \ {0}
            BY EmptySeq
        <3>2. Len(<<>>) = 0
            OBVIOUS
        <3>. QED  BY ONLY <2>2, <3>1, <3>2
    <2>4. (Len(v3) = 1 => t = <<>>) /\ (Len(v3) # 1 => t # <<>>)
        BY ONLY <2>1, <2>2, <2>3
    <2>. QED  BY <2>4 DEF t
<1>5. /\ v1' \in Seq(Chat!Messages) /\ v1'[Len(v1')] = m /\ v1' # <<>>
      /\ Opens(v1') /\ Follows(v1') /\ Owed(v1', v3')
    <2>1. v1' \in Seq(Chat!Messages) /\ v1'[Len(v1')] = m /\ v1' # <<>>
        BY <1>1, <1>2, <1>3, Longer
    <2>2. Opens(v1')
        BY <1>1, <1>2, <1>3, OpensLonger
    <2>3. Follows(v1')
        BY <1>1, <1>2, <1>3, FollowsLonger
    <2>4. Owed(v1', v3')
        BY <1>1, <1>3, OwedAnswered
    <2>. QED  BY <2>1, <2>2, <2>3, <2>4
<1>6. id \in 1 .. v7 /\ Tail(v3) \in Seq(1 .. v7)
    <2>1. v3 \in Seq(1 .. v7)
        BY DEF ChatInv, Chat!TypeOK
    <2>. QED  BY <1>1, <2>1, HeadTailProperties
<1>7. Chat!TypeOK' /\ Chat!PartialNeverRuns'
    <2>1. v5' = v5 \/ (id \notin v6 /\ v5' = v5 \cup {id})
        BY <1>3 DEF Chat!Runs
    <2>. HIDE DEF id, m
    <2>2. v5' \subseteq 1 .. v7 /\ v6' \subseteq 1 .. v7 /\ v5' \cap v6' = {}
        BY <1>3, <1>6, <2>1 DEF ChatInv, Chat!TypeOK, Chat!PartialNeverRuns
    <2>. QED  BY <1>3, <1>5, <1>6, <2>2 DEF ChatInv, Chat!TypeOK, Chat!PartialNeverRuns
<1>8. PhaseInv'
    <2>. HIDE DEF m
    <2>. QED  BY <1>2, <1>3, <1>4, <1>5 DEF PhaseInv
<1>. QED  BY <1>5, <1>7, <1>8 DEF ChatInv


LEMMA ChatStart == Chat!Init => ChatInv
<1>. SUFFICES ASSUME Chat!Init PROVE ChatInv
    OBVIOUS
<1>1. /\ v1 = <<Chat!System>> /\ v2 = "prompt" /\ v3 = <<>> /\ v4 = 0
      /\ v5 = {} /\ v6 = {} /\ v7 = 0 /\ v8 = 0
    BY DEF Chat!Init
<1>2. /\ v1 \in Seq(Chat!Messages) /\ Len(v1) = 1 /\ v1[1].role = "system" /\ v1 # <<>>
      /\ v1[1] = Chat!System
    BY <1>1, ChatMessages
<1>3. Chat!TypeOK
    BY <1>1, <1>2, ChatAssumption DEF Chat!TypeOK
<1>4. \A i \in 1 .. Len(v1) : v1[i].role = "system"
    BY <1>2
<1>5. Owed(v1, v3) /\ Follows(v1)
    BY <1>4 DEF Owed, Follows
<1>6. Opens(v1)
    BY <1>2 DEF Opens
<1>. QED  BY <1>1, <1>3, <1>5, <1>6 DEF ChatInv, PhaseInv, Chat!PartialNeverRuns

\* Each step keeps the invariant, and one that asks keeps the newest messages.
LEMMA ChatKeeps ==
    ASSUME ChatInv, [Chat!Next]_(Chat!vars)
    PROVE  /\ ChatInv'
           /\ v2 = "prompt" /\ v2' = "request" => Chat!KeepsNewest(Append(v1, Chat!User), v1')
<1>1. CASE Chat!Ask
    BY <1>1, ChatAsk
<1>2. CASE Chat!Answer
    <2>1. v2 # "prompt"
        BY <1>2 DEF Chat!Answer
    <2>. QED  BY <1>2, <2>1, ChatAnswer
<1>3. CASE Chat!Fails \/ Chat!StepsUsedUp
    <2>1. /\ v2 = "request" /\ v2' = "prompt" /\ v1' = v1 /\ v3' = v3 /\ v4' = v4
          /\ v5' = v5 /\ v6' = v6 /\ v7' = v7 /\ v8' = v8
        BY <1>3 DEF Chat!Fails, Chat!StepsUsedUp, Chat!Ends
    <2>. QED  BY <2>1 DEF ChatInv, PhaseInv, Chat!TypeOK, Chat!PartialNeverRuns
<1>4. CASE Chat!RunTool
    <2>1. v2 # "prompt"
        BY <1>4 DEF Chat!RunTool
    <2>. QED  BY <1>4, <2>1, ChatRunTool
<1>5. CASE UNCHANGED Chat!vars
    BY <1>5 DEF ChatInv, PhaseInv, Chat!TypeOK, Chat!PartialNeverRuns, Chat!vars
<1>. QED  BY <1>1, <1>2, <1>3, <1>4, <1>5 DEF Chat!Next

\* The invariant is what the gateway asks of a conversation.
LEMMA ChatTells == ChatInv => Chat!TypeOK /\ Chat!WellFormed /\ Chat!PartialNeverRuns
<1>. SUFFICES ASSUME ChatInv PROVE Chat!WellFormed
    BY DEF ChatInv
<1>1. /\ v1 \in Seq(Chat!Messages) /\ Owed(v1, v3) /\ Follows(v1) /\ v1[1] = Chat!System
      /\ Len(v1) \in Nat /\ DOMAIN v1 = 1 .. Len(v1) /\ v3 \in Seq(Nat) /\ Len(v3) \in Nat
    <2>1. v3 \in Seq(1 .. v7) /\ 1 .. v7 \subseteq Nat
        BY DEF ChatInv, Chat!TypeOK
    <2>2. v3 \in Seq(Nat)
        BY <2>1, SeqMonotonic
    <2>. QED  BY <2>2 DEF ChatInv, Chat!TypeOK, Opens
<1>2. ASSUME NEW i \in DOMAIN v1, v1[i].role = "assistant", NEW k \in 1 .. Len(v1[i].calls)
      PROVE  \/ i + k <= Len(v1) /\ v1[i + k] = Chat!Tool(v1[i].calls[k])
             \/ Chat!Contains(v3, v1[i].calls[k])
    <2>1. v1[i] \in Chat!Messages /\ i \in 1 .. Len(v1)
        BY <1>1, <1>2
    <2>2. Len(v1[i].calls) \in Nat /\ k \in Nat \ {0}
        BY <1>2, <2>1, ChatMessages
    <2>3. CASE /\ i + k > Len(v1) /\ i + k - Len(v1) <= Len(v3)
               /\ v3[i + k - Len(v1)] = v1[i].calls[k]
        <3>1. i + k - Len(v1) \in 1 .. Len(v3)
            BY <1>1, <2>1, <2>2, <2>3
        <3>. QED  BY <2>3, <3>1 DEF Chat!Contains
    <2>. QED  BY <1>1, <1>2, <2>1, <2>3 DEF Owed
<1>3. \A i \in DOMAIN v1 : v1[i].role = "tool" => v1[i - 1].role \in {"tool", "assistant"}
    BY <1>1 DEF Follows
<1>4. v2 = "request" => v3 = <<>> /\ v1[Len(v1)].role \in {"user", "tool"}
    BY DEF ChatInv, PhaseInv
<1>. QED  BY <1>1, <1>2, <1>3, <1>4 DEF Chat!WellFormed

(***************************************************************************)
(* The file tools of a turn, part "tools": for any file names, any length  *)
(* of the files and any number of calls and of edits by the user.          *)
(***************************************************************************)

Calls == {"none", "read", "refused", "map"}
ToolsTypes ==
    /\ v1 \in [FileNames -> Tools!Contents \cup {Tools!None}]
    /\ v2 \in [FileNames -> Nat] /\ v3 \in Nat
    /\ v4 \in [pc : {"idle", "tools", "done"}, before : SUBSET (FileNames \X Nat),
               wrote : SUBSET FileNames, reported : SUBSET FileNames]
    /\ v5 \in [name : Calls, left : SUBSET FileNames, links : SUBSET (FileNames \X {"topic.html"}),
               ok : BOOLEAN, next : 0 .. Lines + 1, seen : Seq(Nat)]
    /\ v6 \in Nat /\ v7 \in Nat

\* Before the turn writes anything every stamp is 0; from then on a file the turn
\* wrote has another, and one that it did not is as it was.
StampsInv ==
    /\ v4.wrote \subseteq Tools!Supported
    /\ v4.pc = "idle" => v5 = Tools!NoTool
    /\ v6 = 0 /\ v4.pc = "idle" => v4.wrote = {} /\ \A f \in FileNames : v2[f] = 0
    /\ v6 = 0 /\ v4.pc = "tools" =>
          /\ \A e \in v4.before : e[2] = 0
          /\ \A f \in v4.wrote : v1[f] # Tools!None /\ v2[f] # 0
          /\ \A f \in FileNames \ v4.wrote : v1[f] # Tools!None => <<f, v2[f]>> \in v4.before
    /\ Tools!ReportedIsExact

\* What was read ends before the next offset, or with the file.
PagesInv ==
    LET end == IF v5.next = 0 THEN Lines ELSE v5.next - 1
        n == Len(v5.seen)
    IN  IF v5.name = "read" THEN n <= end /\ \A i \in 1 .. n : v5.seen[i] = end - n + i
        ELSE v5.seen = <<>>

\* The links so far are those of the pages that were read.
Here == Tools!Listed \cap Tools!Pages
LinksInv ==
    v5.name = "map" /\ v6 = 0 =>
        /\ v5.left \subseteq Here
        /\ \A l \in FileNames \X {"topic.html"} :
              l \in v5.links <=> l[1] \in Here \ v5.left /\ l[2] \in v1[l[1]].links

ToolsInv == ToolsTypes /\ StampsInv /\ PagesInv /\ LinksInv

\* No call at all, and what a page contains.
LEMMA ToolsFacts ==
    /\ Tools!NoTool.name = "none" /\ Tools!NoTool.seen = <<>>
    /\ Tools!NoTool \in [name : Calls, left : SUBSET FileNames,
                         links : SUBSET (FileNames \X {"topic.html"}),
                         ok : BOOLEAN, next : 0 .. Lines + 1, seen : Seq(Nat)]
    /\ Tools!None \notin Tools!Contents
    /\ \A c \in Tools!Contents : c.links \subseteq {"topic.html"}
<1>1. /\ Tools!NoTool.name = "none" /\ Tools!NoTool.seen = <<>>
      /\ Tools!NoTool \in [name : Calls, left : SUBSET FileNames,
                           links : SUBSET (FileNames \X {"topic.html"}),
                           ok : BOOLEAN, next : 0 .. Lines + 1, seen : Seq(Nat)]
    BY ToolsAssumption DEF Tools!NoTool, Calls
<1>2. Tools!None \notin Tools!Contents /\ \A c \in Tools!Contents : c.links \subseteq {"topic.html"}
    BY DEF Tools!None, Tools!Contents
<1>. QED  BY <1>1, <1>2

\* A write keeps the shape of what it writes.
LEMMA Normalized ==
    ASSUME NEW f, NEW c \in Tools!Contents
    PROVE  Tools!Normalize(f, c) \in Tools!Contents
BY DEF Tools!Normalize, Tools!Contents, Tools!Shapes

LEMMA ToolsStart == Tools!Init => ToolsInv
<1>. SUFFICES ASSUME Tools!Init PROVE ToolsInv
    OBVIOUS
<1>1. [page |-> TRUE, shape |-> "document", css |-> TRUE, links |-> {}] \in Tools!Contents
    BY DEF Tools!Contents, Tools!Shapes
<1>2. ToolsTypes
    BY <1>1, ToolsFacts DEF Tools!Init, ToolsTypes
<1>3. StampsInv
    BY DEF Tools!Init, StampsInv, Tools!ReportedIsExact
<1>4. PagesInv /\ LinksInv
    BY ToolsFacts DEF Tools!Init, PagesInv, LinksInv
<1>. QED  BY <1>2, <1>3, <1>4 DEF ToolsInv

\* The turn begins and ends.
LEMMA ToolsTurn ==
    ASSUME ToolsInv, Tools!TurnBegin \/ Tools!TurnEnd
    PROVE  ToolsInv'
<1>1. PICK fp \in Tools!Fingerprints :
        \/ v4.pc = "idle" /\ v4' = [v4 EXCEPT !.pc = "tools", !.before = fp]
        \/ /\ v4.pc = "tools" /\ v5 = Tools!NoTool
           /\ v4' = [v4 EXCEPT !.pc = "done", !.reported = {e[1] : e \in fp \ v4.before}]
    BY DEF Tools!TurnBegin, Tools!TurnEnd
<1>2. v1' = v1 /\ v2' = v2 /\ v3' = v3 /\ v5' = v5 /\ v6' = v6 /\ v7' = v7
    BY DEF Tools!TurnBegin, Tools!TurnEnd
<1>3. /\ fp \subseteq FileNames \X Nat
      /\ v6 = 0 => fp = {<<f, v2[f]>> : f \in Tools!Listed}
    BY DEF Tools!Fingerprints, Tools!Listed, ToolsInv, ToolsTypes
<1>4. v5 = Tools!NoTool
    BY <1>1 DEF ToolsInv, StampsInv
<1>5. ToolsTypes'
    <2>1. {e[1] : e \in fp \ v4.before} \subseteq FileNames
        BY <1>3
    <2>. QED  BY <1>1, <1>2, <1>3, <2>1 DEF ToolsInv, ToolsTypes
<1>6. StampsInv'
    <2>1. CASE v4.pc = "idle" /\ v4' = [v4 EXCEPT !.pc = "tools", !.before = fp]
        <3>1. /\ v4'.pc = "tools" /\ v4'.before = fp /\ v4'.wrote = v4.wrote
              /\ v4.wrote \subseteq Tools!Supported
            BY <2>1 DEF ToolsInv, ToolsTypes, StampsInv
        <3>2. ASSUME v6 = 0
              PROVE  /\ \A e \in fp : e[2] = 0
                     /\ v4.wrote = {}
                     /\ \A f \in FileNames : v1[f] # Tools!None => <<f, v2[f]>> \in fp
            BY <1>3, <2>1, <3>2 DEF ToolsInv, StampsInv, Tools!Listed
        <3>. QED  BY <1>2, <3>1, <3>2 DEF StampsInv, Tools!ReportedIsExact
    <2>2. CASE /\ v4.pc = "tools"
               /\ v4' = [v4 EXCEPT !.pc = "done", !.reported = {e[1] : e \in fp \ v4.before}]
        <3>1. /\ v4'.pc = "done" /\ v4'.wrote = v4.wrote
              /\ v4'.reported = {e[1] : e \in fp \ v4.before}
              /\ v4.wrote \subseteq Tools!Supported
            BY <2>2 DEF ToolsInv, ToolsTypes, StampsInv
        <3>2. ASSUME v6 = 0 PROVE {e[1] : e \in fp \ v4.before} = v4.wrote
            <4>1. /\ \A e \in v4.before : e[2] = 0
                  /\ \A f \in v4.wrote : f \in FileNames /\ v1[f] # Tools!None /\ v2[f] # 0
                  /\ \A f \in FileNames \ v4.wrote : v1[f] # Tools!None => <<f, v2[f]>> \in v4.before
                BY <2>2, <3>2 DEF ToolsInv, StampsInv, ToolsTypes
            <4>2. fp = {<<f, v2[f]>> : f \in {g \in FileNames : v1[g] # Tools!None}}
                BY <1>3, <3>2 DEF Tools!Listed
            <4>3. ASSUME NEW f \in v4.wrote PROVE f \in {e[1] : e \in fp \ v4.before}
                <5>. DEFINE e == <<f, v2[f]>>
                <5>1. e \in fp /\ e[1] = f /\ e[2] = v2[f]
                    BY <4>1, <4>2, <4>3
                <5>2. e \notin v4.before
                    BY <4>1, <4>3, <5>1
                <5>. HIDE DEF e
                <5>. QED  BY <5>1, <5>2
            <4>4. ASSUME NEW e \in fp \ v4.before PROVE e[1] \in v4.wrote
                <5>1. PICK f \in FileNames : v1[f] # Tools!None /\ e = <<f, v2[f]>>
                    BY <4>2, <4>4
                <5>. QED  BY <4>1, <4>4, <5>1
            <4>. QED  BY <4>3, <4>4
        <3>. QED  BY <1>2, <3>1, <3>2 DEF StampsInv, Tools!ReportedIsExact
    <2>. QED  BY <1>1, <2>1, <2>2
<1>7. PagesInv' /\ LinksInv'
    BY <1>2, <1>4, ToolsFacts DEF ToolsInv, PagesInv, LinksInv
<1>. QED  BY <1>5, <1>6, <1>7 DEF ToolsInv

\* A file is written or deleted by the turn.
LEMMA ToolsWrite ==
    ASSUME ToolsInv, Tools!WriteFile \/ Tools!DeleteFile
    PROVE  ToolsInv'
<1>1. v4.pc = "tools" /\ v5 = Tools!NoTool /\ v7' = v7 + 1 /\ v6' = v6
    BY DEF Tools!WriteFile, Tools!DeleteFile, Tools!Call
<1>2. v5' = Tools!NoTool
    BY DEF Tools!WriteFile, Tools!DeleteFile, Tools!Call, Tools!NoTool
<1>3. PICK f \in FileNames :
        \/ UNCHANGED <<v1, v2, v3, v4>>
        \/ f \in Tools!Supported /\ \E c \in Tools!Contents :
              /\ v1' = [v1 EXCEPT ![f] = c] /\ v3' = v3 + 1 /\ v2' = [v2 EXCEPT ![f] = v3 + 1]
              /\ v4' = [v4 EXCEPT !.wrote = @ \cup {f}]
        \/ /\ v1' = IF f \in Tools!Supported THEN [v1 EXCEPT ![f] = Tools!None] ELSE v1
           /\ v4' = [v4 EXCEPT !.wrote = @ \ {f}]
           /\ v2' = v2 /\ v3' = v3
    <2>1. CASE Tools!WriteFile
        <3>1. PICK f \in FileNames, c \in Tools!Contents :
                IF f \in Tools!Supported
                THEN /\ v1' = [v1 EXCEPT ![f] = Tools!Normalize(f, c)] /\ v3' = v3 + 1
                     /\ v2' = [v2 EXCEPT ![f] = v3 + 1]
                     /\ v4' = [v4 EXCEPT !.wrote = @ \cup {f}]
                ELSE UNCHANGED <<v1, v2, v3, v4>>
            BY <2>1 DEF Tools!WriteFile, Tools!Put
        <3>2. Tools!Normalize(f, c) \in Tools!Contents
            BY Normalized
        <3>. QED  BY <3>1, <3>2
    <2>2. CASE Tools!DeleteFile
        BY <2>2 DEF Tools!DeleteFile
    <2>. QED  BY <2>1, <2>2
<1>. DEFINE wrote == v4.wrote
<1>4. /\ v1 \in [FileNames -> Tools!Contents \cup {Tools!None}] /\ v2 \in [FileNames -> Nat]
      /\ v3 \in Nat /\ wrote \subseteq FileNames /\ wrote \subseteq Tools!Supported
    BY DEF ToolsInv, ToolsTypes, StampsInv
<1>5. ASSUME v6 = 0
      PROVE  /\ \A e \in v4.before : e[2] = 0
             /\ \A g \in wrote : v1[g] # Tools!None /\ v2[g] # 0
             /\ \A g \in FileNames \ wrote : v1[g] # Tools!None => <<g, v2[g]>> \in v4.before
    BY <1>1, <1>5 DEF ToolsInv, StampsInv
<1>6. /\ v4'.pc = "tools" /\ v4'.before = v4.before
      /\ v4' \in [pc : {"idle", "tools", "done"}, before : SUBSET (FileNames \X Nat),
                  wrote : SUBSET FileNames, reported : SUBSET FileNames]
      /\ v4'.wrote = wrote \/ v4'.wrote = wrote \cup {f} \/ v4'.wrote = wrote \ {f}
    <2>. DEFINE T == [pc : {"idle", "tools", "done"}, before : SUBSET (FileNames \X Nat),
                      wrote : SUBSET FileNames, reported : SUBSET FileNames]
    <2>1. v4 \in T /\ v4.pc = "tools"
        BY <1>1 DEF ToolsInv, ToolsTypes
    <2>2. ASSUME NEW w \in SUBSET FileNames
          PROVE  LET t == [v4 EXCEPT !.wrote = w] IN
                 t \in T /\ t.pc = "tools" /\ t.before = v4.before /\ t.wrote = w
        BY <2>1, <2>2
    <2>3. v4' = v4 \/ v4' = [v4 EXCEPT !.wrote = wrote \cup {f}] \/ v4' = [v4 EXCEPT !.wrote = wrote \ {f}]
        BY <1>3
    <2>4. wrote \cup {f} \in SUBSET FileNames /\ wrote \ {f} \in SUBSET FileNames
        BY <1>4
    <2>. HIDE DEF T, wrote
    <2>5. CASE v4' = v4
        BY <2>1, <2>5 DEF T, wrote
    <2>6. CASE v4' = [v4 EXCEPT !.wrote = wrote \cup {f}]
        BY <2>2, <2>4, <2>6 DEF T
    <2>7. CASE v4' = [v4 EXCEPT !.wrote = wrote \ {f}]
        BY <2>2, <2>4, <2>7 DEF T
    <2>. QED  BY <2>3, <2>5, <2>6, <2>7
<1>7. CASE UNCHANGED <<v1, v2, v3, v4>>
    <2>1. ToolsTypes'
        BY <1>1, <1>2, <1>7, ToolsFacts DEF ToolsInv, ToolsTypes
    <2>2. StampsInv'
        BY <1>1, <1>7 DEF ToolsInv, StampsInv, Tools!ReportedIsExact
    <2>3. PagesInv' /\ LinksInv'
        BY <1>2, ToolsFacts DEF PagesInv, LinksInv
    <2>. QED  BY <2>1, <2>2, <2>3 DEF ToolsInv
<1>8. CASE f \in Tools!Supported /\ \E c \in Tools!Contents :
              /\ v1' = [v1 EXCEPT ![f] = c] /\ v3' = v3 + 1 /\ v2' = [v2 EXCEPT ![f] = v3 + 1]
              /\ v4' = [v4 EXCEPT !.wrote = @ \cup {f}]
    <2>1. PICK c \in Tools!Contents : v1' = [v1 EXCEPT ![f] = c]
        BY <1>8
    <2>2. v4'.wrote = wrote \cup {f} /\ v3' = v3 + 1 /\ v2' = [v2 EXCEPT ![f] = v3 + 1]
        BY <1>8 DEF ToolsInv, ToolsTypes
    <2>3. /\ v1' \in [FileNames -> Tools!Contents \cup {Tools!None}] /\ v1'[f] # Tools!None
          /\ v2' \in [FileNames -> Nat] /\ v2'[f] # 0 /\ v3' \in Nat
          /\ \A g \in FileNames \ {f} : v1'[g] = v1[g] /\ v2'[g] = v2[g]
        BY <1>4, <2>1, <2>2, ToolsFacts
    <2>. HIDE DEF wrote
    <2>4. ToolsTypes'
        BY <1>1, <1>2, <1>6, <2>3, ToolsFacts DEF ToolsInv, ToolsTypes
    <2>5. StampsInv'
        <3>1. ASSUME v6 = 0
              PROVE  /\ \A g \in v4'.wrote : v1'[g] # Tools!None /\ v2'[g] # 0
                     /\ \A g \in FileNames \ v4'.wrote : v1'[g] # Tools!None => <<g, v2'[g]>> \in v4'.before
            BY <1>4, <1>5, <1>6, <2>2, <2>3, <3>1
        <3>2. v4'.wrote \subseteq Tools!Supported
            BY <1>4, <1>8, <2>2
        <3>. QED  BY <1>1, <1>5, <1>6, <3>1, <3>2 DEF StampsInv, Tools!ReportedIsExact
    <2>6. PagesInv' /\ LinksInv'
        BY <1>2, ToolsFacts DEF PagesInv, LinksInv
    <2>. QED  BY <2>4, <2>5, <2>6 DEF ToolsInv
<1>9. CASE /\ v1' = IF f \in Tools!Supported THEN [v1 EXCEPT ![f] = Tools!None] ELSE v1
           /\ v4' = [v4 EXCEPT !.wrote = @ \ {f}]
           /\ v2' = v2 /\ v3' = v3
    <2>1. v4'.wrote = wrote \ {f}
        BY <1>9 DEF ToolsInv, ToolsTypes
    <2>2. /\ v1' \in [FileNames -> Tools!Contents \cup {Tools!None}]
          /\ \A g \in FileNames \ {f} : v1'[g] = v1[g]
          /\ v1'[f] = v1[f] \/ v1'[f] = Tools!None
          /\ f \in Tools!Supported => v1'[f] = Tools!None
        BY <1>4, <1>9
    <2>. HIDE DEF wrote
    <2>3. ToolsTypes'
        <3>1. v2' \in [FileNames -> Nat] /\ v3' \in Nat /\ v6' \in Nat /\ v7' \in Nat
            BY <1>1, <1>9 DEF ToolsInv, ToolsTypes
        <3>. QED  BY <1>2, <1>6, <2>2, <3>1, ToolsFacts DEF ToolsTypes
    <2>4. StampsInv'
        <3>1. ASSUME v6 = 0
              PROVE  /\ \A g \in v4'.wrote : v1'[g] # Tools!None /\ v2'[g] # 0
                     /\ \A g \in FileNames \ v4'.wrote : v1'[g] # Tools!None => <<g, v2'[g]>> \in v4'.before
            BY <1>4, <1>5, <1>6, <1>9, <2>1, <2>2, <3>1
        <3>2. v4'.wrote \subseteq Tools!Supported
            BY <1>4, <2>1
        <3>. QED  BY <1>1, <1>5, <1>6, <3>1, <3>2 DEF StampsInv, Tools!ReportedIsExact
    <2>5. PagesInv' /\ LinksInv'
        BY <1>2, ToolsFacts DEF PagesInv, LinksInv
    <2>. QED  BY <2>3, <2>4, <2>5 DEF ToolsInv
<1>. QED  BY <1>3, <1>7, <1>8, <1>9

\* A call that reads or maps begins.
LEMMA ToolsCall ==
    ASSUME ToolsInv, Tools!ReadFile \/ Tools!Map
    PROVE  ToolsInv'
<1>1. /\ v4.pc = "tools" /\ v1' = v1 /\ v2' = v2 /\ v3' = v3 /\ v4' = v4 /\ v6' = v6
      /\ v7' = v7 + 1
    BY DEF Tools!ReadFile, Tools!Map, Tools!Call
<1>2. Tools!Listed \subseteq FileNames
    BY DEF Tools!Listed
<1>. DEFINE T == [name : Calls, left : SUBSET FileNames, links : SUBSET (FileNames \X {"topic.html"}),
                  ok : BOOLEAN, next : 0 .. Lines + 1, seen : Seq(Nat)]
<1>3. /\ v5' \in T
      /\ \/ v5'.name = "read" /\ v5'.seen = <<>> /\ v5'.next # 0
         \/ v5'.name = "refused" /\ v5'.seen = <<>>
         \/ v5'.name = "map" /\ v5'.seen = <<>> /\ v5'.left = Here /\ v5'.links = {}
    <2>. DEFINE call(name, left, ok, next) ==
             [name |-> name, left |-> left, links |-> {}, ok |-> ok, next |-> next, seen |-> <<>>]
    <2>0. ASSUME NEW name \in Calls, NEW l \in SUBSET FileNames, NEW ok \in BOOLEAN,
                 NEW next \in 0 .. Lines + 1
          PROVE  call(name, l, ok, next) \in T
        BY <2>0, EmptySeq
    <2>1. CASE Tools!ReadFile
        <3>1. PICK f \in Tools!Listed, offset \in 1 .. Lines + 1 :
                \/ v5' = [[Tools!NoTool EXCEPT !.next = offset, !.left = {f}] EXCEPT !.name = "read"]
                \/ v5' = [[Tools!NoTool EXCEPT !.ok = FALSE, !.left = {f}] EXCEPT !.name = "refused"]
            BY <2>1 DEF Tools!ReadFile, Tools!Call
        <3>2. v5' = call("read", {f}, TRUE, offset) \/ v5' = call("refused", {f}, FALSE, 0)
            BY <3>1 DEF Tools!NoTool
        <3>3. {f} \in SUBSET FileNames /\ offset \in 0 .. Lines + 1 /\ 0 \in 0 .. Lines + 1 /\ offset # 0
            BY <1>2, ToolsAssumption
        <3>4. CASE v5' = call("read", {f}, TRUE, offset)
            <4>1. v5' \in T
                BY <2>0, <3>3, <3>4 DEF Calls
            <4>. QED  BY <3>3, <3>4, <4>1
        <3>5. CASE v5' = call("refused", {f}, FALSE, 0)
            <4>1. v5' \in T
                BY <2>0, <3>3, <3>5 DEF Calls
            <4>. QED  BY <3>5, <4>1
        <3>. QED  BY <3>2, <3>4, <3>5
    <2>2. CASE Tools!Map
        <3>1. v5' = call("map", Here, TRUE, 0)
            BY <2>2 DEF Tools!Map, Tools!Call, Tools!NoTool, Here
        <3>2. Here \in SUBSET FileNames /\ 0 \in 0 .. Lines + 1
            BY <1>2, ToolsAssumption DEF Here
        <3>3. v5' \in T
            BY <2>0, <3>1, <3>2 DEF Calls
        <3>. QED  BY <3>1, <3>3
    <2>. QED  BY <2>1, <2>2
<1>5. ToolsTypes'
    BY <1>1, <1>3 DEF ToolsInv, ToolsTypes
<1>6. StampsInv'
    BY <1>1 DEF ToolsInv, StampsInv, Tools!ReportedIsExact
<1>7. PagesInv'
    <2>1. v5'.next \in 0 .. Lines + 1 /\ Len(v5'.seen) = 0
        BY <1>3
    <2>. QED  BY <1>3, <2>1, ToolsAssumption DEF PagesInv
<1>8. LinksInv'
    BY <1>1, <1>3 DEF LinksInv, Here, Tools!Listed
<1>. QED  BY <1>5, <1>6, <1>7, <1>8 DEF ToolsInv

\* The next page of a file.
LEMMA ToolsReadPage ==
    ASSUME ToolsInv, Tools!ReadPage
    PROVE  ToolsInv'
<1>1. /\ v1' = v1 /\ v2' = v2 /\ v3' = v3 /\ v4' = v4 /\ v6' = v6 /\ v7' = v7
      /\ v5.name = "read" /\ v5.next # 0
    BY DEF Tools!ReadPage
<1>2. PICK limit \in 1 .. Lines + 1 :
        v5' = [v5 EXCEPT !.seen = @ \o Tools!Page(v5.next, limit),
                         !.next = IF Tools!NextOffset(v5.next, limit) <= Lines
                                  THEN Tools!NextOffset(v5.next, limit) ELSE 0]
    BY DEF Tools!ReadPage
<1>. DEFINE p == Tools!Page(v5.next, limit)  o == v5.next  n == Len(v5.seen)
            m == IF o > Lines THEN 0 ELSE IF o + limit - 1 > Lines THEN Lines - o + 1 ELSE limit
<1>3. /\ Lines \in Nat /\ o \in 1 .. Lines + 1 /\ v5.seen \in Seq(Nat) /\ n \in Nat
      /\ n <= o - 1 /\ \A i \in 1 .. n : v5.seen[i] = o - 1 - n + i
    BY <1>1, ToolsAssumption DEF ToolsInv, ToolsTypes, PagesInv
<1>4. m \in Nat /\ o + m <= Lines + 1
    <2>. HIDE DEF o
    <2>1. limit \in Nat
        BY <1>3
    <2>2. CASE o > Lines
        BY <1>3, <2>2
    <2>3. CASE o <= Lines /\ o + limit - 1 > Lines
        BY <1>3, <2>1, <2>3
    <2>4. CASE o <= Lines /\ o + limit - 1 <= Lines
        BY <1>3, <2>1, <2>4
    <2>. QED  BY <1>3, <2>1, <2>2, <2>3, <2>4
<1>5. p = [i \in 1 .. m |-> o + i - 1]
    BY DEF Tools!Page
<1>. HIDE DEF m, o
<1>6. p \in Seq(Nat) /\ Len(p) = m /\ \A i \in 1 .. m : p[i] = o + i - 1
    <2>1. \A i \in 1 .. m : o + i - 1 \in Nat
        BY ONLY <1>3, <1>4
    <2>. HIDE DEF p
    <2>. QED  BY <1>4, <1>5, <2>1
<1>7. Tools!NextOffset(v5.next, limit) = o + m
    BY <1>6 DEF Tools!NextOffset, o
<1>8. /\ v5'.seen = v5.seen \o p /\ v5'.next = IF o + m <= Lines THEN o + m ELSE 0
      /\ v5'.name = "read" /\ v5'.left = v5.left /\ v5'.links = v5.links
      /\ v5' = [name |-> v5.name, left |-> v5.left, links |-> v5.links, ok |-> v5.ok,
                next |-> v5'.next, seen |-> v5'.seen]
    BY <1>1, <1>2, <1>7 DEF ToolsInv, ToolsTypes
<1>. DEFINE all1 == v5.seen \o p
<1>. HIDE DEF p, n
<1>9. /\ all1 \in Seq(Nat) /\ Len(all1) = n + m
      /\ \A i \in 1 .. n : all1[i] = v5.seen[i]
      /\ \A i \in 1 .. m : all1[n + i] = p[i]
    <2>1. /\ v5.seen \o p \in Seq(Nat) /\ Len(v5.seen \o p) = Len(v5.seen) + Len(p)
          /\ \A i \in 1 .. Len(v5.seen) + Len(p) :
                (v5.seen \o p)[i] = IF i <= Len(v5.seen) THEN v5.seen[i] ELSE p[i - Len(v5.seen)]
        BY <1>3, <1>6, ConcatProperties
    <2>2. Len(v5.seen) = n /\ Len(p) = m
        BY <1>6 DEF n
    <2>. HIDE DEF all1
    <2>3. /\ all1 \in Seq(Nat) /\ Len(all1) = n + m
          /\ \A i \in 1 .. n + m : all1[i] = IF i <= n THEN v5.seen[i] ELSE p[i - n]
        BY <2>1, <2>2 DEF all1
    <2>4. \A i \in 1 .. n : i \in 1 .. n + m /\ i <= n
        BY ONLY <1>3, <1>4
    <2>5. ASSUME NEW i \in 1 .. m PROVE all1[n + i] = p[i]
        <3>. DEFINE k == n + i
        <3>1. k \in 1 .. n + m /\ ~ (k <= n) /\ k - n = i
            BY ONLY <1>3, <1>4, <2>5
        <3>. HIDE DEF k
        <3>2. all1[k] = IF k <= n THEN v5.seen[k] ELSE p[k - n]
            BY ONLY <2>3, <3>1
        <3>3. all1[k] = p[i]
            BY ONLY <3>1, <3>2
        <3>. QED  BY <3>3 DEF k
    <2>. QED  BY <2>3, <2>4, <2>5
<1>. HIDE DEF all1
<1>10. ASSUME NEW i \in 1 .. n + m PROVE all1[i] = o + m - 1 - (n + m) + i
    <2>1. CASE i \in 1 .. n
        BY ONLY <1>3, <1>4, <1>9, <2>1
    <2>2. CASE i \notin 1 .. n
        <3>. DEFINE j == i - n
        <3>1. j \in 1 .. m /\ n + j = i
            BY ONLY <1>3, <1>4, <1>10, <2>2
        <3>. HIDE DEF j
        <3>2. all1[i] = o + j - 1
            BY ONLY <1>6, <1>9, <3>1
        <3>. QED  BY ONLY <1>3, <1>4, <3>1, <3>2
    <2>. QED  BY <2>1, <2>2
<1>11. v5'.seen = all1
    BY <1>8 DEF all1
<1>12. PagesInv'
    <2>. DEFINE end == IF v5'.next = 0 THEN Lines ELSE v5'.next - 1
    <2>1. end = o + m - 1
        BY ONLY <1>3, <1>4, <1>8
    <2>2. Len(v5'.seen) = n + m /\ n + m <= end
        BY ONLY <1>3, <1>4, <1>9, <1>11, <2>1
    <2>. HIDE DEF end
    <2>3. ASSUME NEW i \in 1 .. n + m PROVE v5'.seen[i] = end - (n + m) + i
        <3>1. v5'.seen[i] = o + m - 1 - (n + m) + i
            BY <1>10, <1>11
        <3>. QED  BY ONLY <1>3, <1>4, <2>1, <3>1
    <2>. QED  BY <1>8, <2>2, <2>3 DEF PagesInv, end
<1>13. ToolsTypes'
    <2>1. v5'.next \in 0 .. Lines + 1
        BY ONLY <1>3, <1>4, <1>8
    <2>. QED  BY <1>1, <1>8, <1>9, <1>11, <2>1 DEF ToolsInv, ToolsTypes
<1>14. StampsInv'
    <2>1. v4.pc # "idle"
        BY <1>1, ToolsFacts DEF ToolsInv, StampsInv
    <2>. QED  BY <1>1, <2>1 DEF ToolsInv, StampsInv, Tools!ReportedIsExact
<1>15. LinksInv'
    BY <1>8 DEF LinksInv
<1>. QED  BY <1>12, <1>13, <1>14, <1>15 DEF ToolsInv

\* The links of one page.
LEMMA ToolsMapRead ==
    ASSUME ToolsInv, Tools!MapRead
    PROVE  ToolsInv'
<1>1. /\ v1' = v1 /\ v2' = v2 /\ v3' = v3 /\ v4' = v4 /\ v6' = v6 /\ v7' = v7
      /\ v5.name = "map"
    BY DEF Tools!MapRead
<1>2. PICK f \in v5.left :
        v5' = IF f \in Tools!Supported /\ v1[f] # Tools!None
              THEN [v5 EXCEPT !.left = @ \ {f}, !.links = @ \cup {<<f, t>> : t \in v1[f].links}]
              ELSE [v5 EXCEPT !.name = "refused", !.left = {}, !.ok = FALSE]
    BY DEF Tools!MapRead
<1>3. /\ v5 \in [name : Calls, left : SUBSET FileNames, links : SUBSET (FileNames \X {"topic.html"}),
                 ok : BOOLEAN, next : 0 .. Lines + 1, seen : Seq(Nat)]
      /\ f \in FileNames /\ v5.left \subseteq FileNames /\ v5.seen = <<>>
    BY <1>1 DEF ToolsInv, ToolsTypes, PagesInv
<1>4. StampsInv'
    <2>1. v4.pc # "idle"
        BY <1>1, ToolsFacts DEF ToolsInv, StampsInv
    <2>. QED  BY <1>1, <2>1 DEF ToolsInv, StampsInv, Tools!ReportedIsExact
<1>5. CASE f \in Tools!Supported /\ v1[f] # Tools!None
    <2>. DEFINE new == {<<f, t>> : t \in v1[f].links}
    <2>1. new \subseteq FileNames \X {"topic.html"}
        <3>1. v1[f] \in Tools!Contents
            BY <1>3, <1>5 DEF ToolsInv, ToolsTypes
        <3>. QED  BY <1>3, <3>1, ToolsFacts
    <2>2. /\ v5'.name = "map" /\ v5'.left = v5.left \ {f} /\ v5'.links = v5.links \cup new
          /\ v5'.seen = <<>>
          /\ v5' \in [name : Calls, left : SUBSET FileNames, links : SUBSET (FileNames \X {"topic.html"}),
                      ok : BOOLEAN, next : 0 .. Lines + 1, seen : Seq(Nat)]
        BY <1>1, <1>2, <1>3, <1>5, <2>1
    <2>3. LinksInv'
        <3>1. CASE v6 = 0
            <4>1. /\ v5.left \subseteq Here
                  /\ \A l \in FileNames \X {"topic.html"} :
                        l \in v5.links <=> l[1] \in Here \ v5.left /\ l[2] \in v1[l[1]].links
                BY <1>1, <3>1 DEF ToolsInv, LinksInv
            <4>2. Here' = Here
                BY <1>1 DEF Here, Tools!Listed
            <4>3. ASSUME NEW l \in FileNames \X {"topic.html"}
                  PROVE  l \in v5'.links <=> l[1] \in Here \ v5'.left /\ l[2] \in v1[l[1]].links
                <5>1. l \in new <=> l[1] = f /\ l[2] \in v1[f].links
                    BY <4>3
                <5>. HIDE DEF new
                <5>. QED  BY <2>2, <4>1, <5>1
            <4>. QED  BY <1>1, <2>2, <4>1, <4>2, <4>3 DEF LinksInv
        <3>2. CASE v6 # 0
            BY <1>1, <3>2 DEF LinksInv
        <3>. QED  BY <3>1, <3>2
    <2>4. ToolsTypes' /\ PagesInv'
        BY <1>1, <2>2 DEF ToolsInv, ToolsTypes, PagesInv
    <2>. QED  BY <1>4, <2>3, <2>4 DEF ToolsInv
<1>6. CASE ~ (f \in Tools!Supported /\ v1[f] # Tools!None)
    <2>1. /\ v5'.name = "refused" /\ v5'.seen = <<>>
          /\ v5' \in [name : Calls, left : SUBSET FileNames, links : SUBSET (FileNames \X {"topic.html"}),
                      ok : BOOLEAN, next : 0 .. Lines + 1, seen : Seq(Nat)]
        BY <1>2, <1>3, <1>6 DEF Calls
    <2>. QED  BY <1>1, <1>4, <2>1 DEF ToolsInv, ToolsTypes, PagesInv, LinksInv
<1>. QED  BY <1>5, <1>6

\* A call is over.
LEMMA ToolsDone ==
    ASSUME ToolsInv, Tools!ToolDone
    PROVE  ToolsInv'
<1>1. /\ v1' = v1 /\ v2' = v2 /\ v3' = v3 /\ v4' = v4 /\ v6' = v6 /\ v7' = v7
      /\ v5' = Tools!NoTool
    BY DEF Tools!ToolDone
<1>. QED  BY <1>1, ToolsFacts DEF ToolsInv, ToolsTypes, StampsInv, PagesInv, LinksInv,
               Tools!ReportedIsExact

\* The user edits: from now on nothing is said of the stamps and the links.
LEMMA ToolsEdit ==
    ASSUME ToolsInv, Tools!UserEdit
    PROVE  ToolsInv'
<1>1. v4' = v4 /\ v5' = v5 /\ v7' = v7 /\ v6' = v6 + 1 /\ v6' # 0
    BY DEF Tools!UserEdit, ToolsInv, ToolsTypes
<1>2. /\ v1' \in [FileNames -> Tools!Contents \cup {Tools!None}]
      /\ v2' \in [FileNames -> Nat] /\ v3' \in Nat
    <2>1. [page |-> TRUE, shape |-> "document", css |-> TRUE, links |-> {}] \in Tools!Contents
        BY DEF Tools!Contents, Tools!Shapes
    <2>2. /\ v1 \in [FileNames -> Tools!Contents \cup {Tools!None}]
          /\ v2 \in [FileNames -> Nat] /\ v3 \in Nat
        BY DEF ToolsInv, ToolsTypes
    <2>3. PICK f \in FileNames :
            \/ \E c \in Tools!Contents :
                  v1' = [v1 EXCEPT ![f] = c] /\ v3' = v3 + 1 /\ v2' = [v2 EXCEPT ![f] = v3 + 1]
            \/ v1' = [v1 EXCEPT ![f] = Tools!None] /\ v2' = v2 /\ v3' = v3
        BY <2>1 DEF Tools!UserEdit, Tools!Put
    <2>4. CASE \E c \in Tools!Contents :
                  v1' = [v1 EXCEPT ![f] = c] /\ v3' = v3 + 1 /\ v2' = [v2 EXCEPT ![f] = v3 + 1]
        BY <2>2, <2>4
    <2>5. CASE v1' = [v1 EXCEPT ![f] = Tools!None] /\ v2' = v2 /\ v3' = v3
        BY <2>2, <2>5
    <2>. QED  BY <2>3, <2>4, <2>5
<1>3. ToolsTypes'
    BY <1>1, <1>2 DEF ToolsInv, ToolsTypes
<1>4. StampsInv' /\ PagesInv' /\ LinksInv'
    BY <1>1 DEF ToolsInv, StampsInv, PagesInv, LinksInv, Tools!ReportedIsExact
<1>. QED  BY <1>3, <1>4 DEF ToolsInv

LEMMA ToolsKeep ==
    ASSUME ToolsInv, [Tools!Next]_(Tools!vars)
    PROVE  ToolsInv'
<1>1. CASE UNCHANGED Tools!vars
    BY <1>1 DEF Tools!vars, ToolsInv, ToolsTypes, StampsInv, PagesInv, LinksInv, Here,
        Tools!Listed, Tools!ReportedIsExact
<1>. QED  BY <1>1, ToolsTurn, ToolsWrite, ToolsCall, ToolsReadPage, ToolsMapRead, ToolsDone, ToolsEdit
          DEF Tools!Next

\* What the tools tell.
LEMMA ToolsTell ==
    ASSUME ToolsInv
    PROVE  /\ Tools!TypeOK /\ Tools!ReportedIsExact /\ Tools!PagesCoverFile
           /\ Tools!OrphansAreUnlinked
<1>1. Tools!TypeOK
    <2>1. Len(v5.seen) <= Lines
        <3>1. CASE v5.name = "read"
            BY <3>1, ToolsAssumption DEF ToolsInv, ToolsTypes, PagesInv
        <3>2. CASE v5.name # "read"
            BY <3>2, ToolsAssumption DEF ToolsInv, PagesInv
        <3>. QED  BY <3>1, <3>2
    <2>. QED  BY <2>1 DEF ToolsInv, ToolsTypes, Tools!TypeOK
<1>2. Tools!ReportedIsExact
    BY DEF ToolsInv, StampsInv
<1>3. Tools!PagesCoverFile
    BY DEF ToolsInv, PagesInv, Tools!PagesCoverFile
<1>4. Tools!OrphansAreUnlinked
    <2>. SUFFICES ASSUME v5.name = "map", v5.left = {}, v6 = 0
                  PROVE  /\ "index.html" \notin Tools!Orphans
                         /\ \A f \in Tools!Pages \cap Tools!Listed :
                              f \in Tools!Orphans <=> f # "index.html" /\
                                  ~ \E g \in Tools!Pages \cap Tools!Listed : f \in v1[g].links
        BY DEF Tools!OrphansAreUnlinked
    <2>1. \A l \in FileNames \X {"topic.html"} :
              l \in v5.links <=> l[1] \in Here /\ l[2] \in v1[l[1]].links
        BY DEF ToolsInv, LinksInv
    <2>2. v5.links \subseteq FileNames \X {"topic.html"} /\ Here \subseteq FileNames
        BY DEF ToolsInv, ToolsTypes, Here, Tools!Listed
    <2>3. ASSUME NEW g \in Here PROVE v1[g].links \subseteq {"topic.html"}
        <3>1. v1[g] \in Tools!Contents
            BY <2>3 DEF Here, Tools!Listed, ToolsInv, ToolsTypes
        <3>. QED  BY <3>1, ToolsFacts
    <2>4. ASSUME NEW f \in Here
          PROVE  f \in Tools!Backlinks <=> \E g \in Here : f \in v1[g].links
        <3>1. f \in Tools!Backlinks <=> \E l \in v5.links : l[2] = f
            BY <2>4 DEF Tools!Backlinks, Here
        <3>2. ASSUME NEW l \in v5.links, l[2] = f PROVE \E g \in Here : f \in v1[g].links
            BY <2>1, <2>2, <3>2
        <3>3. ASSUME NEW g \in Here, f \in v1[g].links PROVE \E l \in v5.links : l[2] = f
            <4>. DEFINE l == <<g, f>>
            <4>1. l \in FileNames \X {"topic.html"} /\ l[1] = g /\ l[2] = f
                BY <2>2, <2>3, <3>3
            <4>. HIDE DEF l
            <4>2. l \in v5.links
                BY <2>1, <3>3, <4>1
            <4>. QED  BY <4>1, <4>2
        <3>. QED  BY <3>1, <3>2, <3>3
    <2>. QED  BY <2>4 DEF Tools!Orphans, Here
<1>. QED  BY <1>1, <1>2, <1>3, <1>4

(***************************************************************************)
(* HAR timings, part "timings": for any times.                             *)
(***************************************************************************)

TimesInv == v1 \in Timings!Timings /\ Timings!WithinElapsed

\* The phases of a request follow one another.
LEMMA PhasesAddUp ==
    ASSUME Timings!Init \/ TimesInv, Timings!Compute
    PROVE  TimesInv'
<1>1. /\ v1 \in Timings!Timings /\ v1' = v1
      /\ v2'.total = Timings!Positive(Timings!Blocked)
            + Timings!Positive(Timings!Phase(v1.dnsStart, v1.dnsEnd))
            + Timings!Positive(Timings!Phase(v1.connectStart, v1.connectEnd))
            + Timings!Positive(v1.sendEnd - v1.sendStart) + Timings!Wait
            + Timings!Positive(v1.finished - v1.headersEnd)
    BY DEF Timings!Init, TimesInv, Timings!Compute
<1>2. /\ v1.dnsStart \in Int /\ v1.dnsEnd \in Int /\ v1.connectStart \in Int
      /\ v1.connectEnd \in Int /\ v1.sendStart \in Nat /\ v1.sendEnd \in Nat
      /\ v1.headersStart \in Int /\ v1.headersEnd \in Nat /\ v1.finished \in Nat
      /\ v1.dnsStart >= -1 /\ v1.connectStart >= -1 /\ v1.headersStart >= -1
      /\ (v1.dnsStart = -1) = (v1.dnsEnd = -1) /\ v1.dnsStart <= v1.dnsEnd
      /\ (v1.connectStart = -1) = (v1.connectEnd = -1) /\ v1.connectStart <= v1.connectEnd
      /\ v1.connectStart = -1 => v1.dnsStart = -1
      /\ v1.connectStart # -1 => v1.dnsEnd <= v1.connectStart /\ v1.connectEnd <= v1.sendStart
      /\ v1.sendStart <= v1.sendEnd
      /\ v1.headersStart # -1 => v1.sendEnd <= v1.headersStart /\ v1.headersStart <= v1.headersEnd
      /\ v1.sendEnd <= v1.headersEnd /\ v1.headersEnd <= v1.finished
    BY <1>1 DEF Timings!Timings, Timings!Times
<1>3. SUFFICES ASSUME v1.dnsStart # 0, v1.connectStart # 0
               PROVE  v2'.total <= v1.finished
    BY <1>1 DEF TimesInv, Timings!WithinElapsed
<1>4. /\ Timings!Positive(v1.sendEnd - v1.sendStart) = v1.sendEnd - v1.sendStart
      /\ Timings!Positive(v1.finished - v1.headersEnd) = v1.finished - v1.headersEnd
      /\ Timings!Wait \in Nat /\ Timings!Wait <= v1.headersEnd - v1.sendEnd
    BY <1>2 DEF Timings!Positive, Timings!Wait
<1>5. /\ Timings!Positive(Timings!Phase(v1.connectStart, v1.connectEnd)) =
            IF v1.connectStart = -1 THEN 0 ELSE v1.connectEnd - v1.connectStart
      /\ Timings!Positive(Timings!Phase(v1.dnsStart, v1.dnsEnd)) =
            IF v1.dnsStart = -1 THEN 0 ELSE v1.dnsEnd - v1.dnsStart
      /\ Timings!Positive(Timings!Blocked) =
            IF v1.dnsStart # -1 THEN v1.dnsStart
            ELSE IF v1.connectStart # -1 THEN v1.connectStart ELSE v1.sendStart
    BY <1>2, <1>3 DEF Timings!Positive, Timings!Phase, Timings!Blocked
<1>. QED  BY <1>1, <1>2, <1>4, <1>5

LEMMA TimesStart == Timings!Init => TimesInv
<1>. SUFFICES ASSUME Timings!Init PROVE TimesInv
    OBVIOUS
<1>1. v1 \in Timings!Timings /\ v2.total = -1
    BY DEF Timings!Init, Timings!NotAsked
<1>2. v1.finished \in Nat
    BY <1>1 DEF Timings!Timings, Timings!Times
<1>. QED  BY <1>1, <1>2 DEF TimesInv, Timings!WithinElapsed

LEMMA TimesKeep == TimesInv /\ [Timings!Next]_(Timings!vars) => TimesInv'
BY PhasesAddUp DEF Timings!Next, Timings!vars, TimesInv, Timings!WithinElapsed

(***************************************************************************)
(* The parts together.                                                     *)
(***************************************************************************)

\* A behaviour is of one part, and its steps are those of that part's component.
LEMMA SuiteParts ==
    ASSUME [SuiteNext]_all
    PROVE  /\ part' = part
           /\ part = "search" => [Search!Next]_(Search!vars)
           /\ part = "startup" => [Startup!Next]_(Startup!vars)
           /\ part = "chat" => [Chat!Next]_(Chat!vars)
           /\ part = "tools" => [Tools!Next]_(Tools!vars)
           /\ part = "timings" => [Timings!Next]_(Timings!vars)
<1>1. CASE UNCHANGED all
    BY <1>1 DEF all, shared, Search!vars, Startup!vars, Chat!vars, Tools!vars, Timings!vars
<1>2. CASE SuiteNext
    BY <1>2 DEF SuiteNext, SessionFileStep, StartupStep, StartupOnly,
        ToolsStep, ToolsOnly, OptionsStep, OptionsOnly, SearchStep, SearchOnly, ChatStep, ChatOnly,
        LogStep, LogOnly, TimingsStep, TimingsOnly, LinksStep, LinksOnly, ContractStep, ContractOnly
<1>. QED  BY <1>1, <1>2

\* chrome.rs: for any profiles and ports, the search says that no Chrome runs only
\* when each one that could be found when it began has quit since.
THEOREM SearchIsThorough == SuiteSpec => []FindsRunning
<1>. DEFINE I == part = "search" => SearchInv
<1>1. SuiteInit => I
    BY SearchStart DEF SuiteInit
<1>2. I /\ [SuiteNext]_all => I'
    BY SuiteParts, SearchKeeps
<1>3. I => FindsRunning
    BY DEF FindsRunning, SearchInv, Search!FindsRunning
<1>. QED  BY <1>1, <1>2, <1>3, PTL DEF SuiteSpec

\* lib.rs: for any number of commands, killed or not, with any edits between them,
\* what the user wrote goes only by the user's hand or by workspace clean, and the
\* generated configuration changes nothing; a command that did not fail leaves, or
\* serves, a page, one it made itself with a stylesheet beside it; and neither is
\* empty until a command is killed.
THEOREM WorkspaceIsKept == SuiteSpec => StartupKeepsWorkspace
<1>. DEFINE I == part = "startup" => StartupInv
            J == part = "startup" =>
                   Startup!TypeOK /\ Startup!PageFilesThere /\ Startup!GeneratedConfigIsNeutral
            A == part = "startup" => \A w \in Startup!Workspaces :
                   /\ v4[w] = "own" /\ v4'[w] # "own" => v6.cmd \in {"clean", "none"}
                   /\ v5[w] = "own" /\ v5'[w] # "own" => v6.cmd \in {"clean", "none"}
<1>1. SuiteInit => I
    BY StartupStart DEF SuiteInit
<1>2. I /\ [SuiteNext]_all => I'
    BY SuiteParts, StartupKeeps
<1>3. I /\ [SuiteNext]_all => [A]_all
    BY SuiteParts, StartupKeeps DEF KeptStep
<1>4. I => J
    BY StartupTells
<1>5. SuiteSpec => []J /\ [][A]_all
    BY <1>1, <1>2, <1>3, <1>4, PTL DEF SuiteSpec
<1>. QED  BY <1>5 DEF StartupKeepsWorkspace

\* The promise of the chat: a conversation the gateway accepts, whatever fails, no
\* command with arguments cut short, and the newest messages kept.
THEOREM ChatIsKept == SuiteSpec => ChatStaysWellFormed
<1>. DEFINE I == part = "chat" => ChatInv
            J == part = "chat" => Chat!TypeOK /\ Chat!WellFormed /\ Chat!PartialNeverRuns
            A == part = "chat" /\ v2 = "prompt" /\ v2' = "request" =>
                    Chat!KeepsNewest(Append(v1, Chat!User), v1')
<1>1. SuiteInit => I
    BY ChatStart DEF SuiteInit
<1>2. I /\ [SuiteNext]_all => I'
    BY SuiteParts, ChatKeeps
<1>3. I /\ [SuiteNext]_all => [A]_all
    BY SuiteParts, ChatKeeps
<1>4. I => J
    BY ChatTells
<1>5. SuiteSpec => []J /\ [][A]_all
    BY <1>1, <1>2, <1>3, <1>4, PTL DEF SuiteSpec
<1>. QED  BY <1>5 DEF ChatStaysWellFormed

\* rpc_server.rs, file.rs and map.rs: for any names, any length of the files and any
\* calls, changedFiles names exactly what the turn wrote and left there while nobody
\* else edits; following next_offset reads every line once and in order; and an
\* orphan of a complete map is linked from no page.
THEOREM TurnsTellTheirFiles == SuiteSpec => []ToolsTellTheWorkspace
<1>. DEFINE I == part = "tools" => ToolsInv
<1>1. SuiteInit => I
    BY ToolsStart DEF SuiteInit
<1>2. I /\ [SuiteNext]_all => I'
    BY SuiteParts, ToolsKeep
<1>3. I => ToolsTellTheWorkspace
    BY ToolsTell DEF ToolsTellTheWorkspace
<1>. QED  BY <1>1, <1>2, <1>3, PTL DEF SuiteSpec

\* actions.rs: whatever times the browser reports, no millisecond is counted in two
\* phases, unless the first of several begins at 0.
THEOREM TimesAreCountedOnce == SuiteSpec => [](part = "timings" => Timings!WithinElapsed)
<1>. DEFINE I == part = "timings" => TimesInv
            J == part = "timings" => Timings!WithinElapsed
<1>1. SuiteInit => I
    BY TimesStart DEF SuiteInit
<1>2. I /\ [SuiteNext]_all => I'
    BY SuiteParts, TimesKeep
<1>3. I => J
    BY DEF TimesInv
<1>. QED  BY <1>1, <1>2, <1>3, PTL DEF SuiteSpec

=============================================================================
