----------------------------- MODULE RelayProofs -----------------------------
(***************************************************************************)
(* Proofs about what carries the blobs: the room of the relay server and   *)
(* the room on Cloudflare, the gate in front of the server, and the shared *)
(* folder.  Every property of MCRelay's run is proved here, for every      *)
(* number of requests, hosts, objects and buckets, and for every quota.    *)
(*                                                                         *)
(* The parts share no state, so each has an inductive invariant of its     *)
(* own: StoreInv, WorkerInv, GateInv and DropInv.                          *)
(***************************************************************************)
EXTENDS MCRelay, SequencesExt, FiniteSetTheorems, SequenceTheorems, WellFoundedInduction, TLAPS

-----------------------------------------------------------------------------
(* Bytes and quotas: a sum over a finite set.                              *)

\* Induction over the subsets of a finite set, with a set in the place of a predicate.
LEMMA SubsetInduction ==
    ASSUME NEW F, IsFiniteSet(F), NEW Good,
           \A T \in SUBSET F : (\A U \in SUBSET T : U # T => U \in Good) => T \in Good
    PROVE  \A T \in SUBSET F : T \in Good
<1> DEFINE bad == {T \in SUBSET F : T \notin Good}
<1> SUFFICES ASSUME bad # {} PROVE FALSE
  OBVIOUS
<1>1. IsWellFoundedOn(StrictSubsetOrdering(F), SUBSET F)
  <2>1. FiniteSubsetsOf(F) = SUBSET F
    BY FS_FiniteSubsetsOfFinite
  <2>2. IsWellFoundedOn(StrictSubsetOrdering(F), FiniteSubsetsOf(F))
    BY FS_StrictSubsetOrderingWellFounded
  <2> QED BY <2>1, <2>2
<1>2. bad \subseteq SUBSET F
  OBVIOUS
<1>3. PICK T \in bad : \A U \in bad : <<U, T>> \notin StrictSubsetOrdering(F)
  <2> HIDE DEF bad
  <2> QED BY <1>1, <1>2, WFMin
<1>4. \A U \in SUBSET T : U # T => U \in Good
  BY <1>3 DEF StrictSubsetOrdering
<1> QED BY <1>3, <1>4

Picked(S) == CHOOSE x \in S : TRUE

\* The recursion of MapThenFoldSet, for the bytes of the subsets of F.
Sums(g, F) ==
    g = [s \in SUBSET F |-> IF s = {} THEN 0 ELSE Picked(s).size + g[s \ {Picked(s)}]]

LEMMA BytesAreSums ==
    ASSUME NEW F
    PROVE  Bytes(F) = (CHOOSE g : Sums(g, F))[F]
BY DEF Bytes, MapThenSumSet, MapThenFoldSet, Sums, Picked

LEMMA SumsAgree ==
    ASSUME NEW F, NEW G, NEW W, IsFiniteSet(W), W \subseteq F, W \subseteq G,
           NEW f, Sums(f, F), NEW g, Sums(g, G)
    PROVE  f[W] = g[W]
<1> DEFINE good == {T \in SUBSET W : f[T] = g[T]}
<1>1. ASSUME NEW T \in SUBSET W, \A U \in SUBSET T : U # T => U \in good
      PROVE  T \in good
  <2>1. T \in SUBSET F /\ T \in SUBSET G
    OBVIOUS
  <2>2. CASE T = {}
    BY <2>1, <2>2 DEF Sums
  <2>3. CASE T # {}
    <3> DEFINE rest == T \ {Picked(T)}
    <3>1. Picked(T) \in T
      BY <2>3 DEF Picked
    <3>2. f[rest] = g[rest]
      BY <1>1, <3>1
    <3>3. f[T] = Picked(T).size + f[rest] /\ g[T] = Picked(T).size + g[rest]
      <4>1. ASSUME NEW h, NEW H, Sums(h, H), T \in SUBSET H PROVE h[T] = Picked(T).size + h[rest]
        BY <2>3, <4>1 DEF Sums
      <4> QED BY <2>1, <4>1
    <3> QED BY <3>2, <3>3
  <2> QED BY <2>2, <2>3
<1>2. W \in good
  <2> HIDE DEF good
  <2> QED BY <1>1, SubsetInduction
<1> QED BY <1>2

LEMMA SumsExist ==
    ASSUME NEW F, IsFiniteSet(F)
    PROVE  \E g : Sums(g, F)
<1> DEFINE good == {T \in SUBSET F : \E g : Sums(g, T)}
<1>1. ASSUME NEW T \in SUBSET F, \A U \in SUBSET T : U # T => U \in good
      PROVE  T \in good
  <2> DEFINE sums(U) == CHOOSE g : Sums(g, U)
             value(U) == sums(U)[U]
             h == [s \in SUBSET T |-> IF s = {} THEN 0
                                      ELSE Picked(s).size + value(s \ {Picked(s)})]
  <2>1. \A U \in SUBSET T : U # T => Sums(sums(U), U) /\ IsFiniteSet(U)
    BY <1>1, FS_Subset
  <2>2. ASSUME NEW U \in SUBSET T, U # T PROVE value(U) = h[U]
    <3>1. Sums(sums(U), U)
      BY <2>1, <2>2
    <3>2. CASE U = {}
      <4>1. sums(U)[U] = 0
        BY <3>1, <3>2 DEF Sums
      <4> QED BY <3>2, <4>1
    <3>3. CASE U # {}
      <4> DEFINE rest == U \ {Picked(U)}
      <4>1. Picked(U) \in U
        BY <3>3 DEF Picked
      <4>2. rest \in SUBSET T /\ rest # T /\ rest \subseteq U
        BY <4>1
      <4>3. sums(U)[U] = Picked(U).size + sums(U)[rest]
        <5> HIDE DEF sums
        <5> QED BY <3>1, <3>3 DEF Sums
      <4>4. sums(U)[rest] = sums(rest)[rest]
        <5>1. Sums(sums(rest), rest) /\ IsFiniteSet(rest)
          BY <2>1, <4>2
        <5> HIDE DEF sums, rest
        <5> QED BY <3>1, <4>2, <5>1, SumsAgree
      <4>5. h[U] = Picked(U).size + value(rest)
        BY <3>3
      <4> QED BY <4>3, <4>4, <4>5
    <3> QED BY <3>2, <3>3
  <2>3. Sums(h, T)
    <3>1. \A s \in SUBSET T : s # {} => s \ {Picked(s)} \in SUBSET T /\ s \ {Picked(s)} # T
      BY DEF Picked
    <3>2. \A s \in SUBSET T : s # {} => value(s \ {Picked(s)}) = h[s \ {Picked(s)}]
      <4> HIDE DEF h, value
      <4> QED BY <2>2, <3>1
    <3>3. h = [s \in SUBSET T |-> IF s = {} THEN 0 ELSE Picked(s).size + h[s \ {Picked(s)}]]
      <4> HIDE DEF value
      <4> QED BY <3>2
    <3> QED BY <3>3 DEF Sums
  <2> HIDE DEF h
  <2> QED BY <2>3
<1>2. F \in good
  <2> HIDE DEF good
  <2> QED BY <1>1, SubsetInduction
<1> QED BY <1>2

LEMMA BytesOf ==
    ASSUME NEW F, IsFiniteSet(F)
    PROVE  Bytes(F) = IF F = {} THEN 0 ELSE Picked(F).size + Bytes(F \ {Picked(F)})
<1> DEFINE sums(U) == CHOOSE g : Sums(g, U)
           rest == F \ {Picked(F)}
<1>1. Sums(sums(F), F) /\ Sums(sums(rest), rest) /\ IsFiniteSet(rest)
  <2>1. IsFiniteSet(rest)
    BY FS_Subset
  <2> QED BY <2>1, SumsExist
<1>2. Bytes(F) = sums(F)[F] /\ Bytes(rest) = sums(rest)[rest]
  BY BytesAreSums
<1>3. sums(F)[rest] = sums(rest)[rest]
  <2>1. rest \subseteq F
    OBVIOUS
  <2> HIDE DEF sums, rest
  <2> QED BY <1>1, <2>1, SumsAgree
<1>4. sums(F)[F] = IF F = {} THEN 0 ELSE Picked(F).size + sums(F)[rest]
  <2> HIDE DEF sums
  <2> QED BY <1>1 DEF Sums
<1> QED BY <1>2, <1>3, <1>4

LEMMA BytesWithout ==
    ASSUME NEW F, IsFiniteSet(F), \A f \in F : f.size \in Nat
    PROVE  /\ Bytes(F) \in Nat
           /\ \A x \in F : Bytes(F) = x.size + Bytes(F \ {x})
<1> DEFINE good == {T \in SUBSET F : /\ Bytes(T) \in Nat
                                     /\ \A x \in T : Bytes(T) = x.size + Bytes(T \ {x})}
<1>1. ASSUME NEW T \in SUBSET F, \A U \in SUBSET T : U # T => U \in good
      PROVE  T \in good
  <2>1. IsFiniteSet(T)
    BY FS_Subset
  <2>2. CASE T = {}
    <3>1. Bytes(T) = 0
      BY <2>1, <2>2, BytesOf
    <3> QED BY <2>2, <3>1
  <2>3. CASE T # {}
    <3> DEFINE p == Picked(T)
    <3>1. p \in T /\ p.size \in Nat
      BY <2>3 DEF Picked
    <3>2. Bytes(T) = p.size + Bytes(T \ {p})
      BY <2>1, <2>3, BytesOf
    <3>3. T \ {p} \in good
      BY <1>1, <3>1
    <3>4. Bytes(T) \in Nat
      BY <3>1, <3>2, <3>3
    <3>5. ASSUME NEW x \in T PROVE Bytes(T) = x.size + Bytes(T \ {x})
      <4>1. CASE x = p
        BY <3>2, <4>1
      <4>2. CASE x # p
        <5> DEFINE both == T \ {p, x}
        <5>1. T \ {x} \in good /\ both \in good
          BY <1>1
        <5>2. Bytes(T \ {x}) = p.size + Bytes(both)
          <6>1. p \in T \ {x} /\ (T \ {x}) \ {p} = both
            BY <3>1, <4>2
          <6> QED BY <5>1, <6>1
        <5>3. Bytes(T \ {p}) = x.size + Bytes(both)
          <6>1. x \in T \ {p} /\ (T \ {p}) \ {x} = both
            BY <4>2
          <6> QED BY <3>3, <6>1
        <5>4. x.size \in Nat /\ Bytes(both) \in Nat
          BY <5>1
        <5> HIDE DEF p, both
        <5> QED BY <3>1, <3>2, <5>2, <5>3, <5>4
      <4> QED BY <4>1, <4>2
    <3> QED BY <3>4, <3>5
  <2> QED BY <2>2, <2>3
<1>2. F \in good
  <2> HIDE DEF good
  <2> QED BY <1>1, SubsetInduction
<1> QED BY <1>2

\* Fewer blobs are fewer bytes.
LEMMA BytesMonotone ==
    ASSUME NEW F, IsFiniteSet(F), \A f \in F : f.size \in Nat, NEW S \in SUBSET F
    PROVE  Bytes(S) <= Bytes(F) /\ Bytes(S) \in Nat
<1> DEFINE good == {T \in SUBSET F : S \subseteq T => Bytes(S) <= Bytes(T)}
<1>0. \A T \in SUBSET F : IsFiniteSet(T) /\ Bytes(T) \in Nat
  <2> SUFFICES ASSUME NEW T \in SUBSET F PROVE IsFiniteSet(T) /\ Bytes(T) \in Nat
    OBVIOUS
  <2>1. IsFiniteSet(T) /\ \A f \in T : f.size \in Nat
    BY FS_Subset
  <2> QED BY <2>1, BytesWithout
<1>1. ASSUME NEW T \in SUBSET F, \A U \in SUBSET T : U # T => U \in good
      PROVE  T \in good
  <2> SUFFICES ASSUME S \subseteq T, S # T PROVE Bytes(S) <= Bytes(T)
    BY <1>0
  <2>1. PICK x \in T : x \notin S
    OBVIOUS
  <2>2. T \ {x} \in SUBSET F /\ Bytes(S) <= Bytes(T \ {x})
    BY <1>1, <2>1
  <2>3. Bytes(T) = x.size + Bytes(T \ {x})
    BY <1>0, BytesWithout
  <2>4. x.size \in Nat /\ Bytes(T \ {x}) \in Nat /\ Bytes(S) \in Nat
    BY <1>0, <2>2
  <2> QED BY <2>2, <2>3, <2>4
<1>2. F \in good
  <2> HIDE DEF good
  <2> QED BY <1>1, SubsetInduction
<1> QED BY <1>0, <1>2

-----------------------------------------------------------------------------
(* The room of the relay server.                                            *)

File == [host : Hosts, counter : Nat, size : Sizes, mtime : Nat]
Older(F, f) == {o \in F : o.mtime < f.mtime}

FilesInv ==
    /\ files \subseteq File /\ IsFiniteSet(files)
    /\ now \in Nat /\ \A f \in files : f.mtime < now
    /\ \A f, g \in files : NameOf(f) = NameOf(g) => f = g

StoreInv == FilesInv /\ WithinQuota /\ AckedIsListed

LEMMA StoreQuotaMonotone ==
    ASSUME NEW T \in SUBSET File, IsFiniteSet(T), NEW S \in SUBSET T, ~OverQuota(T)
    PROVE  ~OverQuota(S)
<1>1. \A f \in T : f.size \in Nat
  BY StoreAssumption DEF File
<1>2. Bytes(S) <= Bytes(T) /\ Bytes(S) \in Nat /\ Bytes(T) \in Nat
  BY <1>1, BytesMonotone
<1>3. Cardinality(S) <= Cardinality(T) /\ Cardinality(S) \in Nat /\ Cardinality(T) \in Nat
  BY FS_Subset, FS_CardinalityType
<1>4. Cardinality(T) <= MaxBlobs /\ Bytes(T) <= MaxBytes
  BY <1>2, <1>3, StoreAssumption DEF OverQuota
<1> QED BY <1>2, <1>3, <1>4, StoreAssumption DEF OverQuota

\* A blob that stays keeps its place in the listing: what is written comes after it.
LEMMA ListedStays ==
    ASSUME FilesInv, AckedIsListed, \A o \in files' : o \in files \/ o.mtime = now,
           NEW n \in acked, \A f \in files : NameOf(f) = n => f \in files'
    PROVE  n \in Names(Listed')
<1>1. PICK f \in Listed : NameOf(f) = n
  BY DEF AckedIsListed, Names
<1>2. f \in files /\ f \in files' /\ Cardinality(Older(files, f)) < MaxBlobs
  BY <1>1 DEF Listed, Older
<1>3. Older(files', f) \subseteq Older(files, f)
  <2>1. f.mtime < now /\ f.mtime \in Nat /\ now \in Nat
    BY <1>2 DEF FilesInv, File
  <2>2. \A o \in files' : o.mtime < f.mtime => o \in files
    BY <2>1
  <2> QED BY <2>2 DEF Older
<1>4. IsFiniteSet(Older(files, f))
  BY FS_Subset DEF FilesInv, Older
<1>5. /\ Cardinality(Older(files', f)) <= Cardinality(Older(files, f))
      /\ Cardinality(Older(files', f)) \in Nat /\ Cardinality(Older(files, f)) \in Nat
  BY <1>3, <1>4, FS_Subset, FS_CardinalityType
<1>6. Cardinality(Older(files', f)) < MaxBlobs
  BY <1>2, <1>5, StoreAssumption
<1>7. f \in Listed'
  BY <1>2, <1>6 DEF Listed, Older
<1> QED BY <1>1, <1>7 DEF Names

\* What a PUT leaves before it measures, and after retention.
LEMMA WrittenIs ==
    ASSUME FilesInv, NEW h \in Hosts, NEW n \in 1..MaxCounter, NEW size \in Sizes
    PROVE  LET written == Written(h, n, size)
               new     == [host |-> h, counter |-> n]
           IN  /\ written \subseteq File /\ IsFiniteSet(written)
               /\ \A f \in written : f \in files \/ f.mtime = now
               /\ \A f \in written : f.mtime < now + 1
               /\ \A f, g \in written : NameOf(f) = NameOf(g) => f = g
               /\ \A f \in written : NameOf(f) = new => f.mtime = now
               /\ \A f \in written : NameOf(f) # new => f \in files
               /\ \A f \in files : NameOf(f) # new => f \in written
<1> DEFINE new == [host |-> h, counter |-> n]
           rest == {f \in files : NameOf(f) # new}
           x == [host |-> h, counter |-> n, size |-> size, mtime |-> now]
<1>1. Written(h, n, size) = rest \cup {x}
  BY DEF Written
<1>2. x \in File /\ NameOf(x) = new /\ x.mtime = now
  BY StoreAssumption DEF FilesInv, File, NameOf
<1> HIDE DEF x
<1>3. rest \subseteq files /\ IsFiniteSet(rest \cup {x})
  BY FS_Subset, FS_AddElement DEF FilesInv
<1>4. \A f \in rest : f.mtime < now + 1
  BY DEF FilesInv, File
<1>5. now < now + 1
  BY DEF FilesInv
<1> HIDE DEF new
<1> DEFINE written == rest \cup {x}
<1>6. written \subseteq File /\ IsFiniteSet(written)
  BY <1>2, <1>3 DEF FilesInv
<1>7. \A f \in written : f \in files \/ f.mtime = now
  BY <1>2
<1>8. \A f \in written : f.mtime < now + 1
  BY <1>2, <1>4, <1>5
<1>9. \A f, g \in written : NameOf(f) = NameOf(g) => f = g
  BY <1>2 DEF FilesInv
<1>10. \A f \in written : NameOf(f) = new => f.mtime = now
  BY <1>2
<1>11. \A f \in written : NameOf(f) # new => f \in files
  BY <1>2
<1>12. \A f \in files : NameOf(f) # new => f \in written
  OBVIOUS
<1> HIDE DEF written, rest
<1> QED BY <1>1, <1>6, <1>7, <1>8, <1>9, <1>10, <1>11, <1>12, Zenon DEF written, new

LEMMA PutStep ==
    ASSUME StoreInv, NEW h \in Hosts, NEW n \in 1..MaxCounter, NEW size \in Sizes, Put(h, n, size)
    PROVE  StoreInv'
<1> DEFINE written == Written(h, n, size)
           kept == Retained(written, h)
           new == [host |-> h, counter |-> n]
           evicted == {NameOf(f) : f \in written \ kept}
<1>1. /\ now' = now + 1 /\ killed' = killed
      /\ files' = IF OverQuota(kept) THEN {f \in kept : NameOf(f) # new} ELSE kept
      /\ acked' = IF OverQuota(kept) THEN acked \ (evicted \cup {new})
                                     ELSE (acked \cup {new}) \ evicted
  BY DEF Put
<1>2. FilesInv /\ WithinQuota /\ AckedIsListed
  BY DEF StoreInv
<1>3. /\ written \subseteq File /\ IsFiniteSet(written)
      /\ \A f \in written : f \in files \/ f.mtime = now
      /\ \A f \in written : f.mtime < now + 1
      /\ \A f, g \in written : NameOf(f) = NameOf(g) => f = g
      /\ \A f \in written : NameOf(f) = new => f.mtime = now
      /\ \A f \in written : NameOf(f) # new => f \in files
      /\ \A f \in files : NameOf(f) # new => f \in written
  BY <1>2, WrittenIs
<1> HIDE DEF written
<1>4. kept \subseteq written
  BY DEF Retained
<1> HIDE DEF kept, new
<1>5. IsFiniteSet(kept) /\ files' \subseteq kept /\ IsFiniteSet(files')
  <2>1. files' \subseteq kept
    BY <1>1
  <2> QED BY <1>3, <1>4, <2>1, FS_Subset
<1>6. FilesInv'
  BY <1>1, <1>2, <1>3, <1>4, <1>5 DEF FilesInv
<1>7. WithinQuota'
  <2>1. CASE OverQuota(kept)
    <3>1. files' \subseteq files /\ files \subseteq File /\ IsFiniteSet(files)
      BY <1>1, <1>2, <1>3, <1>4, <2>1 DEF FilesInv
    <3>2. ~killed' => ~OverQuota(files')
      BY <1>1, <1>2, <3>1, StoreQuotaMonotone DEF WithinQuota
    <3> QED BY <3>2 DEF WithinQuota, OverQuota
  <2>2. CASE ~OverQuota(kept)
    <3>1. files' = kept
      BY <1>1, <2>2
    <3> QED BY <2>2, <3>1 DEF WithinQuota, OverQuota
  <2> QED BY <2>1, <2>2
<1>8. ASSUME NEW m \in acked' PROVE m \in Names(Listed')
  <2>1. CASE m # new
    <3>1. m \in acked /\ m \notin evicted
      BY <1>1, <1>8, <2>1
    <3>2. ASSUME NEW f \in files, NameOf(f) = m PROVE f \in files'
      <4>1. f \in written
        BY <1>3, <2>1, <3>2
      <4>2. f \in kept
        BY <3>1, <3>2, <4>1
      <4> QED BY <1>1, <2>1, <3>2, <4>2
    <3>3. \A o \in files' : o \in files \/ o.mtime = now
      BY <1>3, <1>4, <1>5
    <3> QED BY <1>2, <3>1, <3>2, <3>3, ListedStays
  <2>2. CASE m = new
    <3>1. ~OverQuota(kept) /\ files' = kept /\ new \notin evicted
      BY <1>1, <1>8, <2>2
    <3>2. PICK f \in kept : NameOf(f) = new
      <4>1. \E f \in written : NameOf(f) = new
        <5> DEFINE x == [host |-> h, counter |-> n, size |-> size, mtime |-> now]
        <5>1. x \in written /\ NameOf(x) = new
          BY DEF written, Written, NameOf, new
        <5> HIDE DEF x
        <5> QED BY <5>1
      <4> QED BY <3>1, <4>1
    <3>3. Older(kept, f) \subseteq kept \ {f}
      <4>1. f.mtime \in Nat /\ ~(f.mtime < f.mtime)
        <5>1. f.mtime \in Nat
          BY <1>3, <1>4, <3>2 DEF File
        <5> QED BY <5>1
      <4> QED BY <4>1 DEF Older
    <3>4. Cardinality(kept) \in Nat /\ Cardinality(kept) <= MaxBlobs
      <4>1. Cardinality(kept) \in Nat /\ ~(Cardinality(kept) > MaxBlobs)
        BY <1>5, <3>1, FS_CardinalityType DEF OverQuota
      <4> QED BY <4>1, StoreAssumption
    <3>5. IsFiniteSet(kept \ {f}) /\ Cardinality(kept \ {f}) = Cardinality(kept) - 1
      BY <1>5, <3>2, FS_RemoveElement
    <3>6. /\ Cardinality(Older(kept, f)) <= Cardinality(kept \ {f})
          /\ Cardinality(Older(kept, f)) \in Nat
      BY <3>3, <3>5, FS_Subset, FS_CardinalityType
    <3>7. Cardinality(Older(kept, f)) < MaxBlobs
      BY <3>4, <3>5, <3>6, StoreAssumption
    <3>8. f \in Listed'
      BY <3>1, <3>2, <3>7 DEF Listed, Older
    <3> QED BY <2>2, <3>2, <3>8 DEF Names
  <2> QED BY <2>1, <2>2
<1>9. AckedIsListed'
  BY <1>8 DEF AckedIsListed, Names
<1> QED BY <1>6, <1>7, <1>9 DEF StoreInv

LEMMA PutKilledStep ==
    ASSUME StoreInv, NEW h \in Hosts, NEW n \in 1..MaxCounter, NEW size \in Sizes, PutKilled(h, n, size)
    PROVE  StoreInv'
<1> DEFINE written == Written(h, n, size)
           kept == Retained(written, h)
           new == [host |-> h, counter |-> n]
           evicted == {NameOf(f) : f \in written \ kept}
<1>1. /\ now' = now + 1 /\ killed' /\ files' \in {written, kept}
      /\ acked' = acked \ (evicted \cup {new})
  BY DEF PutKilled
<1>2. FilesInv /\ AckedIsListed
  BY DEF StoreInv
<1>3. /\ written \subseteq File /\ IsFiniteSet(written)
      /\ \A f \in written : f \in files \/ f.mtime = now
      /\ \A f \in written : f.mtime < now + 1
      /\ \A f, g \in written : NameOf(f) = NameOf(g) => f = g
      /\ \A f \in files : NameOf(f) # new => f \in written
  BY <1>2, WrittenIs
<1> HIDE DEF written
<1>4. kept \subseteq written
  BY DEF Retained
<1> HIDE DEF kept, new
<1>5. files' \subseteq written /\ IsFiniteSet(files')
  <2>1. files' \subseteq written
    BY <1>1, <1>4
  <2> QED BY <1>3, <2>1, FS_Subset
<1>6. FilesInv'
  BY <1>1, <1>2, <1>3, <1>5 DEF FilesInv
<1>7. WithinQuota'
  BY <1>1 DEF WithinQuota
<1>8. ASSUME NEW m \in acked' PROVE m \in Names(Listed')
  <2>1. m \in acked /\ m # new /\ m \notin evicted
    BY <1>1, <1>8
  <2>2. ASSUME NEW f \in files, NameOf(f) = m PROVE f \in files'
    <3>1. f \in written
      BY <1>3, <2>1, <2>2
    <3>2. f \in kept
      BY <2>1, <2>2, <3>1
    <3> QED BY <1>1, <3>1, <3>2
  <2>3. \A o \in files' : o \in files \/ o.mtime = now
    BY <1>3, <1>5
  <2> QED BY <1>2, <2>1, <2>2, <2>3, ListedStays
<1>9. AckedIsListed'
  BY <1>8 DEF AckedIsListed, Names
<1> QED BY <1>6, <1>7, <1>9 DEF StoreInv

\* DELETE and the sweeper.
LEMMA GoneStep ==
    ASSUME StoreInv, NEW S \in SUBSET files, files' = files \ S, acked' = acked \ Names(S),
           UNCHANGED <<now, killed>>
    PROVE  StoreInv'
<1>1. FilesInv /\ WithinQuota /\ AckedIsListed
  BY DEF StoreInv
<1>2. files' \subseteq files /\ IsFiniteSet(files')
  BY <1>1, FS_Subset DEF FilesInv
<1>3. FilesInv'
  BY <1>1, <1>2 DEF FilesInv
<1>4. WithinQuota'
  <2>1. ~killed' => ~OverQuota(files')
    BY <1>1, <1>2, StoreQuotaMonotone DEF FilesInv, WithinQuota
  <2> QED BY <2>1 DEF WithinQuota, OverQuota
<1>5. ASSUME NEW m \in acked' PROVE m \in Names(Listed')
  <2>1. m \in acked /\ \A f \in files : NameOf(f) = m => f \in files'
    BY <1>5 DEF Names
  <2> QED BY <1>1, <1>2, <2>1, ListedStays
<1>6. AckedIsListed'
  BY <1>5 DEF AckedIsListed, Names
<1> QED BY <1>3, <1>4, <1>6 DEF StoreInv

LEMMA StoreInit == Init => StoreInv
<1> SUFFICES ASSUME Init PROVE StoreInv
  OBVIOUS
<1>1. Bytes({}) = 0 /\ Cardinality({}) = 0 /\ IsFiniteSet({})
  BY FS_EmptySet, BytesOf
<1>2. ~OverQuota(files)
  BY <1>1, StoreAssumption DEF Init, OverQuota
<1> QED BY <1>1, <1>2 DEF Init, StoreInv, FilesInv, WithinQuota, AckedIsListed

LEMMA StoreNext == StoreInv /\ [Next]_vars => StoreInv'
<1> SUFFICES ASSUME StoreInv, [Next]_vars PROVE StoreInv'
  OBVIOUS
<1>1. ASSUME UNCHANGED <<files, killed, acked>>, now' \in Nat, now' >= now PROVE StoreInv'
  <2>1. FilesInv'
    BY <1>1 DEF StoreInv, FilesInv, File
  <2>2. WithinQuota' /\ AckedIsListed'
    BY <1>1 DEF StoreInv, WithinQuota, OverQuota, AckedIsListed, Listed, Names
  <2> QED BY <2>1, <2>2 DEF StoreInv
<1>2. CASE UNCHANGED vars
  BY <1>1, <1>2 DEF vars, StoreInv, FilesInv
<1>3. ASSUME NEW h \in Hosts, NEW n \in 1..MaxCounter, NEW size \in Sizes,
             Put(h, n, size) \/ PutKilled(h, n, size)
      PROVE  StoreInv'
  BY <1>3, PutStep, PutKilledStep
<1>4. ASSUME NEW f \in files, Delete(f) PROVE StoreInv'
  <2>1. files' = files \ {f} /\ acked' = acked \ Names({f}) /\ UNCHANGED <<now, killed>>
    BY <1>4 DEF Delete, Names
  <2> QED BY <2>1, GoneStep
<1>5. CASE Sweep
  BY <1>5, GoneStep DEF Sweep
<1>6. CASE Tick
  BY <1>1, <1>6 DEF Tick, StoreInv, FilesInv
<1> QED BY <1>2, <1>3, <1>4, <1>5, <1>6 DEF Next, Read

\* A PUT of another name evicts at most to make room for itself.
LEMMA NewestIsKept ==
    ASSUME NEW F, NEW f \in F, NEW w, Newer(F, f) \subseteq {w}, Keep > 1, NEW h
    PROVE  f \in Retained(F, h)
<1>1. Cardinality(Newer(F, f)) <= 1 /\ Cardinality(Newer(F, f)) \in Nat
  <2>1. IsFiniteSet({w}) /\ Cardinality({w}) = 1
    BY FS_Singleton
  <2> QED BY <2>1, FS_Subset, FS_CardinalityType
<1> QED BY <1>1, StoreAssumption DEF Retained

\* A blob that is replaced by none larger leaves the room within its quotas.
LEMMA ReplacedFits ==
    ASSUME FilesInv, NEW f \in files, NEW size \in Sizes, size <= f.size,
           f.host \in Hosts, f.counter \in 1..MaxCounter, ~OverQuota(files)
    PROVE  ~OverQuota(Retained(Written(f.host, f.counter, size), f.host))
<1> DEFINE rest == files \ {f}
           x == [host |-> f.host, counter |-> f.counter, size |-> size, mtime |-> now]
           written == rest \cup {x}
<1>1. Written(f.host, f.counter, size) = written
  BY DEF Written, FilesInv, NameOf
<1>2. x \notin rest /\ x.size = size
  BY DEF FilesInv, NameOf
<1>3. x \in File
  BY DEF FilesInv, File
<1>4. rest \subseteq File /\ f \in File /\ files \subseteq File /\ IsFiniteSet(files) /\ IsFiniteSet(rest)
  BY FS_Subset DEF FilesInv
<1> HIDE DEF x
<1>5. IsFiniteSet(written) /\ written \subseteq File
  BY <1>3, <1>4, FS_AddElement
<1>6. /\ Cardinality(written) = Cardinality(rest) + 1
      /\ Cardinality(files) = Cardinality(rest) + 1
      /\ Cardinality(rest) \in Nat
  <2>1. f \notin rest /\ files = rest \cup {f}
    OBVIOUS
  <2> HIDE DEF rest
  <2> QED BY <1>2, <1>4, <2>1, FS_AddElement, FS_CardinalityType
<1>7. Bytes(written) = size + Bytes(rest) /\ Bytes(files) = f.size + Bytes(rest) /\ Bytes(rest) \in Nat
  <2>1. \A g \in File : g.size \in Nat
    BY StoreAssumption DEF File
  <2>2. written \ {x} = rest /\ x \in written
    BY <1>2
  <2> HIDE DEF written
  <2>3. Bytes(written) = x.size + Bytes(written \ {x})
    BY <1>5, <2>1, <2>2, BytesWithout
  <2>4. Bytes(files) = f.size + Bytes(files \ {f})
    BY <1>4, <2>1, BytesWithout
  <2>5. Bytes(rest) \in Nat
    BY <1>4, <2>1, BytesWithout
  <2> QED BY <1>2, <2>2, <2>3, <2>4, <2>5
<1>8. ~OverQuota(written)
  <2>1. Cardinality(files) <= MaxBlobs /\ Bytes(files) <= MaxBytes
    <3>1. f.size \in Nat
      BY <1>4, StoreAssumption DEF File
    <3> QED BY <1>6, <1>7, <3>1, StoreAssumption DEF OverQuota
  <2>2. size \in Nat /\ f.size \in Nat
    BY <1>4, StoreAssumption DEF File
  <2> HIDE DEF written, rest
  <2> QED BY <1>6, <1>7, <2>1, <2>2, StoreAssumption DEF OverQuota
<1>9. Retained(written, f.host) \subseteq written
  BY DEF Retained
<1> HIDE DEF written
<1> QED BY <1>1, <1>5, <1>8, <1>9, StoreQuotaMonotone

\* A PUT that takes the newest blob of a host away has that blob's name, and is refused.
LEMMA NewestIsTaken ==
    ASSUME FilesInv, Keep > 1, NEW f \in files, Newer(files, f) = {}, NameOf(f) \notin Names(files'),
           NEW h \in Hosts, NEW n \in 1..MaxCounter, NEW size \in Sizes,
           Put(h, n, size) \/ PutKilled(h, n, size)
    PROVE  /\ NameOf(f) = [host |-> h, counter |-> n]
           /\ OverQuota(files) \/ size > f.size
<1> DEFINE new == [host |-> h, counter |-> n]
           x == [host |-> h, counter |-> n, size |-> size, mtime |-> now]
           written == Written(h, n, size)
           kept == Retained(written, h)
<1>1. \A g \in kept : NameOf(g) # new => g \in files'
  BY DEF Put, PutKilled, Retained
<1>2. ASSUME NameOf(f) # new PROVE FALSE
  <2>1. f \in written
    BY <1>2 DEF Written
  <2>2. Newer(written, f) \subseteq {x}
    BY DEF Newer, Written
  <2>3. f \in kept
    BY <2>1, <2>2, NewestIsKept
  <2> QED BY <1>1, <1>2, <2>3 DEF Names
<1>3. x \in kept /\ NameOf(x) = new
  <2>1. x \in written /\ NameOf(x) = new
    BY DEF Written, NameOf
  <2>2. f.host = h /\ f.counter = n
    BY <1>2 DEF NameOf
  <2>3. Newer(written, x) \subseteq {x}
    BY <2>2 DEF Newer, Written
  <2> HIDE DEF x, written
  <2> QED BY <2>1, <2>3, NewestIsKept
<1>4. f.host = h /\ f.counter = n /\ OverQuota(kept)
  <2>1. f.host = h /\ f.counter = n
    BY <1>2 DEF NameOf
  <2>2. x \notin files'
    BY <1>2, <1>3 DEF Names
  <2> QED BY <1>3, <2>1, <2>2 DEF Put, PutKilled, Retained
<1>5. ~OverQuota(files) => size > f.size
  <2>1. size \in Nat /\ f.size \in Nat
    BY StoreAssumption DEF FilesInv, File
  <2>2. ASSUME ~OverQuota(files), size <= f.size PROVE FALSE
    BY <1>4, <2>2, ReplacedFits
  <2> QED BY <2>1, <2>2
<1> QED BY <1>2, <1>5

-----------------------------------------------------------------------------
(* The room on Cloudflare: its bucket, and the listing.                     *)

WObject == [host : WorkerHosts, counter : Worker!Counter, size : WorkerSizes, expired : BOOLEAN]

\* A bucket has one object under a name.
OneEach(s) ==
    \A i, j \in DOMAIN s : Worker!NameOf(s[i]) = Worker!NameOf(s[j]) => i = j

IsBucket(s) == s \in Seq(WObject) /\ OneEach(s)

Contents(s) == {s[i] : i \in DOMAIN s}

\* What has not expired before the object at i, and that object's place in the listing.
Early(s, i) == {s[k] : k \in {j \in DOMAIN s : j < i /\ ~s[j].expired}}
ListedAt(s, m, i) ==
    /\ i \in DOMAIN s /\ Worker!NameOf(s[i]) = m /\ ~s[i].expired
    /\ Cardinality(Early(s, i)) < WorkerBlobs
InListing(s, m) == \E i \in DOMAIN s : ListedAt(s, m, i)

-----------------------------------------------------------------------------
LEMMA WorkerLibrary ==
    /\ \A S : Worker!Cardinality(S) = Cardinality(S)
    /\ \A s : Worker!ToSet(s) = Contents(s)
    /\ \A s, i : Worker!RemoveAt(s, i) = SubSeq(s, 1, i - 1) \o SubSeq(s, i + 1, Len(s))
    /\ \A S : Worker!Bytes(S) = Bytes(S)
BY DEF Worker!Cardinality, Cardinality, Worker!ToSet, Contents, Worker!RemoveAt, Worker!Bytes,
       Bytes, Worker!MapThenSumSet, MapThenSumSet, Worker!MapThenFoldSet, MapThenFoldSet

LEMMA ContentsFinite ==
    ASSUME NEW S, NEW s \in Seq(S)
    PROVE  IsFiniteSet(Contents(s)) /\ Contents(s) \subseteq S
<1>1. IsFiniteSet(1..Len(s)) /\ DOMAIN s = 1..Len(s)
  BY FS_Interval
<1> DEFINE f == [i \in 1..Len(s) |-> s[i]]
<1>2. f \in Surjection(1..Len(s), Contents(s))
  BY <1>1 DEF Contents, Surjection
<1>3. IsFiniteSet(Contents(s))
  <2> HIDE DEF f
  <2> QED BY <1>1, <1>2, FS_Surjection
<1> QED BY <1>1, <1>3 DEF Contents

\* An object that is removed leaves the others in their order.
LEMMA RemovedIs ==
    ASSUME NEW S, NEW s \in Seq(S), NEW i \in DOMAIN s
    PROVE  LET t == SubSeq(s, 1, i - 1) \o SubSeq(s, i + 1, Len(s))
           IN  /\ t \in Seq(S) /\ Len(t) = Len(s) - 1
               /\ \A j \in DOMAIN t : t[j] = IF j < i THEN s[j] ELSE s[j + 1]
<1> DEFINE a == SubSeq(s, 1, i - 1)
           b == SubSeq(s, i + 1, Len(s))
<1>1. Len(s) \in Nat /\ i \in 1..Len(s)
  OBVIOUS
<1>2. a \in Seq(S) /\ Len(a) = i - 1 /\ \A j \in 1..(i - 1) : a[j] = s[j]
  BY <1>1
<1>3. b \in Seq(S) /\ Len(b) = Len(s) - i /\ \A j \in 1..(Len(s) - i) : b[j] = s[i + j]
  BY <1>1
<1> HIDE DEF a, b
<1>4. a \o b \in Seq(S) /\ Len(a \o b) = Len(s) - 1
  BY <1>1, <1>2, <1>3
<1>5. ASSUME NEW j \in 1..(Len(s) - 1) PROVE (a \o b)[j] = IF j < i THEN s[j] ELSE s[j + 1]
  <2>1. CASE j < i
    BY <1>1, <1>2, <1>3, <2>1
  <2>2. CASE ~(j < i)
    <3> DEFINE k == j - (i - 1)
    <3>0. k \in 1..(Len(s) - i) /\ k \in Int
      BY <1>1, <2>2
    <3>1. i + k = j + 1
      BY <1>1
    <3>2. (a \o b)[j] = b[k]
      BY <1>1, <1>2, <1>3, <2>2
    <3> HIDE DEF k
    <3>3. b[k] = s[i + k]
      BY <1>3, <3>0
    <3>4. (a \o b)[j] = s[j + 1]
      BY ONLY <3>1, <3>2, <3>3
    <3> QED BY <2>2, <3>4
  <2> QED BY <2>1, <2>2
<1>6. DOMAIN (a \o b) = 1..(Len(s) - 1)
  BY <1>4
<1>7. \A j \in DOMAIN (a \o b) : (a \o b)[j] = IF j < i THEN s[j] ELSE s[j + 1]
  BY <1>5, <1>6
<1> QED BY <1>4, <1>7, Zenon DEF a, b

LEMMA EarlyFinite ==
    ASSUME NEW S, NEW s \in Seq(S), NEW i
    PROVE  IsFiniteSet(Early(s, i)) /\ Cardinality(Early(s, i)) \in Nat
<1>1. Early(s, i) \subseteq Contents(s)
  BY DEF Early, Contents
<1> QED BY <1>1, ContentsFinite, FS_Subset, FS_CardinalityType

\* Without takes one name away, and nothing from its place in the listing.
LEMMA WithoutIs ==
    ASSUME IsBucket(objects), NEW n
    PROVE  /\ IsBucket(Worker!Without(n))
           /\ Contents(Worker!Without(n)) = {o \in Contents(objects) : Worker!NameOf(o) # n}
           /\ \A m : m # n /\ InListing(objects, m) => InListing(Worker!Without(n), m)
<1> DEFINE i == Worker!At(n)
           t == SubSeq(objects, 1, i - 1) \o SubSeq(objects, i + 1, Len(objects))
<1>0. objects \in Seq(WObject) /\ OneEach(objects)
  BY DEF IsBucket
<1>1. CASE n \notin Worker!Names
  <2>1. Worker!Without(n) = objects
    BY <1>1 DEF Worker!Without
  <2>2. \A o \in Contents(objects) : Worker!NameOf(o) # n
    BY <1>1, WorkerLibrary DEF Worker!Names, Worker!Stored
  <2> QED BY <2>1, <2>2
<1>2. CASE n \in Worker!Names
  <2>1. i \in DOMAIN objects /\ Worker!NameOf(objects[i]) = n
    <3>1. \E k \in DOMAIN objects : Worker!NameOf(objects[k]) = n
      BY <1>2, WorkerLibrary DEF Worker!Names, Worker!Stored, Contents
    <3> QED BY <3>1 DEF Worker!At
  <2>2. Worker!Without(n) = t
    BY <1>2, WorkerLibrary DEF Worker!Without
  <2>3. /\ t \in Seq(WObject) /\ Len(t) = Len(objects) - 1
        /\ \A j \in DOMAIN t : t[j] = IF j < i THEN objects[j] ELSE objects[j + 1]
    <3> HIDE DEF i
    <3> QED BY <1>0, <2>1, RemovedIs
  <2> HIDE DEF i, t
  <2>4. /\ DOMAIN t = 1..(Len(objects) - 1) /\ DOMAIN objects = 1..Len(objects)
        /\ Len(objects) \in Nat
    BY <1>0, <2>3
  <2> DEFINE old(j) == IF j < i THEN j ELSE j + 1
             new(j) == IF j < i THEN j ELSE j - 1
  <2>5. \A j \in DOMAIN t : old(j) \in DOMAIN objects \ {i} /\ t[j] = objects[old(j)]
    BY <2>1, <2>3, <2>4
  <2>6. \A j, k \in DOMAIN t : (old(j) = old(k) => j = k) /\ (j < k <=> old(j) < old(k))
    BY <2>1, <2>4
  <2>7. \A j \in DOMAIN objects \ {i} : new(j) \in DOMAIN t /\ old(new(j)) = j
    BY <2>1, <2>4
  <2> HIDE DEF old, new
  <2>8. OneEach(t)
    BY <1>0, <2>5, <2>6 DEF OneEach
  <2>9. Contents(t) = {o \in Contents(objects) : Worker!NameOf(o) # n}
    <3>1. ASSUME NEW o \in Contents(t) PROVE o \in Contents(objects) /\ Worker!NameOf(o) # n
      BY <1>0, <2>1, <2>5 DEF Contents, OneEach
    <3>2. ASSUME NEW o \in Contents(objects), Worker!NameOf(o) # n PROVE o \in Contents(t)
      <4>1. PICK j \in DOMAIN objects : o = objects[j]
        BY DEF Contents
      <4>2. j # i
        BY <2>1, <3>2, <4>1
      <4> QED BY <2>5, <2>7, <4>1, <4>2 DEF Contents
    <3> QED BY <3>1, <3>2
  <2>10. ASSUME NEW m, m # n, InListing(objects, m) PROVE InListing(t, m)
    <3>1. PICK j \in DOMAIN objects : ListedAt(objects, m, j)
      BY <2>10 DEF InListing
    <3>2. j # i
      BY <2>1, <2>10, <3>1 DEF ListedAt
    <3>3. new(j) \in DOMAIN t /\ old(new(j)) = j /\ t[new(j)] = objects[j]
      BY <2>5, <2>7, <3>2
    <3>4. Early(t, new(j)) \subseteq Early(objects, j)
      BY <2>5, <2>6, <3>3 DEF Early
    <3>5. Cardinality(Early(t, new(j))) <= Cardinality(Early(objects, j))
          /\ Cardinality(Early(t, new(j))) \in Nat /\ Cardinality(Early(objects, j)) \in Nat
      BY <1>0, <2>3, <3>4, EarlyFinite, FS_Subset
    <3>6. ListedAt(t, m, new(j))
      BY <3>1, <3>3, <3>5, PartsAssumption DEF ListedAt
    <3> QED BY <3>3, <3>6 DEF InListing
  <2> QED BY <2>2, <2>3, <2>8, <2>9, <2>10 DEF IsBucket
<1> QED BY <1>1, <1>2

-----------------------------------------------------------------------------
(* The invariant of the room on Cloudflare.                                 *)

WorkerTypeInv ==
    /\ IsBucket(objects)
    /\ reqs \in [Requests -> Worker!Request]
    /\ newest \in [WorkerHosts -> Nat]
    /\ cuts \in Nat
    /\ late \subseteq Worker!Name

\* The names of PUTs that have written and may yet take back, and what no PUT may.
Pending == {Worker!NameOf(reqs[r]) : r \in {q \in Requests : reqs[q].pc \in {"retain", "trim", "undo"}}}
Finished == {o \in Contents(objects) : Worker!NameOf(o) \notin Pending}
Sure(h, c) == \E o \in Finished : o.host = h /\ o.counter >= c

SlotsInv == \A h \in WorkerHosts : Cardinality(Worker!Writing(h)) <= Overlap

ListedInv == \A n \in owed : InListing(objects, n)

\* Whoever exceeded the quota is still there to take its object back.
QuotaInv == cuts = 0 => ~Worker!OverQuota(Finished)

\* The newest object of a host that is owed, or a newer one, is no PUT's to take back, and
\* what retention deletes is outnumbered by one that is not.
NewestInv == \A h \in WorkerHosts : newest[h] # 0 => Sure(h, newest[h])
OutnumberedInv ==
    \A h \in WorkerHosts : \A r \in Worker!Writing(h) : \A c \in reqs[r].todo :
       newest[h] # 0 /\ c >= newest[h] => Sure(h, c + 1)

\* No deletion that waits can reach what is owed.
LateInv ==
    /\ late \cap owed = {}
    /\ \A n \in late : newest[n.host] # 0 => n.counter < newest[n.host]

WorkerInv ==
    /\ WorkerTypeInv /\ SlotsInv /\ ListedInv /\ QuotaInv /\ LateInv
    /\ Overlap < WorkerKeep => NewestInv /\ OutnumberedInv

-----------------------------------------------------------------------------
LEMMA ActiveIs ==
    ASSUME WorkerTypeInv, NEW r \in Requests
    PROVE  /\ reqs[r].pc = "idle" <=> reqs[r] = Worker!Idle
           /\ reqs[r].pc # "idle" =>
                reqs[r] \in [pc : {"write", "retain", "trim", "undo"}, host : WorkerHosts,
                             counter : Worker!Counter, size : WorkerSizes,
                             todo : SUBSET Worker!Counter]
<1>1. reqs[r] \in Worker!Request
  BY DEF WorkerTypeInv
<1>2. Worker!Idle.pc = "idle"
  BY DEF Worker!Idle
<1> QED BY <1>1, <1>2 DEF Worker!Request

LEMMA BucketIs ==
    ASSUME IsBucket(objects)
    PROVE  /\ Worker!Stored = Contents(objects)
           /\ IsFiniteSet(Contents(objects)) /\ Contents(objects) \subseteq WObject
           /\ \A o, p \in Contents(objects) : Worker!NameOf(o) = Worker!NameOf(p) => o = p
           /\ \A n : n \in Worker!Names <=> \E o \in Contents(objects) : Worker!NameOf(o) = n
<1>1. Worker!Stored = Contents(objects)
  BY WorkerLibrary DEF Worker!Stored
<1>2. IsFiniteSet(Contents(objects)) /\ Contents(objects) \subseteq WObject
  BY ContentsFinite DEF IsBucket
<1>3. \A o, p \in Contents(objects) : Worker!NameOf(o) = Worker!NameOf(p) => o = p
  BY DEF IsBucket, OneEach, Contents
<1> QED BY <1>1, <1>2, <1>3 DEF Worker!Names

LEMMA QuotaMonotone ==
    ASSUME NEW T \in SUBSET WObject, IsFiniteSet(T), NEW S \in SUBSET T, ~Worker!OverQuota(T)
    PROVE  ~Worker!OverQuota(S)
<1>1. \A o \in T : o.size \in Nat
  BY PartsAssumption DEF WObject
<1>2. Bytes(S) <= Bytes(T) /\ Bytes(S) \in Nat /\ Bytes(T) \in Nat
  BY <1>1, BytesMonotone
<1>3. Cardinality(S) <= Cardinality(T) /\ Cardinality(S) \in Nat /\ Cardinality(T) \in Nat
  BY FS_Subset, FS_CardinalityType
<1>4. Cardinality(T) <= WorkerBlobs /\ Bytes(T) <= WorkerBytes /\ WorkerBlobs \in Nat /\ WorkerBytes \in Nat
  BY <1>2, <1>3, WorkerLibrary, PartsAssumption DEF Worker!OverQuota
<1>5. Cardinality(S) <= WorkerBlobs /\ Bytes(S) <= WorkerBytes
  BY <1>2, <1>3, <1>4
<1> QED BY <1>2, <1>3, <1>4, <1>5, WorkerLibrary DEF Worker!OverQuota

\* When an object is replaced by one of the same size, the quota is where it was.
LEMMA QuotaReplaced ==
    ASSUME NEW T \in SUBSET WObject, IsFiniteSet(T), NEW o \in T, NEW p \in WObject, p \notin T,
           p.size = o.size, ~Worker!OverQuota(T)
    PROVE  ~Worker!OverQuota((T \ {o}) \cup {p})
<1> DEFINE rest == T \ {o}
           U == rest \cup {p}
<1>1. \A x \in U \cup T : x.size \in Nat
  BY PartsAssumption DEF WObject
<1>2. IsFiniteSet(rest) /\ IsFiniteSet(U) /\ U \ {p} = rest
  BY FS_Subset, FS_AddElement
<1>3. Bytes(T) = o.size + Bytes(rest) /\ Bytes(U) = p.size + Bytes(U \ {p})
  <2>1. p \in U
    OBVIOUS
  <2> HIDE DEF U, rest
  <2>2. Bytes(U) = p.size + Bytes(U \ {p})
    BY <1>1, <1>2, <2>1, BytesWithout
  <2>3. Bytes(T) = o.size + Bytes(T \ {o})
    BY <1>1, BytesWithout
  <2> QED BY <2>2, <2>3 DEF rest
<1>4. Bytes(U) = Bytes(T)
  BY <1>2, <1>3
<1>5. Cardinality(T) = Cardinality(rest) + 1 /\ Cardinality(U) = Cardinality(rest) + 1
  <2>1. Cardinality(rest) = Cardinality(T) - 1 /\ Cardinality(T) \in Nat
    BY FS_RemoveElement, FS_CardinalityType
  <2>2. Cardinality(U) = Cardinality(rest) + 1
    BY <1>2, FS_AddElement
  <2> QED BY <2>1, <2>2
<1> HIDE DEF U
<1>6. ~Worker!OverQuota(U)
  BY <1>4, <1>5, WorkerLibrary DEF Worker!OverQuota
<1> QED BY <1>6 DEF U

LEMMA QuotaShrinks ==
    ASSUME WorkerTypeInv, QuotaInv, cuts' = cuts \/ cuts' # 0, Finished' \subseteq Finished
    PROVE  QuotaInv'
<1>1. IsFiniteSet(Finished) /\ Finished \subseteq WObject
  BY BucketIs, FS_Subset DEF Finished, WorkerTypeInv
<1> QED BY <1>1, QuotaMonotone DEF QuotaInv

\* At most one name stops being sure: one that is owed no longer, or is older than what is,
\* or is among what retention found outnumbered.
LEMMA SureSurvives ==
    ASSUME WorkerTypeInv, NewestInv, OutnumberedInv, NEW n,
           \A o \in Finished : \/ \E p \in Finished' : p.host = o.host /\ p.counter = o.counter
                               \/ /\ o.host = n.host /\ o.counter = n.counter
                                  /\ \/ newest'[o.host] = 0
                                     \/ o.counter < newest[o.host]
                                     \/ \E r \in Worker!Writing(o.host) : o.counter \in reqs[r].todo,
           \A h \in WorkerHosts : newest'[h] \in {0, newest[h]},
           \A h \in WorkerHosts : \A r \in Worker!Writing(h)' :
              \A c \in reqs'[r].todo : r \in Worker!Writing(h) /\ c \in reqs[r].todo
    PROVE  NewestInv' /\ OutnumberedInv'
<1>0. /\ \A o \in Finished : o.host \in WorkerHosts /\ o.counter \in Nat
      /\ \A h \in WorkerHosts : newest[h] \in Nat
      /\ \A h \in WorkerHosts : \A r \in Worker!Writing(h) : \A c \in reqs[r].todo : c \in Nat
  <2>1. \A o \in Finished : o.host \in WorkerHosts /\ o.counter \in Nat
    BY BucketIs, PartsAssumption DEF Finished, WorkerTypeInv, WObject, Worker!Counter
  <2>2. ASSUME NEW h \in WorkerHosts, NEW r \in Worker!Writing(h), NEW c \in reqs[r].todo
        PROVE  c \in Nat
    BY <2>2, ActiveIs, PartsAssumption DEF Worker!Writing, Worker!Counter
  <2> QED BY <2>1, <2>2 DEF WorkerTypeInv
<1>1. ASSUME NEW h \in WorkerHosts, NEW c \in Nat, newest'[h] # 0, c >= newest[h], Sure(h, c)
      PROVE  Sure(h, c)'
  <2>1. PICK o \in Finished : o.host = h /\ o.counter >= c
    BY <1>1 DEF Sure
  <2>2. CASE \E p \in Finished' : p.host = o.host /\ p.counter = o.counter
    BY <2>1, <2>2 DEF Sure
  <2>3. CASE ~\E p \in Finished' : p.host = o.host /\ p.counter = o.counter
    <3>1. /\ o.host = n.host /\ o.counter = n.counter
          /\ \E r \in Worker!Writing(h) : o.counter \in reqs[r].todo
      BY <1>0, <1>1, <2>1, <2>3
    <3>2. newest[h] # 0 /\ o.counter >= newest[h]
      BY <1>0, <1>1, <2>1
    <3>3. Sure(h, o.counter + 1)
      BY <3>1, <3>2 DEF OutnumberedInv
    <3>4. PICK q \in Finished : q.host = h /\ q.counter >= o.counter + 1
      BY <3>3 DEF Sure
    <3>5. q.counter # n.counter /\ q.counter >= c
      BY <1>0, <2>1, <3>1, <3>4
    <3>6. \E p \in Finished' : p.host = q.host /\ p.counter = q.counter
      BY <3>5
    <3> QED BY <3>4, <3>5, <3>6 DEF Sure
  <2> QED BY <2>2, <2>3
<1>2. NewestInv'
  BY <1>0, <1>1 DEF NewestInv
<1>3. OutnumberedInv'
  <2> SUFFICES ASSUME NEW h \in WorkerHosts, NEW r \in Worker!Writing(h)', NEW c \in reqs'[r].todo,
                      newest'[h] # 0, c >= newest'[h]
               PROVE  Sure(h, c + 1)'
    BY DEF OutnumberedInv
  <2>1. newest'[h] = newest[h] /\ r \in Worker!Writing(h) /\ c \in reqs[r].todo /\ c \in Nat
    BY <1>0
  <2>2. Sure(h, c + 1)
    BY <2>1 DEF OutnumberedInv
  <2>3. c + 1 >= newest[h] /\ c + 1 \in Nat
    BY <1>0, <2>1
  <2> QED BY <1>1, <2>2, <2>3
<1> QED BY <1>2, <1>3

\* What is uploaded comes last in the listing.
LEMMA AppendIs ==
    ASSUME NEW s, IsBucket(s), NEW x \in WObject,
           \A o \in Contents(s) : Worker!NameOf(o) # Worker!NameOf(x)
    PROVE  /\ IsBucket(Append(s, x))
           /\ Contents(Append(s, x)) = Contents(s) \cup {x}
           /\ \A m : InListing(s, m) => InListing(Append(s, x), m)
<1> DEFINE t == Append(s, x)
<1>1. s \in Seq(WObject) /\ OneEach(s)
  BY DEF IsBucket
<1>2. /\ t \in Seq(WObject) /\ DOMAIN s = 1..Len(s) /\ Len(s) \in Nat
      /\ DOMAIN t = DOMAIN s \cup {Len(s) + 1} /\ t[Len(s) + 1] = x
      /\ \A j \in DOMAIN s : t[j] = s[j]
  BY <1>1
<1> HIDE DEF t
<1>3. OneEach(t)
  <2> SUFFICES ASSUME NEW i \in DOMAIN t, NEW j \in DOMAIN t,
                      Worker!NameOf(t[i]) = Worker!NameOf(t[j])
               PROVE  i = j
    BY DEF OneEach
  <2>1. CASE i \in DOMAIN s /\ j \in DOMAIN s
    BY <1>1, <1>2, <2>1 DEF OneEach
  <2>2. CASE i \in DOMAIN s /\ j \notin DOMAIN s
    BY <1>2, <2>2 DEF Contents
  <2>3. CASE i \notin DOMAIN s /\ j \in DOMAIN s
    BY <1>2, <2>3 DEF Contents
  <2>4. CASE i \notin DOMAIN s /\ j \notin DOMAIN s
    BY <1>2, <2>4
  <2> QED BY <2>1, <2>2, <2>3, <2>4
<1>4. Contents(t) = Contents(s) \cup {x}
  BY <1>2 DEF Contents
<1>5. ASSUME NEW m, InListing(s, m) PROVE InListing(t, m)
  <2>1. PICK i \in DOMAIN s : ListedAt(s, m, i)
    BY <1>5 DEF InListing
  <2>2. Early(t, i) = Early(s, i)
    <3>1. \A j \in DOMAIN t : j < i => j \in DOMAIN s
      BY <1>2
    <3> QED BY <1>2, <3>1 DEF Early
  <2>3. ListedAt(t, m, i)
    BY <1>2, <2>1, <2>2 DEF ListedAt
  <2> QED BY <1>2, <2>3 DEF InListing
<1> QED BY <1>2, <1>3, <1>4, <1>5 DEF IsBucket, t

\* What expires makes room in the listing.
LEMMA ExpiredIs ==
    ASSUME NEW s, IsBucket(s), NEW i \in DOMAIN s, ~s[i].expired
    PROVE  LET t == [s EXCEPT ![i].expired = TRUE]
           IN  /\ IsBucket(t)
               /\ Contents(t) = (Contents(s) \ {s[i]}) \cup {[s[i] EXCEPT !.expired = TRUE]}
               /\ \A m : m # Worker!NameOf(s[i]) /\ InListing(s, m) => InListing(t, m)
<1> DEFINE x == [s[i] EXCEPT !.expired = TRUE]
           t == [s EXCEPT ![i].expired = TRUE]
<1>1. s \in Seq(WObject) /\ OneEach(s)
  BY DEF IsBucket
<1>2. s[i] \in WObject /\ s[i] \in Contents(s)
  BY <1>1 DEF Contents
<1>3. x \in WObject /\ Worker!NameOf(x) = Worker!NameOf(s[i]) /\ x.expired
  BY <1>2 DEF WObject, Worker!NameOf
<1>4. t \in Seq(WObject) /\ DOMAIN t = DOMAIN s /\ t[i] = x /\ \A j \in DOMAIN s : j # i => t[j] = s[j]
  <2>1. t = [s EXCEPT ![i] = x]
    BY <1>1
  <2> HIDE DEF x, t
  <2>2. DOMAIN t = DOMAIN s /\ t[i] = x /\ \A j \in DOMAIN s : j # i => t[j] = s[j]
    BY <2>1
  <2>3. DOMAIN s = 1..Len(s) /\ Len(s) \in Nat /\ \A j \in DOMAIN s : s[j] \in WObject
    BY <1>1
  <2>4. t = [j \in 1..Len(s) |-> t[j]] /\ \A j \in 1..Len(s) : t[j] \in WObject
    BY <1>3, <2>1, <2>2, <2>3
  <2>5. t \in [1..Len(s) -> WObject]
    BY <2>4
  <2>6. t \in Seq(WObject)
    BY <2>3, <2>5, SeqDef
  <2> QED BY <2>2, <2>6
<1> HIDE DEF t, x
<1>5. OneEach(t)
  <2>1. \A j \in DOMAIN s : Worker!NameOf(t[j]) = Worker!NameOf(s[j])
    BY <1>3, <1>4
  <2> QED BY <1>1, <1>4, <2>1 DEF OneEach
<1>6. Contents(t) = (Contents(s) \ {s[i]}) \cup {x}
  <2>1. \A j \in DOMAIN s : j # i => s[j] # s[i]
    BY <1>1 DEF OneEach
  <2> QED BY <1>4, <2>1 DEF Contents
<1>7. ASSUME NEW m, m # Worker!NameOf(s[i]), InListing(s, m) PROVE InListing(t, m)
  <2>1. PICK j \in DOMAIN s : ListedAt(s, m, j)
    BY <1>7 DEF InListing
  <2>2. j # i
    BY <1>7, <2>1 DEF ListedAt
  <2>3. Early(t, j) \subseteq Early(s, j)
    BY <1>3, <1>4 DEF Early
  <2>4. /\ Cardinality(Early(t, j)) <= Cardinality(Early(s, j))
        /\ Cardinality(Early(t, j)) \in Nat /\ Cardinality(Early(s, j)) \in Nat
    BY <1>1, <1>4, <2>3, EarlyFinite, FS_Subset
  <2>5. ListedAt(t, m, j)
    BY <1>4, <2>1, <2>2, <2>4, PartsAssumption DEF ListedAt
  <2> QED BY <1>4, <2>5 DEF InListing
<1>8. IsBucket(t)
  BY <1>4, <1>5 DEF IsBucket
<1> QED BY <1>6, <1>7, <1>8, Zenon DEF t, x

\* A name that may be owed within the quota is in the listing.
LEMMA WithinQuotaListed ==
    ASSUME IsBucket(objects), ~Worker!OverQuota(Worker!Stored), NEW o \in Contents(objects), ~o.expired
    PROVE  InListing(objects, Worker!NameOf(o))
<1>1. PICK i \in DOMAIN objects : objects[i] = o
  BY DEF Contents
<1>2. IsFiniteSet(Contents(objects)) /\ Cardinality(Contents(objects)) <= WorkerBlobs
      /\ Cardinality(Contents(objects)) \in Nat
  <2>1. IsFiniteSet(Contents(objects)) /\ Cardinality(Contents(objects)) \in Nat
    BY BucketIs, FS_CardinalityType
  <2>2. ~(Cardinality(Contents(objects)) > WorkerBlobs)
    BY BucketIs, WorkerLibrary DEF Worker!OverQuota
  <2> QED BY <2>1, <2>2, PartsAssumption
<1>3. Early(objects, i) \subseteq Contents(objects) \ {o}
  BY <1>1 DEF Early, Contents, IsBucket, OneEach
<1>4. /\ Cardinality(Contents(objects) \ {o}) = Cardinality(Contents(objects)) - 1
      /\ IsFiniteSet(Contents(objects) \ {o})
  BY <1>2, FS_RemoveElement
<1>5. Cardinality(Early(objects, i)) < WorkerBlobs
  <2>1. /\ Cardinality(Early(objects, i)) <= Cardinality(Contents(objects) \ {o})
        /\ Cardinality(Early(objects, i)) \in Nat
    BY <1>3, <1>4, FS_Subset, FS_CardinalityType
  <2> QED BY <1>2, <1>4, <2>1, PartsAssumption
<1> QED BY <1>1, <1>5 DEF InListing, ListedAt

\* What is left to each kind of step once the bucket is known.
LEMMA WorkerStep ==
    ASSUME WorkerInv, WorkerTypeInv', ListedInv', NEW n,
           \A h \in WorkerHosts : Worker!Writing(h)' \subseteq Worker!Writing(h),
           \A h \in WorkerHosts : \A r \in Worker!Writing(h)' : reqs'[r].todo \subseteq reqs[r].todo,
           late' \subseteq late, owed' \subseteq owed,
           \/ QuotaInv'
           \/ cuts' = cuts /\ Finished' \subseteq Finished,
           \A h \in WorkerHosts : newest'[h] \in {0, newest[h]},
           \A o \in Finished : \/ \E p \in Finished' : p.host = o.host /\ p.counter = o.counter
                               \/ /\ o.host = n.host /\ o.counter = n.counter
                                  /\ \/ newest'[o.host] = 0
                                     \/ o.counter < newest[o.host]
                                     \/ \E r \in Worker!Writing(o.host) : o.counter \in reqs[r].todo
    PROVE  WorkerInv'
<1>1. SlotsInv'
  <2> SUFFICES ASSUME NEW h \in WorkerHosts PROVE Cardinality(Worker!Writing(h)') <= Overlap
    BY DEF SlotsInv
  <2>1. IsFiniteSet(Worker!Writing(h))
    BY PartsAssumption, FS_Subset DEF Worker!Writing
  <2>2. /\ Cardinality(Worker!Writing(h)') <= Cardinality(Worker!Writing(h))
        /\ Cardinality(Worker!Writing(h)') \in Nat /\ Cardinality(Worker!Writing(h)) \in Nat
    BY <2>1, FS_Subset, FS_CardinalityType
  <2>3. Cardinality(Worker!Writing(h)) <= Overlap
    BY DEF WorkerInv, SlotsInv
  <2> QED BY <2>2, <2>3, PartsAssumption
<1>2. QuotaInv'
  BY QuotaShrinks DEF WorkerInv
<1>3. ASSUME Overlap < WorkerKeep PROVE NewestInv' /\ OutnumberedInv'
  <2>1. NewestInv /\ OutnumberedInv /\ WorkerTypeInv
    BY <1>3 DEF WorkerInv
  <2>2. \A h \in WorkerHosts : \A r \in Worker!Writing(h)' :
              \A c \in reqs'[r].todo : r \in Worker!Writing(h) /\ c \in reqs[r].todo
    OBVIOUS
  <2> QED BY <2>1, <2>2, SureSurvives
<1>4. LateInv'
  <2>1. \A m \in late : m.host \in WorkerHosts
    BY DEF WorkerInv, WorkerTypeInv, Worker!Name
  <2> QED BY <2>1 DEF WorkerInv, LateInv
<1> QED BY <1>1, <1>2, <1>3, <1>4 DEF WorkerInv

\* The slot of a PUT, and what its steps leave of the others.
LEMMA PutGoesOn ==
    ASSUME WorkerTypeInv, NEW r \in Requests, reqs[r] # Worker!Idle,
           NEW pc \in {"write", "retain", "trim", "undo"}, NEW T \in SUBSET Worker!Counter,
           reqs' = [reqs EXCEPT ![r].pc = pc, ![r].todo = T]
    PROVE  /\ reqs' \in [Requests -> Worker!Request]
           /\ \A h \in WorkerHosts : Worker!Writing(h)' = Worker!Writing(h)
           /\ reqs'[r].todo = T /\ reqs'[r].pc = pc /\ reqs'[r] # Worker!Idle
           /\ reqs'[r].host = reqs[r].host /\ reqs'[r].counter = reqs[r].counter
           /\ \A q \in Requests \ {r} : reqs'[q] = reqs[q]
<1>1. reqs[r] \in [pc : {"write", "retain", "trim", "undo"}, host : WorkerHosts,
                   counter : Worker!Counter, size : WorkerSizes, todo : SUBSET Worker!Counter]
  BY ActiveIs
<1>2. reqs \in [Requests -> Worker!Request]
  BY DEF WorkerTypeInv
<1>3. reqs'[r] = [reqs[r] EXCEPT !.pc = pc, !.todo = T] /\ \A q \in Requests \ {r} : reqs'[q] = reqs[q]
  BY <1>2
<1>4. /\ reqs'[r] \in [pc : {"write", "retain", "trim", "undo"}, host : WorkerHosts,
                       counter : Worker!Counter, size : WorkerSizes, todo : SUBSET Worker!Counter]
      /\ reqs'[r].todo = T /\ reqs'[r].pc = pc
      /\ reqs'[r].host = reqs[r].host /\ reqs'[r].counter = reqs[r].counter
  <2> DEFINE old == reqs[r]
             new == [old EXCEPT !.pc = pc, !.todo = T]
  <2>1. old \in [pc : {"write", "retain", "trim", "undo"}, host : WorkerHosts,
                 counter : Worker!Counter, size : WorkerSizes, todo : SUBSET Worker!Counter]
    BY <1>1
  <2> HIDE DEF old
  <2>2. /\ new \in [pc : {"write", "retain", "trim", "undo"}, host : WorkerHosts,
                      counter : Worker!Counter, size : WorkerSizes, todo : SUBSET Worker!Counter]
        /\ new.todo = T /\ new.pc = pc /\ new.host = old.host /\ new.counter = old.counter
    BY <2>1
  <2> QED BY <1>3, <2>2, Zenon DEF old
<1>5. reqs' \in [Requests -> Worker!Request]
  BY <1>2, <1>3, <1>4 DEF Worker!Request
<1>6. reqs'[r] # Worker!Idle
  BY <1>4 DEF Worker!Idle
<1>7. \A h \in WorkerHosts : Worker!Writing(h)' = Worker!Writing(h)
  <2>1. reqs[r].pc # "idle" /\ reqs'[r].pc # "idle" /\ reqs'[r].host = reqs[r].host
    BY <1>1, <1>4
  <2>2. \A q \in Requests : /\ reqs'[q].pc # "idle" <=> reqs[q].pc # "idle"
                           /\ reqs'[q].host = reqs[q].host
    BY <1>3, <2>1
  <2> QED BY <2>2, Zenon DEF Worker!Writing
<1> QED BY <1>3, <1>4, <1>5, <1>6, <1>7

LEMMA PutEnds ==
    ASSUME WorkerTypeInv, NEW r \in Requests, reqs[r] # Worker!Idle,
           reqs' = [reqs EXCEPT ![r] = Worker!Idle]
    PROVE  /\ reqs' \in [Requests -> Worker!Request]
           /\ \A h \in WorkerHosts : Worker!Writing(h)' = Worker!Writing(h) \ {r}
           /\ reqs'[r].pc = "idle"
           /\ \A q \in Requests \ {r} : reqs'[q] = reqs[q]
<1>1. reqs \in [Requests -> Worker!Request]
  BY DEF WorkerTypeInv
<1>2. reqs'[r] = Worker!Idle /\ reqs'[r].pc = "idle" /\ \A q \in Requests \ {r} : reqs'[q] = reqs[q]
  BY <1>1 DEF Worker!Idle
<1>3. reqs' \in [Requests -> Worker!Request]
  BY <1>1, <1>2 DEF Worker!Request
<1>4. \A h \in WorkerHosts : Worker!Writing(h)' = Worker!Writing(h) \ {r}
  BY <1>2 DEF Worker!Writing
<1> QED BY <1>2, <1>3, <1>4

\* Goto keeps everything but the place of the PUT.
LEMMA GotoIs ==
    ASSUME WorkerTypeInv, NEW r \in Requests, reqs[r] # Worker!Idle,
           NEW pc \in {"write", "retain", "trim", "undo"}, Worker!Goto(r, pc)
    PROVE  /\ reqs' \in [Requests -> Worker!Request]
           /\ \A h \in WorkerHosts : Worker!Writing(h)' = Worker!Writing(h)
           /\ reqs'[r].todo = reqs[r].todo /\ reqs'[r].pc = pc
           /\ reqs'[r].host = reqs[r].host /\ reqs'[r].counter = reqs[r].counter
           /\ \A q \in Requests \ {r} : reqs'[q] = reqs[q]
<1> DEFINE T == reqs[r].todo
<1>1. reqs[r] \in [pc : {"write", "retain", "trim", "undo"}, host : WorkerHosts,
                   counter : Worker!Counter, size : WorkerSizes, todo : SUBSET Worker!Counter]
  BY ActiveIs
<1>2. reqs \in [Requests -> Worker!Request]
  BY DEF WorkerTypeInv
<1>3. [reqs[r] EXCEPT !.pc = pc] = [reqs[r] EXCEPT !.pc = pc, !.todo = T]
  BY <1>1
<1>4. T \in SUBSET Worker!Counter
  BY <1>1
<1> HIDE DEF T
<1>5. reqs' = [reqs EXCEPT ![r].pc = pc, ![r].todo = T]
  BY <1>2, <1>3 DEF Worker!Goto
<1>6. /\ reqs' \in [Requests -> Worker!Request]
      /\ \A h \in WorkerHosts : Worker!Writing(h)' = Worker!Writing(h)
      /\ reqs'[r].todo = T /\ reqs'[r].pc = pc
      /\ reqs'[r].host = reqs[r].host /\ reqs'[r].counter = reqs[r].counter
      /\ \A q \in Requests \ {r} : reqs'[q] = reqs[q]
  BY <1>4, <1>5, PutGoesOn
<1> QED BY <1>6 DEF T

\* Release lowers what is promised, for whatever was stored under the name.
LEMMA ReleaseIs ==
    ASSUME WorkerTypeInv, NEW n \in Worker!Name, Worker!Release(n)
    PROVE  /\ newest' \in [WorkerHosts -> Nat]
           /\ \A h \in WorkerHosts : newest'[h] \in {0, newest[h]}
           /\ n \in Worker!Names => newest'[n.host] = 0 \/ n.counter < newest[n.host]
           /\ owed' = owed \ {n}
<1>1. newest \in [WorkerHosts -> Nat] /\ n.host \in WorkerHosts /\ n.counter \in Nat
  BY PartsAssumption DEF WorkerTypeInv, Worker!Name, Worker!Counter
<1> QED BY <1>1 DEF Worker!Release

-----------------------------------------------------------------------------
(* Its steps.                                                               *)

LEMMA Removed ==
    ASSUME WorkerInv, NEW n, objects' = Worker!Without(n), owed' = owed \ {n}
    PROVE  /\ IsBucket(objects')
           /\ Contents(objects') = {o \in Contents(objects) : Worker!NameOf(o) # n}
           /\ ListedInv'
<1>1. IsBucket(objects) /\ ListedInv
  BY DEF WorkerInv, WorkerTypeInv
<1>2. /\ IsBucket(objects')
      /\ Contents(objects') = {o \in Contents(objects) : Worker!NameOf(o) # n}
      /\ \A m : m # n /\ InListing(objects, m) => InListing(objects', m)
  BY <1>1, WithoutIs
<1>3. ListedInv'
  BY <1>1, <1>2 DEF ListedInv
<1> QED BY <1>2, <1>3

LEMMA StartPutStep ==
    ASSUME WorkerInv, NEW r \in Requests, NEW n \in Worker!Name, NEW size \in WorkerSizes,
           Worker!StartPut(r, n, size)
    PROVE  WorkerInv'
<1> USE DEF Worker!StartPut
<1> DEFINE put == [pc |-> "write", host |-> n.host, counter |-> n.counter,
                   size |-> size, todo |-> {}]
<1>1. WorkerTypeInv /\ SlotsInv /\ ListedInv /\ QuotaInv /\ LateInv
  BY DEF WorkerInv
<1>2. put \in Worker!Request /\ put.pc = "write" /\ put.host = n.host /\ put.todo = {}
  BY DEF Worker!Request, Worker!Name
<1> HIDE DEF put
<1>3. reqs[r].pc = "idle" /\ reqs \in [Requests -> Worker!Request]
  BY <1>1, ActiveIs DEF WorkerTypeInv
<1>4. reqs' = [reqs EXCEPT ![r] = put]
  BY DEF put
<1>5. reqs'[r] = put /\ \A q \in Requests \ {r} : reqs'[q] = reqs[q]
  BY <1>3, <1>4
<1>6. WorkerTypeInv'
  BY <1>1, <1>2, <1>3, <1>4 DEF WorkerTypeInv
<1>7. Pending' = Pending
  BY <1>2, <1>3, <1>5 DEF Pending
<1>8. Finished' = Finished
  BY <1>7 DEF Finished
<1>9. \A h \in WorkerHosts : Worker!Writing(h)' =
         IF h = n.host THEN Worker!Writing(h) \cup {r} ELSE Worker!Writing(h)
  BY <1>2, <1>3, <1>5 DEF Worker!Writing
<1>10. SlotsInv'
  <2> SUFFICES ASSUME NEW h \in WorkerHosts PROVE Cardinality(Worker!Writing(h)') <= Overlap
    BY DEF SlotsInv
  <2>1. IsFiniteSet(Worker!Writing(h)) /\ r \notin Worker!Writing(h)
    BY <1>3, PartsAssumption, FS_Subset DEF Worker!Writing
  <2>2. /\ Cardinality(Worker!Writing(h)) \in Nat
        /\ Cardinality(Worker!Writing(h) \cup {r}) = Cardinality(Worker!Writing(h)) + 1
    BY <2>1, FS_CardinalityType, FS_AddElement
  <2>3. CASE h = n.host
    <3>1. Cardinality(Worker!Writing(h)) < Overlap
      BY <2>3, WorkerLibrary
    <3> QED BY <1>9, <2>2, <2>3, <3>1, PartsAssumption
  <2>4. CASE h # n.host
    BY <1>1, <1>9, <2>4 DEF SlotsInv
  <2> QED BY <2>3, <2>4
<1>11. ListedInv' /\ QuotaInv' /\ LateInv'
  BY <1>1, <1>8 DEF ListedInv, QuotaInv, LateInv, Worker!OverQuota
<1>12. ASSUME Overlap < WorkerKeep PROVE NewestInv' /\ OutnumberedInv'
  <2>1. NewestInv /\ OutnumberedInv
    BY <1>12 DEF WorkerInv
  <2>2. \A h \in WorkerHosts : \A q \in Worker!Writing(h)' : \A c \in reqs'[q].todo :
           q \in Worker!Writing(h) /\ c \in reqs[q].todo
    BY <1>2, <1>3, <1>5, <1>9 DEF Worker!Writing
  <2>3. \A h, c : Sure(h, c)' <=> Sure(h, c)
    BY <1>8 DEF Sure
  <2> QED BY <2>1, <2>2, <2>3 DEF NewestInv, OutnumberedInv
<1> QED BY <1>6, <1>10, <1>11, <1>12 DEF WorkerInv

LEMMA WriteStep ==
    ASSUME WorkerInv, NEW r \in Requests, Worker!Write(r)
    PROVE  WorkerInv'
<1> DEFINE n == Worker!NameOf(reqs[r])
           x == [host |-> n.host, counter |-> n.counter, size |-> reqs[r].size, expired |-> FALSE]
           rest == Worker!Without(n)
<1>1. WorkerTypeInv /\ ListedInv
  BY DEF WorkerInv
<1>2. reqs[r] \in [pc : {"write", "retain", "trim", "undo"}, host : WorkerHosts,
                   counter : Worker!Counter, size : WorkerSizes, todo : SUBSET Worker!Counter]
      /\ reqs[r] # Worker!Idle /\ reqs[r].pc = "write"
  BY <1>1, ActiveIs DEF Worker!Write
<1>3. n \in Worker!Name /\ x \in WObject /\ Worker!NameOf(x) = n
  BY <1>2 DEF Worker!Name, Worker!NameOf, WObject
<1>4. objects' = Append(rest, x) /\ Worker!Release(n) /\ Worker!Goto(r, "retain")
      /\ UNCHANGED <<late, cuts, sent>>
  BY DEF Worker!Write
<1> HIDE DEF n, x
<1>5. /\ IsBucket(rest)
      /\ Contents(rest) = {o \in Contents(objects) : Worker!NameOf(o) # n}
      /\ \A m : m # n /\ InListing(objects, m) => InListing(rest, m)
  BY <1>1, WithoutIs DEF WorkerTypeInv
<1> HIDE DEF rest
<1>6. /\ IsBucket(objects') /\ Contents(objects') = Contents(rest) \cup {x}
      /\ \A m : InListing(rest, m) => InListing(objects', m)
  BY <1>3, <1>4, <1>5, AppendIs
<1>7. /\ newest' \in [WorkerHosts -> Nat]
      /\ \A h \in WorkerHosts : newest'[h] \in {0, newest[h]}
      /\ n \in Worker!Names => newest'[n.host] = 0 \/ n.counter < newest[n.host]
      /\ owed' = owed \ {n}
  BY <1>1, <1>3, <1>4, ReleaseIs
<1>8. /\ reqs' \in [Requests -> Worker!Request]
      /\ \A h \in WorkerHosts : Worker!Writing(h)' = Worker!Writing(h)
      /\ reqs'[r].todo = reqs[r].todo /\ reqs'[r].pc = "retain"
      /\ reqs'[r].host = reqs[r].host /\ reqs'[r].counter = reqs[r].counter
      /\ \A q \in Requests \ {r} : reqs'[q] = reqs[q]
  BY <1>1, <1>2, <1>4, GotoIs
<1>9. WorkerTypeInv'
  BY <1>1, <1>4, <1>6, <1>7, <1>8 DEF WorkerTypeInv
<1>10. ListedInv'
  BY <1>1, <1>5, <1>6, <1>7 DEF ListedInv
<1>11. Pending' = Pending \cup {n}
  <2> DEFINE past(q) == q.pc \in {"retain", "trim", "undo"}
  <2>1. past(reqs'[r]) /\ ~past(reqs[r])
    BY <1>2, <1>8
  <2>2. Worker!NameOf(reqs'[r]) = n
    BY <1>8 DEF n, Worker!NameOf
  <2>3. \A q \in Requests : past(reqs'[q]) <=> past(reqs[q]) \/ q = r
    BY <1>8, <2>1
  <2> QED BY <1>8, <2>1, <2>2, <2>3 DEF Pending
<1>12. Finished' = {o \in Finished : Worker!NameOf(o) # n}
  BY <1>3, <1>5, <1>6, <1>11 DEF Finished
<1>13. \A o \in Finished : \/ o \in Finished'
                           \/ /\ o.host = n.host /\ o.counter = n.counter
                              /\ newest'[o.host] = 0 \/ o.counter < newest[o.host]
  <2>1. \A o \in Finished : Worker!NameOf(o) = n => n \in Worker!Names
    BY <1>1, BucketIs DEF Finished, WorkerTypeInv
  <2>2. \A o \in Finished : Worker!NameOf(o) = n => o.host = n.host /\ o.counter = n.counter
    BY DEF Worker!NameOf
  <2> QED BY <1>7, <1>12, <2>1, <2>2
<1>14. \A h \in WorkerHosts : \A q \in Worker!Writing(h)' : reqs'[q].todo \subseteq reqs[q].todo
  BY <1>8 DEF Worker!Writing
<1> QED BY <1>4, <1>7, <1>8, <1>9, <1>10, <1>12, <1>13, <1>14, WorkerStep

\* What retention drops is outnumbered by an object that is no PUT's to take back.
LEMMA BeyondIsOutnumbered ==
    ASSUME WorkerTypeInv, SlotsInv, Overlap < WorkerKeep, NEW h \in WorkerHosts,
           NEW c \in Worker!Beyond(h, WorkerKeep)
    PROVE  Sure(h, c + 1)
<1>1. /\ IsBucket(objects) /\ Worker!Stored = Contents(objects) /\ IsFiniteSet(Contents(objects))
      /\ \A o, p \in Contents(objects) : Worker!NameOf(o) = Worker!NameOf(p) => o = p
      /\ \A o \in Contents(objects) : o.counter \in Nat
  BY BucketIs, PartsAssumption DEF WorkerTypeInv, WObject, Worker!Counter
<1>2. PICK p \in Contents(objects) :
         p.host = h /\ p.counter = c /\ Cardinality(Worker!Newer(p)) >= WorkerKeep
  BY <1>1, WorkerLibrary DEF Worker!Beyond
<1> DEFINE newer == Worker!Newer(p)
           slot(o) == CHOOSE q \in Requests : reqs[q].pc # "idle" /\ Worker!NameOf(reqs[q]) = Worker!NameOf(o)
           f == [o \in newer |-> slot(o)]
<1>3. newer \subseteq Contents(objects) /\ \A o \in newer : o.host = h /\ o.counter > c
  BY <1>1, <1>2 DEF Worker!Newer
<1>4. \E o \in newer : Worker!NameOf(o) \notin Pending
  <2> SUFFICES ASSUME \A o \in newer : Worker!NameOf(o) \in Pending PROVE FALSE
    OBVIOUS
  <2>1. ASSUME NEW o \in newer
        PROVE  /\ slot(o) \in Requests /\ reqs[slot(o)].pc # "idle"
               /\ Worker!NameOf(reqs[slot(o)]) = Worker!NameOf(o)
    <3>1. \E q \in Requests : reqs[q].pc # "idle" /\ Worker!NameOf(reqs[q]) = Worker!NameOf(o)
      BY DEF Pending
    <3> QED BY <3>1
  <2> HIDE DEF slot, newer
  <2>2. \A o \in newer : slot(o) \in Worker!Writing(h)
    BY <1>3, <2>1 DEF Worker!Writing, Worker!NameOf
  <2>3. \A o, q \in newer : slot(o) = slot(q) => o = q
    BY <1>1, <1>3, <2>1
  <2>4. f \in Injection(newer, Worker!Writing(h))
    BY <2>2, <2>3 DEF Injection, IsInjective
  <2>5. IsFiniteSet(newer) /\ IsFiniteSet(Worker!Writing(h))
    BY <1>1, <1>3, FS_Subset, PartsAssumption DEF Worker!Writing
  <2> HIDE DEF f
  <2>6. Cardinality(newer) <= Cardinality(Worker!Writing(h))
    BY <2>4, <2>5, FS_Injection
  <2>7. Cardinality(newer) \in Nat /\ Cardinality(Worker!Writing(h)) \in Nat
    BY <2>5, FS_CardinalityType
  <2>8. Cardinality(Worker!Writing(h)) <= Overlap
    BY DEF SlotsInv
  <2> QED BY <1>2, <2>6, <2>7, <2>8, PartsAssumption DEF newer
<1>5. PICK o \in newer : Worker!NameOf(o) \notin Pending
  BY <1>4
<1>6. o \in Finished /\ o.host = h /\ o.counter >= c + 1
  BY <1>1, <1>2, <1>3, <1>5 DEF Finished
<1> QED BY <1>6 DEF Sure

LEMMA ListExtrasStep ==
    ASSUME WorkerInv, NEW r \in Requests, Worker!ListExtras(r)
    PROVE  WorkerInv'
<1> DEFINE extras == Worker!Beyond(reqs[r].host, WorkerKeep)
<1>1. WorkerTypeInv /\ SlotsInv /\ ListedInv /\ QuotaInv /\ LateInv
  BY DEF WorkerInv
<1>2. /\ reqs[r].host \in WorkerHosts /\ reqs[r] # Worker!Idle /\ reqs[r].pc = "retain"
  BY <1>1, ActiveIs DEF Worker!ListExtras
<1>3. extras \in SUBSET Worker!Counter
  BY <1>1, BucketIs DEF Worker!Beyond, WorkerTypeInv, WObject
<1>4. reqs' = [reqs EXCEPT ![r].pc = "trim", ![r].todo = extras]
      /\ UNCHANGED <<objects, late, cuts, sent, owed, newest>>
  BY DEF Worker!ListExtras
<1> HIDE DEF extras
<1>5. /\ reqs' \in [Requests -> Worker!Request]
      /\ \A h \in WorkerHosts : Worker!Writing(h)' = Worker!Writing(h)
      /\ reqs'[r].todo = extras /\ reqs'[r].pc = "trim"
      /\ reqs'[r].host = reqs[r].host /\ reqs'[r].counter = reqs[r].counter
      /\ \A q \in Requests \ {r} : reqs'[q] = reqs[q]
  <2>1. "trim" \in {"write", "retain", "trim", "undo"}
    OBVIOUS
  <2> QED BY <1>1, <1>2, <1>3, <1>4, <2>1, PutGoesOn
<1>6. WorkerTypeInv'
  BY <1>1, <1>4, <1>5 DEF WorkerTypeInv
<1>7. Pending' = Pending
  <2>1. \A q \in Requests : /\ Worker!NameOf(reqs'[q]) = Worker!NameOf(reqs[q])
                            /\ reqs'[q].pc \in {"retain", "trim", "undo"}
                                 <=> reqs[q].pc \in {"retain", "trim", "undo"}
    BY <1>2, <1>5 DEF Worker!NameOf
  <2> QED BY <2>1 DEF Pending
<1>8. Finished' = Finished
  BY <1>4, <1>7 DEF Finished
<1>9. SlotsInv' /\ ListedInv' /\ QuotaInv' /\ LateInv'
  BY <1>1, <1>4, <1>5, <1>8 DEF SlotsInv, ListedInv, QuotaInv, LateInv, Worker!OverQuota
<1>10. ASSUME Overlap < WorkerKeep PROVE NewestInv' /\ OutnumberedInv'
  <2>1. NewestInv /\ OutnumberedInv
    BY <1>10 DEF WorkerInv
  <2>2. \A h, c : Sure(h, c)' <=> Sure(h, c)
    BY <1>8 DEF Sure
  <2>3. NewestInv'
    BY <1>4, <2>1, <2>2 DEF NewestInv
  <2>4. ASSUME NEW h \in WorkerHosts, NEW q \in Worker!Writing(h)', NEW c \in reqs'[q].todo,
               newest'[h] # 0, c >= newest'[h]
        PROVE  Sure(h, c + 1)
    <3>1. CASE q = r
      <4>1. h = reqs[r].host /\ c \in Worker!Beyond(h, WorkerKeep)
        BY <1>5, <2>4, <3>1 DEF Worker!Writing, extras
      <4> QED BY <1>1, <1>10, <4>1, BeyondIsOutnumbered
    <3>2. CASE q # r
      <4>1. q \in Worker!Writing(h) /\ c \in reqs[q].todo
        BY <1>5, <2>4, <3>2 DEF Worker!Writing
      <4> QED BY <1>4, <2>1, <2>4, <4>1 DEF OutnumberedInv
    <3> QED BY <3>1, <3>2
  <2>5. OutnumberedInv'
    BY <2>2, <2>4 DEF OutnumberedInv
  <2> QED BY <2>3, <2>5
<1> QED BY <1>6, <1>9, <1>10 DEF WorkerInv

LEMMA GreatestOfSome ==
    ASSUME NEW S, IsFiniteSet(S), S # {}, \A x \in S : x \in Int
    PROVE  \E x \in S : \A y \in S : y <= x
<1> DEFINE good == {T \in SUBSET S : T # {} => \E x \in T : \A y \in T : y <= x}
<1>1. ASSUME NEW T \in SUBSET S, \A U \in SUBSET T : U # T => U \in good
      PROVE  T \in good
  <2> SUFFICES ASSUME T # {} PROVE \E x \in T : \A y \in T : y <= x
    OBVIOUS
  <2>1. PICK z \in T : TRUE
    OBVIOUS
  <2>2. CASE T = {z}
    BY <2>2
  <2>3. CASE T # {z}
    <3>0. T \ {z} \in good /\ T \ {z} # {}
      BY <1>1, <2>1, <2>3
    <3>1. PICK x \in T \ {z} : \A y \in T \ {z} : y <= x
      BY <3>0
    <3> QED BY <2>1, <3>1
  <2> QED BY <2>2, <2>3
<1>2. S \in good
  <2> HIDE DEF good
  <2> QED BY <1>1, SubsetInduction
<1> QED BY <1>2

LEMMA TrimStep ==
    ASSUME WorkerInv, NEW r \in Requests, Worker!Trim(r)
    PROVE  WorkerInv'
<1> DEFINE c == CHOOSE x \in reqs[r].todo : \A y \in reqs[r].todo : y <= x
           n == [host |-> reqs[r].host, counter |-> c]
<1>1. WorkerTypeInv
  BY DEF WorkerInv
<1>2. /\ reqs[r].host \in WorkerHosts /\ reqs[r] # Worker!Idle /\ reqs[r].pc = "trim"
      /\ reqs[r].todo \subseteq Worker!Counter /\ reqs[r].todo # {}
  BY <1>1, ActiveIs DEF Worker!Trim
<1>3. c \in reqs[r].todo
  <2>0. IsFiniteSet(reqs[r].todo)
    <3>1. IsFiniteSet(Worker!Counter)
      <4>1. 1 \in Int /\ WorkerCounter \in Int
        BY PartsAssumption
      <4> QED BY <4>1, FS_Interval DEF Worker!Counter
    <3> QED BY <1>2, <3>1, FS_Subset
  <2>1. \E x \in reqs[r].todo : \A y \in reqs[r].todo : y <= x
    <3>1. \A x \in reqs[r].todo : x \in Int
      BY <1>2, PartsAssumption DEF Worker!Counter
    <3> QED BY <1>2, <2>0, <3>1, GreatestOfSome
  <2> QED BY <2>1
<1>4. /\ objects' = Worker!Without(n) /\ owed' = owed \ {n}
      /\ reqs' = [reqs EXCEPT ![r].todo = reqs[r].todo \ {c}]
      /\ UNCHANGED <<late, cuts, sent, newest>>
  BY <1>1, <1>2 DEF Worker!Trim, WorkerTypeInv
<1>5. reqs' = [reqs EXCEPT ![r].pc = "trim", ![r].todo = reqs[r].todo \ {c}]
  <2> DEFINE T == reqs[r].todo \ {c}
  <2>1. reqs' = [reqs EXCEPT ![r].todo = T]
    BY <1>4
  <2> HIDE DEF T
  <2>2. [reqs[r] EXCEPT !.todo = T] = [reqs[r] EXCEPT !.pc = "trim", !.todo = T]
    BY <1>1, <1>2, ActiveIs
  <2>3. reqs' = [reqs EXCEPT ![r].pc = "trim", ![r].todo = T]
    BY <1>1, <2>1, <2>2 DEF WorkerTypeInv
  <2> QED BY <2>3 DEF T
<1> HIDE DEF c
<1>6. /\ reqs' \in [Requests -> Worker!Request]
      /\ \A h \in WorkerHosts : Worker!Writing(h)' = Worker!Writing(h)
      /\ reqs'[r].todo = reqs[r].todo \ {c} /\ reqs'[r].pc = "trim"
      /\ reqs'[r].host = reqs[r].host /\ reqs'[r].counter = reqs[r].counter
      /\ \A q \in Requests \ {r} : reqs'[q] = reqs[q]
  <2> DEFINE T == reqs[r].todo \ {c}
  <2>1. "trim" \in {"write", "retain", "trim", "undo"} /\ T \in SUBSET Worker!Counter
    BY <1>2
  <2>2. reqs' = [reqs EXCEPT ![r].pc = "trim", ![r].todo = T]
    BY <1>5
  <2> HIDE DEF T
  <2>3. /\ reqs' \in [Requests -> Worker!Request]
        /\ \A h \in WorkerHosts : Worker!Writing(h)' = Worker!Writing(h)
        /\ reqs'[r].todo = T /\ reqs'[r].pc = "trim"
        /\ reqs'[r].host = reqs[r].host /\ reqs'[r].counter = reqs[r].counter
        /\ \A q \in Requests \ {r} : reqs'[q] = reqs[q]
    BY <1>1, <1>2, <2>1, <2>2, PutGoesOn
  <2> QED BY <2>3 DEF T
<1> HIDE DEF n
<1>7. /\ IsBucket(objects')
      /\ Contents(objects') = {o \in Contents(objects) : Worker!NameOf(o) # n}
      /\ ListedInv'
  BY <1>4, Removed
<1>8. WorkerTypeInv'
  BY <1>1, <1>4, <1>6, <1>7 DEF WorkerTypeInv
<1>9. Pending' = Pending
  <2>1. \A q \in Requests : /\ Worker!NameOf(reqs'[q]) = Worker!NameOf(reqs[q])
                            /\ reqs'[q].pc \in {"retain", "trim", "undo"}
                                 <=> reqs[q].pc \in {"retain", "trim", "undo"}
    BY <1>2, <1>6 DEF Worker!NameOf
  <2> QED BY <2>1 DEF Pending
<1>10. Finished' = {o \in Finished : Worker!NameOf(o) # n}
  BY <1>7, <1>9 DEF Finished
<1>11. \A o \in Finished : \/ o \in Finished'
                           \/ /\ o.host = n.host /\ o.counter = n.counter
                              /\ \E q \in Worker!Writing(o.host) : o.counter \in reqs[q].todo
  <2>1. r \in Worker!Writing(n.host) /\ n.counter \in reqs[r].todo
    BY <1>2, <1>3 DEF n, Worker!Writing
  <2>2. \A o \in Finished : Worker!NameOf(o) = n => o.host = n.host /\ o.counter = n.counter
    BY DEF Worker!NameOf
  <2> QED BY <1>10, <2>1, <2>2
<1>12. \A h \in WorkerHosts : \A q \in Worker!Writing(h)' : reqs'[q].todo \subseteq reqs[q].todo
  BY <1>6 DEF Worker!Writing
<1> QED BY <1>4, <1>6, <1>7, <1>8, <1>10, <1>11, <1>12, WorkerStep

LEMMA AcceptStep ==
    ASSUME WorkerInv, NEW r \in Requests, Worker!Accept(r)
    PROVE  WorkerInv'
<1> DEFINE n == Worker!NameOf(reqs[r])
           due == n \in Worker!Names /\ Worker!Settled(r, n) /\ ~Worker!Threatened(n)
<1>1. WorkerTypeInv /\ SlotsInv /\ ListedInv /\ LateInv
  BY DEF WorkerInv
<1>2. /\ reqs[r].host \in WorkerHosts /\ reqs[r].counter \in Nat
      /\ reqs[r] # Worker!Idle /\ reqs[r].pc = "trim"
  BY <1>1, ActiveIs, PartsAssumption DEF Worker!Accept, Worker!Counter
<1>3. /\ ~Worker!OverQuota(Worker!Stored)
      /\ owed' = owed \cup {m \in {n} \ late : \E o \in Worker!Stored : Worker!NameOf(o) = m /\ ~o.expired}
      /\ newest' = IF due /\ n.counter > newest[n.host]
                   THEN [newest EXCEPT ![n.host] = n.counter] ELSE newest
      /\ reqs' = [reqs EXCEPT ![r] = Worker!Idle]
      /\ UNCHANGED <<objects, late, cuts, sent>>
  BY DEF Worker!Accept, Worker!Finish
<1>4. n.host \in WorkerHosts /\ n.counter \in Nat
  BY <1>2 DEF Worker!NameOf
<1> HIDE DEF n, due
<1>5. /\ IsBucket(objects) /\ Worker!Stored = Contents(objects) /\ IsFiniteSet(Contents(objects))
      /\ Contents(objects) \subseteq WObject
      /\ n \in Worker!Names => \E o \in Contents(objects) : Worker!NameOf(o) = n
  BY <1>1, BucketIs DEF WorkerTypeInv
<1>6. /\ reqs' \in [Requests -> Worker!Request]
      /\ \A h \in WorkerHosts : Worker!Writing(h)' = Worker!Writing(h) \ {r}
      /\ reqs'[r].pc = "idle"
      /\ \A q \in Requests \ {r} : reqs'[q] = reqs[q]
  BY <1>1, <1>2, <1>3, PutEnds
<1>7. WorkerTypeInv'
  BY <1>1, <1>2, <1>3, <1>4, <1>6 DEF WorkerTypeInv
<1>8. ListedInv'
  <2>1. ASSUME NEW m \in owed' PROVE InListing(objects, m)
    <3>1. CASE m \in owed
      BY <1>1, <3>1 DEF ListedInv
    <3>2. CASE m \notin owed
      <4>1. PICK o \in Contents(objects) : Worker!NameOf(o) = m /\ ~o.expired
        BY <1>3, <1>5, <3>2
      <4> QED BY <1>3, <1>5, <4>1, WithinQuotaListed
    <3> QED BY <3>1, <3>2
  <2> QED BY <1>3, <2>1 DEF ListedInv
<1>9. Finished' \subseteq Contents(objects) /\ Finished \subseteq Finished'
  <2>1. Pending' \subseteq Pending
    BY <1>6 DEF Pending
  <2> QED BY <1>3, <2>1 DEF Finished
<1>10. QuotaInv'
  <2>1. ~Worker!OverQuota(Finished')
    BY <1>3, <1>5, <1>9, QuotaMonotone
  <2> QED BY <2>1 DEF QuotaInv, Worker!OverQuota
<1>11. SlotsInv'
  <2> SUFFICES ASSUME NEW h \in WorkerHosts PROVE Cardinality(Worker!Writing(h)') <= Overlap
    BY DEF SlotsInv
  <2>1. IsFiniteSet(Worker!Writing(h))
    BY PartsAssumption, FS_Subset DEF Worker!Writing
  <2>2. /\ Cardinality(Worker!Writing(h)') <= Cardinality(Worker!Writing(h))
        /\ Cardinality(Worker!Writing(h)') \in Nat /\ Cardinality(Worker!Writing(h)) \in Nat
    BY <1>6, <2>1, FS_Subset, FS_CardinalityType
  <2>3. Cardinality(Worker!Writing(h)) <= Overlap
    BY <1>1 DEF SlotsInv
  <2> QED BY <2>2, <2>3, PartsAssumption
<1>12. ASSUME Overlap < WorkerKeep PROVE NewestInv' /\ OutnumberedInv'
  <2>1. NewestInv /\ OutnumberedInv
    BY <1>12 DEF WorkerInv
  <2>2. \A h, c : Sure(h, c) => Sure(h, c)'
    BY <1>9 DEF Sure
  <2>3. \A h \in WorkerHosts : \A q \in Worker!Writing(h)' :
           q # r /\ q \in Worker!Writing(h) /\ reqs'[q] = reqs[q]
    BY <1>6 DEF Worker!Writing
  <2>4. CASE newest' = newest
    BY <2>1, <2>2, <2>3, <2>4 DEF NewestInv, OutnumberedInv
  <2>5. CASE due /\ newest' = [newest EXCEPT ![n.host] = n.counter]
    <3>1. \A h \in WorkerHosts : newest'[h] = IF h = n.host THEN n.counter ELSE newest[h]
      BY <1>1, <2>5 DEF WorkerTypeInv
    <3>2. n \notin Pending'
      <4>1. \A q \in Worker!Writing(n.host) \ {r} : reqs[q].counter # n.counter
        BY <2>5 DEF due, Worker!Settled
      <4>2. ASSUME NEW q \in Requests, reqs'[q].pc \in {"retain", "trim", "undo"},
                   n = Worker!NameOf(reqs'[q])
            PROVE  FALSE
        <5>1. q # r
          BY <1>6, <4>2
        <5>2. n.host = reqs[q].host /\ n.counter = reqs[q].counter
          BY <1>6, <4>2, <5>1 DEF Worker!NameOf
        <5>3. q \in Worker!Writing(n.host)
          BY <1>6, <4>2, <5>1, <5>2 DEF Worker!Writing
        <5> QED BY <4>1, <5>1, <5>2, <5>3
      <4> QED BY <4>2 DEF Pending
    <3>3. \A h, c : h = n.host /\ c = n.counter => Sure(h, c)'
      <4>1. PICK o \in Contents(objects) : Worker!NameOf(o) = n
        BY <1>5, <2>5 DEF due
      <4>2. o \in Finished' /\ o.host = n.host /\ o.counter = n.counter
        BY <1>3, <3>2, <4>1 DEF Finished, Worker!NameOf
      <4>3. o.counter >= n.counter
        BY <1>4, <4>2
      <4> QED BY <4>2, <4>3 DEF Sure
    <3>4. NewestInv'
      BY <2>1, <2>2, <3>1, <3>3 DEF NewestInv
    <3>5. ASSUME NEW h \in WorkerHosts, NEW q \in Worker!Writing(h)', NEW c \in reqs'[q].todo,
                 newest'[h] # 0, c >= newest'[h]
          PROVE  Sure(h, c + 1)'
      <4>1. CASE h = n.host
        <5>1. c < n.counter
          BY <2>3, <2>5, <3>5, <4>1 DEF due, Worker!Settled
        <5>2. c \in Nat
          BY <1>1, <2>3, <3>5, ActiveIs, PartsAssumption DEF Worker!Writing, Worker!Counter
        <5> QED BY <1>2, <1>4, <3>1, <3>5, <4>1, <5>1, <5>2
      <4>2. CASE h # n.host
        BY <2>1, <2>2, <2>3, <3>1, <3>5, <4>2 DEF OutnumberedInv
      <4> QED BY <4>1, <4>2
    <3> QED BY <3>4, <3>5 DEF OutnumberedInv
  <2> QED BY <1>3, <2>4, <2>5
<1>13. LateInv'
  <2>1. late' = late /\ owed' \subseteq owed \cup ({n} \ late)
    BY <1>3
  <2>2. ASSUME NEW m \in late, newest'[m.host] # 0 PROVE m.counter < newest'[m.host]
    <3>1. m.host \in WorkerHosts
      BY <1>1 DEF WorkerTypeInv, Worker!Name
    <3>2. CASE newest' = newest
      BY <1>1, <2>2, <3>2 DEF LateInv
    <3>3. CASE due /\ newest' = [newest EXCEPT ![n.host] = n.counter]
      <4>1. CASE m.host = n.host
        <5>1. newest'[m.host] = n.counter
          BY <1>1, <3>1, <3>3, <4>1 DEF WorkerTypeInv
        <5>2. ~(m.counter >= n.counter) /\ m.counter \in Nat
          BY <1>1, <3>3, <4>1, PartsAssumption
             DEF due, Worker!Threatened, WorkerTypeInv, Worker!Name, Worker!Counter
        <5> QED BY <1>4, <5>1, <5>2
      <4>2. CASE m.host # n.host
        <5>1. newest'[m.host] = newest[m.host]
          BY <1>1, <3>1, <3>3, <4>2 DEF WorkerTypeInv
        <5> QED BY <1>1, <2>2, <5>1 DEF LateInv
      <4> QED BY <4>1, <4>2
    <3> QED BY <1>3, <3>2, <3>3
  <2>3. late' \cap owed' = {}
    BY <1>1, <2>1 DEF LateInv
  <2> QED BY <2>1, <2>2, <2>3 DEF LateInv
<1> QED BY <1>7, <1>8, <1>10, <1>11, <1>12, <1>13 DEF WorkerInv

LEMMA OverLimitStep ==
    ASSUME WorkerInv, NEW r \in Requests, Worker!OverLimit(r)
    PROVE  WorkerInv'
<1>1. WorkerTypeInv /\ ListedInv
  BY DEF WorkerInv
<1>2. reqs[r] # Worker!Idle /\ reqs[r].pc = "trim" /\ reqs[r].host \in WorkerHosts
  BY <1>1, ActiveIs DEF Worker!OverLimit
<1>3. Worker!Goto(r, "undo") /\ UNCHANGED <<objects, late, cuts, sent, owed, newest>>
  BY DEF Worker!OverLimit
<1>4. /\ reqs' \in [Requests -> Worker!Request]
      /\ \A h \in WorkerHosts : Worker!Writing(h)' = Worker!Writing(h)
      /\ reqs'[r].todo = reqs[r].todo /\ reqs'[r].pc = "undo"
      /\ reqs'[r].host = reqs[r].host /\ reqs'[r].counter = reqs[r].counter
      /\ \A q \in Requests \ {r} : reqs'[q] = reqs[q]
  BY <1>1, <1>2, <1>3, GotoIs
<1>5. WorkerTypeInv' /\ ListedInv'
  BY <1>1, <1>3, <1>4 DEF WorkerTypeInv, ListedInv
<1>6. Pending' = Pending
  <2>1. \A q \in Requests : /\ Worker!NameOf(reqs'[q]) = Worker!NameOf(reqs[q])
                            /\ reqs'[q].pc \in {"retain", "trim", "undo"}
                                 <=> reqs[q].pc \in {"retain", "trim", "undo"}
    BY <1>2, <1>4 DEF Worker!NameOf
  <2> QED BY <2>1 DEF Pending
<1>7. Finished' = Finished
  BY <1>3, <1>6 DEF Finished
<1>8. \A h \in WorkerHosts : \A q \in Worker!Writing(h)' : reqs'[q].todo \subseteq reqs[q].todo
  BY <1>4 DEF Worker!Writing
<1> QED BY <1>3, <1>4, <1>5, <1>7, <1>8, WorkerStep

LEMMA TakeBackStep ==
    ASSUME WorkerInv, NEW r \in Requests, Worker!TakeBack(r)
    PROVE  WorkerInv'
<1> DEFINE n == Worker!NameOf(reqs[r])
<1>1. WorkerTypeInv
  BY DEF WorkerInv
<1>2. reqs[r] # Worker!Idle /\ reqs[r].pc = "undo"
  BY <1>1, ActiveIs DEF Worker!TakeBack
<1>3. /\ objects' = Worker!Without(n) /\ owed' = owed \ {n}
      /\ reqs' = [reqs EXCEPT ![r] = Worker!Idle] /\ UNCHANGED <<late, cuts, sent, newest>>
  BY DEF Worker!TakeBack, Worker!Finish
<1>4. n \in Pending
  BY <1>2 DEF Pending
<1>5. Pending' \cup {n} = Pending
  <2>1. \A q \in Requests : q # r => reqs'[q] = reqs[q]
    BY <1>1, <1>3 DEF WorkerTypeInv
  <2>2. reqs'[r].pc = "idle"
    BY <1>1, <1>2, <1>3, PutEnds
  <2> QED BY <1>4, <2>1, <2>2 DEF Pending
<1> HIDE DEF n
<1>6. /\ reqs' \in [Requests -> Worker!Request]
      /\ \A h \in WorkerHosts : Worker!Writing(h)' = Worker!Writing(h) \ {r}
      /\ reqs'[r].pc = "idle"
      /\ \A q \in Requests \ {r} : reqs'[q] = reqs[q]
  BY <1>1, <1>2, <1>3, PutEnds
<1>7. /\ IsBucket(objects')
      /\ Contents(objects') = {o \in Contents(objects) : Worker!NameOf(o) # n}
      /\ ListedInv'
  BY <1>3, Removed
<1>8. WorkerTypeInv'
  BY <1>1, <1>3, <1>6, <1>7 DEF WorkerTypeInv
<1>9. Finished' = Finished
  BY <1>4, <1>5, <1>7 DEF Finished
<1>10. \A h \in WorkerHosts : \A q \in Worker!Writing(h)' : reqs'[q].todo \subseteq reqs[q].todo
  BY <1>6 DEF Worker!Writing
<1> QED BY <1>3, <1>6, <1>7, <1>8, <1>9, <1>10, WorkerStep

LEMMA CutStep ==
    ASSUME WorkerInv, NEW r \in Requests, Worker!Cut(r)
    PROVE  WorkerInv'
<1>1. WorkerTypeInv /\ ListedInv
  BY DEF WorkerInv
<1>2. /\ reqs[r] # Worker!Idle /\ reqs' = [reqs EXCEPT ![r] = Worker!Idle]
      /\ cuts' = cuts + 1 /\ UNCHANGED <<objects, late, sent, owed, newest>>
  BY DEF Worker!Cut, Worker!Finish
<1>3. /\ reqs' \in [Requests -> Worker!Request]
      /\ \A h \in WorkerHosts : Worker!Writing(h)' = Worker!Writing(h) \ {r}
      /\ reqs'[r].pc = "idle"
      /\ \A q \in Requests \ {r} : reqs'[q] = reqs[q]
  BY <1>1, <1>2, PutEnds
<1>4. WorkerTypeInv' /\ ListedInv'
  BY <1>1, <1>2, <1>3 DEF WorkerTypeInv, ListedInv
<1>5. QuotaInv'
  BY <1>1, <1>2 DEF WorkerTypeInv, QuotaInv
<1>6. Finished \subseteq Finished'
  <2>1. Pending' \subseteq Pending
    BY <1>3 DEF Pending
  <2> QED BY <1>2, <2>1 DEF Finished
<1>7. \A h \in WorkerHosts : \A q \in Worker!Writing(h)' : reqs'[q].todo \subseteq reqs[q].todo
  BY <1>3 DEF Worker!Writing
<1> QED BY <1>2, <1>3, <1>4, <1>5, <1>6, <1>7, WorkerStep

\* What a deletion takes away is owed no longer, or was not owed.
LEMMA DroppedStep ==
    ASSUME WorkerInv, NEW n \in Worker!Name, objects' = Worker!Without(n), owed' = owed \ {n},
           newest' \in [WorkerHosts -> Nat],
           \A h \in WorkerHosts : newest'[h] \in {0, newest[h]},
           n \in Worker!Names => newest'[n.host] = 0 \/ n.counter < newest[n.host],
           UNCHANGED <<reqs, cuts, sent>>, late' \subseteq late
    PROVE  WorkerInv'
<1>1. WorkerTypeInv
  BY DEF WorkerInv
<1>3. /\ IsBucket(objects')
      /\ Contents(objects') = {o \in Contents(objects) : Worker!NameOf(o) # n}
      /\ ListedInv'
  BY Removed
<1>4. WorkerTypeInv'
  BY <1>1, <1>3 DEF WorkerTypeInv
<1>5. Finished' = {o \in Finished : Worker!NameOf(o) # n}
  BY <1>3 DEF Finished, Pending
<1>6. \A o \in Finished : \/ o \in Finished'
                          \/ /\ o.host = n.host /\ o.counter = n.counter
                             /\ newest'[o.host] = 0 \/ o.counter < newest[o.host]
  <2>1. \A o \in Finished : Worker!NameOf(o) = n => n \in Worker!Names
    BY <1>1, BucketIs DEF Finished, WorkerTypeInv
  <2>2. \A o \in Finished : Worker!NameOf(o) = n => o.host = n.host /\ o.counter = n.counter
    BY DEF Worker!NameOf
  <2> QED BY <1>5, <2>1, <2>2
<1>7. \A h \in WorkerHosts : Worker!Writing(h)' = Worker!Writing(h)
  BY DEF Worker!Writing
<1> QED BY <1>3, <1>4, <1>5, <1>6, <1>7, WorkerStep

\* forgetKeys.
LEMMA ForgetStep ==
    ASSUME WorkerInv, NEW n \in late, Worker!Forget(n)
    PROVE  WorkerInv'
<1>1. WorkerTypeInv /\ LateInv
  BY DEF WorkerInv
<1>2. n \in Worker!Name
  BY <1>1 DEF WorkerTypeInv
<1>3. /\ objects' = Worker!Without(n) /\ late' \subseteq late
      /\ UNCHANGED <<reqs, cuts, sent, owed, newest>>
  BY DEF Worker!Forget
<1>4. owed' = owed \ {n} /\ (newest[n.host] = 0 \/ n.counter < newest[n.host])
  BY <1>1, <1>3 DEF LateInv
<1>5. newest' \in [WorkerHosts -> Nat] /\ \A h \in WorkerHosts : newest'[h] \in {0, newest[h]}
  BY <1>1, <1>3 DEF WorkerTypeInv
<1> QED BY <1>2, <1>3, <1>4, <1>5, DroppedStep

\* LIST and GET read what has expired, and hand its deletion over.
LEMMA FindExpiredStep ==
    ASSUME WorkerInv, NEW S \in SUBSET Worker!Stored, Worker!FindExpired(S)
    PROVE  WorkerInv'
<1>1. WorkerTypeInv /\ ListedInv /\ LateInv
  BY DEF WorkerInv
<1>2. /\ S \subseteq WObject /\ S \subseteq Contents(objects)
      /\ \A o, p \in Contents(objects) : Worker!NameOf(o) = Worker!NameOf(p) => o = p
  BY <1>1, BucketIs DEF WorkerTypeInv
<1>3. /\ \A o \in S : o.expired
      /\ late' = late \cup {Worker!NameOf(o) : o \in S}
      /\ newest' = [h \in WorkerHosts |->
                      IF \E o \in S : o.expired /\ o.host = h /\ o.counter >= newest[h]
                      THEN 0 ELSE newest[h]]
      /\ UNCHANGED <<objects, reqs, cuts, sent, owed>>
  BY DEF Worker!FindExpired, Worker!Aged
<1>4. /\ newest' \in [WorkerHosts -> Nat]
      /\ \A h \in WorkerHosts : newest'[h] \in {0, newest[h]}
      /\ \A o \in S : newest'[o.host] # 0 => o.counter < newest'[o.host]
  <2>1. \A o \in S : o.host \in WorkerHosts /\ o.counter \in Nat
    BY <1>2, PartsAssumption DEF WObject, Worker!Counter
  <2>2. newest \in [WorkerHosts -> Nat]
    BY <1>1 DEF WorkerTypeInv
  <2> QED BY <1>3, <2>1, <2>2
<1>5. \A o \in S : Worker!NameOf(o) \in Worker!Name
  BY <1>2 DEF WObject, Worker!Name, Worker!NameOf
<1>6. WorkerTypeInv' /\ ListedInv'
  BY <1>1, <1>3, <1>4, <1>5 DEF WorkerTypeInv, ListedInv
<1>7. LateInv'
  <2>1. ASSUME NEW o \in S PROVE Worker!NameOf(o) \notin owed
    <3>1. SUFFICES ASSUME Worker!NameOf(o) \in owed PROVE FALSE
      OBVIOUS
    <3>2. PICK i \in DOMAIN objects : ListedAt(objects, Worker!NameOf(o), i)
      BY <1>1, <3>1 DEF ListedInv, InListing
    <3>3. objects[i] \in Contents(objects) /\ ~objects[i].expired
          /\ Worker!NameOf(objects[i]) = Worker!NameOf(o)
      BY <3>2 DEF ListedAt, Contents
    <3>4. objects[i] = o
      BY <1>2, <3>3
    <3> QED BY <1>3, <3>3, <3>4
  <2>2. ASSUME NEW m \in late', newest'[m.host] # 0 PROVE m.counter < newest'[m.host]
    <3>1. CASE m \in late
      <4>1. m.host \in WorkerHosts
        BY <1>1, <3>1 DEF WorkerTypeInv, Worker!Name
      <4> QED BY <1>1, <1>4, <2>2, <3>1, <4>1 DEF LateInv
    <3>2. CASE m \notin late
      <4>1. PICK o \in S : m = Worker!NameOf(o)
        BY <1>3, <3>2
      <4>2. m.host = o.host /\ m.counter = o.counter
        BY <4>1 DEF Worker!NameOf
      <4> QED BY <1>4, <2>2, <4>2
    <3> QED BY <3>1, <3>2
  <2>3. late' \cap owed' = {}
    BY <1>1, <1>3, <2>1 DEF LateInv
  <2> QED BY <2>2, <2>3 DEF LateInv
<1>8. SlotsInv' /\ QuotaInv'
  BY <1>3 DEF WorkerInv, SlotsInv, QuotaInv, Finished, Pending, Worker!Writing, Worker!OverQuota
<1>9. ASSUME Overlap < WorkerKeep PROVE NewestInv' /\ OutnumberedInv'
  <2>1. NewestInv /\ OutnumberedInv
    BY <1>9 DEF WorkerInv
  <2>2. \A h, c : Sure(h, c)' <=> Sure(h, c)
    BY <1>3 DEF Sure, Finished, Pending
  <2>3. \A h : Worker!Writing(h)' = Worker!Writing(h)
    BY <1>3 DEF Worker!Writing
  <2>4. NewestInv'
    BY <1>4, <2>1, <2>2 DEF NewestInv
  <2>5. OutnumberedInv'
    BY <1>3, <1>4, <2>1, <2>2, <2>3 DEF OutnumberedInv
  <2> QED BY <2>4, <2>5
<1> QED BY <1>6, <1>7, <1>8, <1>9 DEF WorkerInv

LEMMA ExpireStep ==
    ASSUME WorkerInv, NEW i \in 1..Len(objects), Worker!Expire(i)
    PROVE  WorkerInv'
<1> DEFINE o == objects[i]
           x == [o EXCEPT !.expired = TRUE]
<1>1. WorkerTypeInv /\ ListedInv /\ QuotaInv
  BY DEF WorkerInv
<1>2. i \in DOMAIN objects
  BY <1>1 DEF WorkerTypeInv, IsBucket
<1>3. /\ objects' = [objects EXCEPT ![i].expired = TRUE] /\ ~objects[i].expired
      /\ owed' = owed \ {Worker!NameOf(o)} /\ UNCHANGED <<reqs, late, cuts, sent, newest>>
  BY DEF Worker!Expire
<1>4. /\ IsBucket(objects')
      /\ Contents(objects') = (Contents(objects) \ {o}) \cup {x}
      /\ \A m : m # Worker!NameOf(o) /\ InListing(objects, m) => InListing(objects', m)
  BY <1>1, <1>2, <1>3, ExpiredIs, Zenon DEF WorkerTypeInv
<1>5. WorkerTypeInv' /\ ListedInv'
  BY <1>1, <1>3, <1>4 DEF WorkerTypeInv, ListedInv
<1>6. /\ o \in Contents(objects) /\ Contents(objects) \subseteq WObject
      /\ IsFiniteSet(Contents(objects))
      /\ \A p \in Contents(objects) : Worker!NameOf(p) = Worker!NameOf(o) => p = o
  BY <1>1, <1>2, BucketIs DEF WorkerTypeInv, Contents
<1>7. /\ x \in WObject /\ x.size = o.size /\ x.host = o.host /\ x.counter = o.counter
      /\ Worker!NameOf(x) = Worker!NameOf(o) /\ x.expired
  <2>1. o \in WObject
    BY <1>6
  <2> HIDE DEF o
  <2> QED BY <2>1 DEF WObject, Worker!NameOf
<1> HIDE DEF o, x
<1>8. Pending' = Pending
  BY <1>3 DEF Pending
<1>9. Finished' = IF o \in Finished THEN (Finished \ {o}) \cup {x} ELSE Finished
  BY <1>4, <1>6, <1>7, <1>8 DEF Finished
<1>10. QuotaInv'
  <2>1. CASE o \notin Finished
    BY <1>1, <1>3, <1>9, <2>1 DEF QuotaInv, Worker!OverQuota
  <2>2. CASE o \in Finished
    <3>1. Finished \in SUBSET WObject /\ IsFiniteSet(Finished)
      BY <1>6, FS_Subset DEF Finished
    <3>2. x \notin Finished
      <4>1. ~o.expired
        BY <1>3 DEF o
      <4>2. x \in Contents(objects) => x = o
        BY <1>6, <1>7
      <4> QED BY <1>7, <4>1, <4>2 DEF Finished
    <3>3. cuts = 0 => ~Worker!OverQuota((Finished \ {o}) \cup {x})
      BY <1>1, <1>7, <2>2, <3>1, <3>2, QuotaReplaced DEF QuotaInv
    <3> QED BY <1>3, <1>9, <2>2, <3>3 DEF QuotaInv, Worker!OverQuota
  <2> QED BY <2>1, <2>2
<1>11. \A p \in Finished : \E q \in Finished' : q.host = p.host /\ q.counter = p.counter
  BY <1>7, <1>9
<1>12. \A h \in WorkerHosts : Worker!Writing(h)' = Worker!Writing(h)
  BY <1>3 DEF Worker!Writing
<1> QED BY <1>3, <1>5, <1>10, <1>11, <1>12, WorkerStep

LEMMA WorkerInit == Worker!Init => WorkerInv
<1> SUFFICES ASSUME Worker!Init PROVE WorkerInv
  OBVIOUS
<1> USE DEF Worker!Init
<1>1. WorkerTypeInv
  <2>1. IsBucket(<<>>)
    BY DEF IsBucket, OneEach
  <2>2. reqs \in [Requests -> Worker!Request]
    BY DEF Worker!Request
  <2> QED BY <2>1, <2>2 DEF WorkerTypeInv
<1>2. \A r \in Requests : reqs[r].pc = "idle"
  BY DEF Worker!Idle
<1>3. Finished = {}
  BY DEF Finished, Contents
<1>4. SlotsInv
  <2> SUFFICES ASSUME NEW h \in WorkerHosts PROVE Cardinality(Worker!Writing(h)) <= Overlap
    BY DEF SlotsInv
  <2>1. Worker!Writing(h) = {}
    BY <1>2 DEF Worker!Writing
  <2>2. Overlap \in Nat
    BY PartsAssumption
  <2> QED BY <2>1, <2>2, FS_EmptySet
<1>5. QuotaInv
  <2>1. Bytes({}) = 0 /\ Cardinality({}) = 0
    BY FS_EmptySet, BytesOf
  <2>2. WorkerBlobs \in Nat /\ WorkerBytes \in Nat
    BY PartsAssumption
  <2> QED BY <1>3, <2>1, <2>2, WorkerLibrary DEF QuotaInv, Worker!OverQuota
<1>6. ListedInv /\ NewestInv /\ LateInv
  BY DEF ListedInv, NewestInv, LateInv
<1>7. OutnumberedInv
  BY <1>2 DEF OutnumberedInv, Worker!Writing
<1> QED BY <1>1, <1>4, <1>5, <1>6, <1>7 DEF WorkerInv

LEMMA WorkerNext == WorkerInv /\ [Worker!Next]_(Worker!vars) => WorkerInv'
<1> SUFFICES ASSUME WorkerInv, [Worker!Next]_(Worker!vars) PROVE WorkerInv'
  OBVIOUS
<1>0. WorkerTypeInv
  BY DEF WorkerInv
<1>1. CASE UNCHANGED Worker!vars
  BY <1>1 DEF Worker!vars, WorkerInv, WorkerTypeInv, SlotsInv, ListedInv, QuotaInv, LateInv, NewestInv,
              OutnumberedInv, Finished, Pending, Sure, Worker!Writing, Worker!OverQuota
<1>2. ASSUME NEW r \in Requests, NEW n \in Worker!Name, NEW size \in WorkerSizes,
             Worker!StartPut(r, n, size)
      PROVE  WorkerInv'
  BY <1>2, StartPutStep
<1>3. ASSUME NEW r \in Requests,
             \/ Worker!Write(r) \/ Worker!ListExtras(r) \/ Worker!Trim(r)
             \/ Worker!Accept(r) \/ Worker!OverLimit(r) \/ Worker!TakeBack(r) \/ Worker!Cut(r)
      PROVE  WorkerInv'
  BY <1>3, WriteStep, ListExtrasStep, TrimStep, AcceptStep, OverLimitStep, TakeBackStep, CutStep
<1>4. ASSUME UNCHANGED <<objects, reqs, cuts, sent, owed, newest>>, late' \subseteq late
      PROVE  WorkerInv'
  BY <1>4 DEF WorkerInv, WorkerTypeInv, SlotsInv, ListedInv, QuotaInv, LateInv, NewestInv,
              OutnumberedInv, Finished, Pending, Sure, Worker!Writing, Worker!OverQuota
<1>5. ASSUME NEW S \in SUBSET Worker!Stored, Worker!FindExpired(S) PROVE WorkerInv'
  BY <1>5, FindExpiredStep
<1>6. CASE Worker!List
  BY <1>5, <1>6 DEF Worker!List
<1>7. ASSUME NEW o \in Worker!Stored, Worker!Get(o) \/ Worker!Delete(o) PROVE WorkerInv'
  <2>1. CASE Worker!Get(o)
    BY <1>5, <2>1 DEF Worker!Get
  <2>2. CASE Worker!Delete(o)
    <3>1. Worker!NameOf(o) \in Worker!Name
      BY <1>0, BucketIs DEF WorkerTypeInv, WObject, Worker!Name, Worker!NameOf
    <3>2. /\ newest' \in [WorkerHosts -> Nat] /\ owed' = owed \ {Worker!NameOf(o)}
          /\ \A h \in WorkerHosts : newest'[h] \in {0, newest[h]}
          /\ Worker!NameOf(o) \in Worker!Names =>
               newest'[Worker!NameOf(o).host] = 0 \/ Worker!NameOf(o).counter < newest[Worker!NameOf(o).host]
      BY <1>0, <2>2, <3>1, ReleaseIs DEF Worker!Delete
    <3> QED BY <2>2, <3>1, <3>2, DroppedStep DEF Worker!Delete
  <2> QED BY <1>7, <2>1, <2>2
<1>8. ASSUME NEW n \in late, Worker!Forget(n) \/ Worker!Lose(n) PROVE WorkerInv'
  <2>1. CASE Worker!Lose(n)
    BY <1>4, <2>1 DEF Worker!Lose
  <2>2. CASE Worker!Forget(n)
    BY <2>2, ForgetStep
  <2> QED BY <1>8, <2>1, <2>2
<1>9. ASSUME NEW i \in 1..Len(objects), Worker!Expire(i) PROVE WorkerInv'
  BY <1>9, ExpireStep
<1> QED BY <1>1, <1>2, <1>3, <1>6, <1>7, <1>8, <1>9 DEF Worker!Next

LEMMA WorkerPromises ==
    ASSUME WorkerInv
    PROVE  Worker!QuietWithinQuota /\ Worker!AckedIsListed /\ Worker!HostKeepsNewest
<1>1. WorkerTypeInv /\ ListedInv /\ QuotaInv
  BY DEF WorkerInv
<1>2. Worker!Stored = Contents(objects)
  BY <1>1, BucketIs DEF WorkerTypeInv
<1>3. Worker!QuietWithinQuota
  <2>1. (\A r \in Requests : reqs[r] = Worker!Idle) => Pending = {}
    BY DEF Pending, Worker!Idle
  <2>2. Pending = {} => Finished = Contents(objects)
    BY DEF Finished
  <2> QED BY <1>1, <1>2, <2>1, <2>2 DEF Worker!QuietWithinQuota, QuotaInv
<1>4. Worker!AckedIsListed
  <2>1. ASSUME NEW n \in owed PROVE \E o \in Worker!Listed : Worker!NameOf(o) = n
    <3>1. PICK i \in DOMAIN objects : ListedAt(objects, n, i)
      BY <1>1 DEF ListedInv, InListing
    <3>2. Worker!Cardinality(Worker!Before(i)) < WorkerBlobs
      BY <3>1, WorkerLibrary DEF ListedAt, Early, Worker!Before
    <3>3. objects[i] \in Worker!Listed
      BY <3>1, <3>2 DEF ListedAt, Worker!Listed
    <3> QED BY <3>1, <3>3 DEF ListedAt
  <2> QED BY <2>1 DEF Worker!AckedIsListed
<1>5. Worker!HostKeepsNewest
  <2> SUFFICES ASSUME Overlap < WorkerKeep, NEW h \in WorkerHosts, newest[h] # 0
               PROVE  \E n \in Worker!Names : n.host = h /\ n.counter >= newest[h]
    BY DEF Worker!HostKeepsNewest
  <2>1. PICK o \in Finished : o.host = h /\ o.counter >= newest[h]
    BY DEF WorkerInv, NewestInv, Sure
  <2>2. Worker!NameOf(o) \in Worker!Names
    BY <1>2, <2>1 DEF Finished, Worker!Names
  <2> QED BY <2>1, <2>2 DEF Worker!NameOf
<1> QED BY <1>3, <1>4, <1>5

-----------------------------------------------------------------------------
(* The gate.                                                                *)

\* The level of a key at a time, that of a full bucket when the key is unknown.
LevelAt(b, k, full, time) ==
    IF k \in DOMAIN b /\ b[k].level + time - b[k].last < full
    THEN b[k].level + time - b[k].last ELSE full

\* Finitely many buckets, none over its capacity or charged in the future.
AreLevels(b, full, time) ==
    /\ IsFiniteSet(DOMAIN b)
    /\ b \in [DOMAIN b -> [level : 0..full, last : 0..time]]

\* What a limiter may do with a ledger's levels: be more generous, or be the same.
NoStricter(b, l, full, time) == \A k : LevelAt(l, k, full, time) <= LevelAt(b, k, full, time)
AsStrict(b, l, full, time) == \A k : LevelAt(l, k, full, time) = LevelAt(b, k, full, time)

-----------------------------------------------------------------------------
LEMMA CapacityIsNat == ASSUME NEW c \in Nat PROVE c * Token \in Nat
BY PartsAssumption

LEMMA MinIs ==
    ASSUME NEW x \in Int, NEW y \in Int
    PROVE  Gate!Min({x, y}) = IF y < x THEN y ELSE x
<1> DEFINE m == IF y < x THEN y ELSE x
<1>1. m \in {x, y} /\ \A z \in {x, y} : m <= z
  OBVIOUS
<1>2. \A w \in {x, y} : (\A z \in {x, y} : w <= z) => w = m
  OBVIOUS
<1> QED BY <1>1, <1>2 DEF Gate!Min

LEMMA LevelIs ==
    ASSUME NEW b, NEW k, NEW full \in Nat, NEW c, c * Token = full, clock \in Nat, AreLevels(b, full, clock)
    PROVE  /\ Gate!LevelOf(b, k, c) = LevelAt(b, k, full, clock)
           /\ LevelAt(b, k, full, clock) \in 0..full
<1>1. CASE k \in DOMAIN b
  <2>1. b[k].level \in 0..full /\ b[k].last \in 0..clock
    BY <1>1 DEF AreLevels
  <2>2. b[k].level + clock - b[k].last \in Nat
    BY <2>1
  <2>3. Gate!LevelOf(b, k, c) = Gate!Min({full, b[k].level + clock - b[k].last})
    BY <1>1 DEF Gate!LevelOf, Gate!Level
  <2> QED BY <1>1, <2>2, <2>3, MinIs DEF LevelAt
<1>2. CASE k \notin DOMAIN b
  BY <1>2 DEF LevelAt, Gate!LevelOf
<1> QED BY <1>1, <1>2

\* Time refills both alike.
LEMMA Refill ==
    ASSUME NEW b, NEW l, NEW full \in Nat, NEW time \in Nat,
           AreLevels(b, full, time), AreLevels(l, full, time)
    PROVE  /\ AreLevels(b, full, time + 1)
           /\ NoStricter(b, l, full, time) => NoStricter(b, l, full, time + 1)
           /\ AsStrict(b, l, full, time) => AsStrict(b, l, full, time + 1)
<1>1. AreLevels(b, full, time + 1)
  <2>1. 0..time \subseteq 0..(time + 1)
    OBVIOUS
  <2> QED BY <2>1 DEF AreLevels
<1>2. ASSUME NEW k
      PROVE  /\ LevelAt(l, k, full, time) <= LevelAt(b, k, full, time) =>
                  LevelAt(l, k, full, time + 1) <= LevelAt(b, k, full, time + 1)
             /\ LevelAt(l, k, full, time) = LevelAt(b, k, full, time) =>
                  LevelAt(l, k, full, time + 1) = LevelAt(b, k, full, time + 1)
  <2>1. k \in DOMAIN b => b[k].level \in Nat /\ b[k].last \in 0..time
    BY DEF AreLevels
  <2>2. k \in DOMAIN l => l[k].level \in Nat /\ l[k].last \in 0..time
    BY DEF AreLevels
  <2> QED BY <2>1, <2>2 DEF LevelAt
<1> QED BY <1>1, <1>2 DEF NoStricter, AsStrict

\* evictOverflow only ever drops keys.
LEMMA KeptRestricts ==
    ASSUME NEW known, NEW c, NEW out \in Gate!Kept(known, c), known = [k \in DOMAIN known |-> known[k]]
    PROVE  /\ DOMAIN out \subseteq DOMAIN known
           /\ out = [k \in DOMAIN out |-> known[k]]
<1> DEFINE rest == Gate!Without(known, Gate!IdleKeys(known, c))
<1>1. /\ DOMAIN rest \subseteq DOMAIN known
      /\ rest = [k \in DOMAIN rest |-> known[k]]
  BY DEF Gate!Without
<1>2. \A S : DOMAIN Gate!Without(rest, S) \subseteq DOMAIN rest
             /\ Gate!Without(rest, S) = [k \in DOMAIN Gate!Without(rest, S) |-> rest[k]]
  BY DEF Gate!Without
<1>3. \/ out = known
      \/ out = rest
      \/ \E S : out = Gate!Without(rest, S)
  BY DEF Gate!Kept
<1> HIDE DEF rest
<1>4. ASSUME NEW S, out = Gate!Without(rest, S)
      PROVE  /\ DOMAIN out \subseteq DOMAIN known
             /\ out = [k \in DOMAIN out |-> known[k]]
  BY <1>1, <1>2, <1>4
<1> QED BY <1>1, <1>3, <1>4

\* While no more keys are in use than the limiter keeps, only idle keys are dropped.
LEMMA KeptDropsIdle ==
    ASSUME NEW b, NEW key, key \notin DOMAIN b, NEW c, NEW full \in Nat, c * Token = full,
           clock \in Nat, AreLevels(b, full, clock), ~Gate!Crowded(b, key, c),
           NEW known, DOMAIN known = DOMAIN b \cup {key},
           \A k \in DOMAIN b : known[k] = b[k],
           known[key] = [level |-> full, last |-> clock],
           NEW out \in Gate!Kept(known, c)
    PROVE  /\ key \in DOMAIN out
           /\ \A k \in DOMAIN b \ DOMAIN out : clock - b[k].last > full
<1> DEFINE rest == Gate!Without(known, Gate!IdleKeys(known, c))
           busy == {k \in DOMAIN b : clock - b[k].last <= full}
<1>0. /\ \A S : Gate!Cardinality(S) = Cardinality(S)
      /\ \A k \in DOMAIN b : b[k].last \in 0..clock
      /\ IsFiniteSet(busy)
  <2>1. IsFiniteSet(busy)
    BY FS_Subset DEF AreLevels
  <2> QED BY <2>1 DEF Gate!Cardinality, Cardinality, AreLevels
<1>1. DOMAIN rest = busy \cup {key}
  <2>1. \A k \in DOMAIN b : ~(clock - b[k].last > full) <=> clock - b[k].last <= full
    BY <1>0
  <2>2. ~(clock - known[key].last > full)
    OBVIOUS
  <2>3. DOMAIN rest = {k \in DOMAIN known : ~(clock - known[k].last > full)}
    BY DEF Gate!Without, Gate!IdleKeys
  <2> QED BY <2>1, <2>2, <2>3
<1>2. Cardinality(DOMAIN rest) = Cardinality(busy) + 1 /\ Cardinality(busy) \in Nat
  BY <1>0, <1>1, FS_AddElement, FS_CardinalityType
<1>3. ~(Cardinality(busy) >= MaxBuckets)
  BY <1>0 DEF Gate!Crowded
<1>4. Cardinality(DOMAIN rest) - MaxBuckets <= 0
  BY <1>2, <1>3, PartsAssumption
<1>5. out \in {known, rest}
  <2> HIDE DEF busy
  <2> QED BY <1>0, <1>4 DEF Gate!Kept
<1>6. CASE out = rest
  BY <1>0, <1>1, <1>6
<1>7. CASE out = known
  BY <1>7
<1> QED BY <1>5, <1>6, <1>7

\* take charges the key and keeps or drops the others.
LEMMA TakenIs ==
    ASSUME NEW b, NEW key, NEW c, NEW full \in Nat, c * Token = full,
           clock \in Nat, AreLevels(b, full, clock), NEW out \in Gate!Taken(b, key, c)
    PROVE  LET charge == IF Gate!Allows(b, key, c) THEN Token ELSE 0
           IN  /\ DOMAIN out \subseteq DOMAIN b \cup {key}
               /\ out = [k \in DOMAIN out |->
                           IF k = key THEN [level |-> LevelAt(b, key, full, clock) - charge,
                                            last |-> clock]
                           ELSE b[k]]
               /\ ~Gate!Crowded(b, key, c) =>
                    /\ key \in DOMAIN out
                    /\ \A k \in DOMAIN b \ DOMAIN out : clock - b[k].last > full
<1> DEFINE fresh == [level |-> c * Token, last |-> clock]
           known == [k \in DOMAIN b \cup {key} |-> IF k \in DOMAIN b THEN b[k] ELSE fresh]
           kept == IF key \in DOMAIN b THEN {b} ELSE Gate!Kept(known, c)
           charge == IF Gate!Allows(b, key, c) THEN Token ELSE 0
<1>0. b = [k \in DOMAIN b |-> b[k]]
  BY DEF AreLevels
<1>1. PICK m \in kept :
        out = [k \in DOMAIN m |-> IF k = key THEN Gate!Spent(known, key, c) ELSE m[k]]
  BY DEF Gate!Taken
<1>2. /\ DOMAIN m \subseteq DOMAIN known
      /\ m = [k \in DOMAIN m |-> known[k]]
  <2>1. CASE key \in DOMAIN b
    <3>1. m = b
      BY <2>1
    <3> QED BY <1>0, <3>1
  <2>2. CASE key \notin DOMAIN b
    <3>1. m \in Gate!Kept(known, c) /\ known = [k \in DOMAIN known |-> known[k]]
      BY <2>2
    <3> HIDE DEF known
    <3> QED BY <3>1, KeptRestricts
  <2> QED BY <2>1, <2>2
<1>3. Gate!LevelOf(known, key, c) = LevelAt(b, key, full, clock)
  <2>1. Gate!LevelOf(b, key, c) = LevelAt(b, key, full, clock)
    BY LevelIs
  <2>2. CASE key \in DOMAIN b
    BY <2>1, <2>2 DEF Gate!LevelOf
  <2>3. CASE key \notin DOMAIN b
    <3>1. Gate!LevelOf(known, key, c) = Gate!Min({full, full + clock - clock})
      BY <2>3 DEF Gate!LevelOf, Gate!Level
    <3>2. full + clock - clock = full
      OBVIOUS
    <3>3. Gate!Min({full, full}) = full
      BY MinIs
    <3>4. LevelAt(b, key, full, clock) = full
      BY <2>3 DEF LevelAt
    <3> QED BY <3>1, <3>2, <3>3, <3>4
  <2> QED BY <2>2, <2>3
<1>4. Gate!Spent(known, key, c) = [level |-> LevelAt(b, key, full, clock) - charge, last |-> clock]
  <2>1. Gate!LevelOf(b, key, c) = LevelAt(b, key, full, clock)
    BY LevelIs
  <2>2. Gate!Allows(known, key, c) <=> Gate!Allows(b, key, c)
    BY <1>3, <2>1 DEF Gate!Allows
  <2> HIDE DEF known
  <2> QED BY <1>3, <2>2 DEF Gate!Spent
<1>5. ASSUME ~Gate!Crowded(b, key, c)
      PROVE  /\ key \in DOMAIN m
             /\ \A k \in DOMAIN b \ DOMAIN m : clock - b[k].last > full
  <2>1. CASE key \in DOMAIN b
    BY <2>1
  <2>2. CASE key \notin DOMAIN b
    <3>1. m \in Gate!Kept(known, c)
      BY <2>2
    <3>2. /\ DOMAIN known = DOMAIN b \cup {key}
          /\ \A k \in DOMAIN b : known[k] = b[k]
          /\ known[key] = [level |-> full, last |-> clock]
      BY <2>2
    <3> HIDE DEF known
    <3> QED BY <1>5, <2>2, <3>1, <3>2, KeptDropsIdle
  <2> QED BY <2>1, <2>2
<1>6. DOMAIN out = DOMAIN m
  BY <1>1
<1>7. \A k \in DOMAIN out : k # key => m[k] = b[k]
  BY <1>2, <1>6
<1>8. out = [k \in DOMAIN out |-> IF k = key THEN [level |-> LevelAt(b, key, full, clock) - charge,
                                                  last |-> clock] ELSE b[k]]
  <2> HIDE DEF known, charge, kept
  <2> QED BY <1>1, <1>4, <1>6, <1>7
<1> QED BY <1>2, <1>5, <1>6, <1>8

\* The limiter after a request is no stricter than the ledger that is charged for it, and
\* as strict when the limiter was not crowded.
LEMMA Request ==
    ASSUME NEW b, NEW l, NEW key, NEW c, NEW full \in Nat, c * Token = full, clock \in Nat,
           AreLevels(b, full, clock), AreLevels(l, full, clock),
           NoStricter(b, l, full, clock),
           NEW served \in BOOLEAN, served <=> Gate!Allows(b, key, c),
           NEW out \in Gate!Taken(b, key, c)
    PROVE  LET charged == Gate!Charged(l, key, c, served)
           IN  /\ AreLevels(out, full, clock) /\ AreLevels(charged, full, clock)
               /\ NoStricter(out, charged, full, clock)
               /\ AsStrict(b, l, full, clock) /\ ~Gate!Crowded(b, key, c) =>
                     AsStrict(out, charged, full, clock)
<1> DEFINE charged == Gate!Charged(l, key, c, served)
           charge == IF Gate!Allows(b, key, c) THEN Token ELSE 0
           mine == LevelAt(b, key, full, clock) - charge
           theirs == LevelAt(l, key, full, clock) - charge
<1>1. /\ DOMAIN out \subseteq DOMAIN b \cup {key}
      /\ out = [k \in DOMAIN out |-> IF k = key THEN [level |-> mine, last |-> clock] ELSE b[k]]
      /\ ~Gate!Crowded(b, key, c) =>
           /\ key \in DOMAIN out
           /\ \A k \in DOMAIN b \ DOMAIN out : clock - b[k].last > full
  BY TakenIs
<1>2. /\ Gate!LevelOf(b, key, c) = LevelAt(b, key, full, clock)
      /\ LevelAt(b, key, full, clock) \in 0..full
      /\ Gate!LevelOf(l, key, c) = LevelAt(l, key, full, clock)
      /\ LevelAt(l, key, full, clock) \in 0..full
      /\ LevelAt(l, key, full, clock) <= LevelAt(b, key, full, clock)
  BY LevelIs DEF NoStricter
<1>3. Token \in Nat /\ charge \in Nat /\ mine \in 0..full
  <2>1. Token \in Nat
    BY PartsAssumption
  <2>2. CASE Gate!Allows(b, key, c)
    <3>1. LevelAt(b, key, full, clock) >= Token
      BY <1>2, <2>2 DEF Gate!Allows
    <3> QED BY <1>2, <2>1, <2>2, <3>1
  <2>3. CASE ~Gate!Allows(b, key, c)
    BY <1>2, <2>1, <2>3
  <2> QED BY <2>1, <2>2, <2>3
<1> DEFINE left == IF theirs < 0 THEN 0 ELSE theirs
<1>4. left \in 0..full /\ left <= mine
  <2> HIDE DEF charge
  <2> QED BY <1>2, <1>3
<1>5. charged = [k \in DOMAIN l \cup {key} |->
                   IF k = key THEN [level |-> left, last |-> clock] ELSE l[k]]
  <2>1. charge = IF served THEN Token ELSE 0
    OBVIOUS
  <2> HIDE DEF charge
  <2> QED BY <1>2, <2>1 DEF Gate!Charged
<1> HIDE DEF charged, mine, left
<1>6. AreLevels(charged, full, clock)
  <2>1. IsFiniteSet(DOMAIN charged)
    BY <1>5, FS_AddElement DEF AreLevels
  <2>2. \A k \in DOMAIN l : l[k] \in [level : 0..full, last : 0..clock]
    BY DEF AreLevels
  <2>3. [level |-> left, last |-> clock] \in [level : 0..full, last : 0..clock]
    BY <1>4
  <2> QED BY <1>5, <2>1, <2>2, <2>3 DEF AreLevels
<1>7. AreLevels(out, full, clock)
  <2>1. IsFiniteSet(DOMAIN b \cup {key})
    BY FS_AddElement DEF AreLevels
  <2>2. IsFiniteSet(DOMAIN out)
    BY <1>1, <2>1, FS_Subset
  <2>3. \A k \in DOMAIN b : b[k] \in [level : 0..full, last : 0..clock]
    BY DEF AreLevels
  <2>4. [level |-> mine, last |-> clock] \in [level : 0..full, last : 0..clock]
    BY <1>3
  <2> QED BY <1>1, <2>2, <2>3, <2>4 DEF AreLevels
<1>8. /\ LevelAt(charged, key, full, clock) = left
      /\ LevelAt(out, key, full, clock) = IF key \in DOMAIN out THEN mine ELSE full
  <2>1. charged[key] = [level |-> left, last |-> clock] /\ key \in DOMAIN charged
    BY <1>5
  <2>2. key \in DOMAIN out => out[key] = [level |-> mine, last |-> clock]
    BY <1>1
  <2> QED BY <1>3, <1>4, <2>1, <2>2 DEF LevelAt
<1>9. ASSUME NEW k, k # key
      PROVE  /\ LevelAt(charged, k, full, clock) = LevelAt(l, k, full, clock)
             /\ LevelAt(out, k, full, clock) = IF k \in DOMAIN b \ DOMAIN out THEN full
                                               ELSE LevelAt(b, k, full, clock)
  <2>1. (k \in DOMAIN charged <=> k \in DOMAIN l) /\ (k \in DOMAIN l => charged[k] = l[k])
    BY <1>5, <1>9
  <2>2. k \in DOMAIN out => k \in DOMAIN b /\ out[k] = b[k]
    BY <1>1, <1>9
  <2> QED BY <2>1, <2>2 DEF LevelAt
<1>10. \A k : LevelAt(b, k, full, clock) \in 0..full /\ LevelAt(l, k, full, clock) \in 0..full
  BY LevelIs
<1>11. NoStricter(out, charged, full, clock)
  <2> SUFFICES ASSUME NEW k
               PROVE  LevelAt(charged, k, full, clock) <= LevelAt(out, k, full, clock)
    BY DEF NoStricter
  <2>1. CASE k = key
    BY <1>4, <1>8, <2>1
  <2>2. CASE k # key
    <3>1. LevelAt(l, k, full, clock) <= LevelAt(b, k, full, clock)
      BY DEF NoStricter
    <3> QED BY <1>9, <1>10, <2>2, <3>1
  <2> QED BY <2>1, <2>2
<1>12. ASSUME AsStrict(b, l, full, clock), ~Gate!Crowded(b, key, c)
       PROVE  AsStrict(out, charged, full, clock)
  <2> SUFFICES ASSUME NEW k
               PROVE  LevelAt(charged, k, full, clock) = LevelAt(out, k, full, clock)
    BY DEF AsStrict
  <2>1. \A j : LevelAt(l, j, full, clock) = LevelAt(b, j, full, clock)
    BY <1>12 DEF AsStrict
  <2>2. CASE k = key
    <3>1. left = mine
      BY <1>3, <2>1 DEF left, mine
    <3> QED BY <1>1, <1>8, <1>12, <2>2, <3>1
  <2>3. CASE k # key
    <3>1. ASSUME k \in DOMAIN b \ DOMAIN out PROVE LevelAt(b, k, full, clock) = full
      <4>1. clock - b[k].last > full
        BY <1>1, <1>12, <3>1
      <4>2. b[k].level \in Nat /\ b[k].last \in Nat
        BY <3>1 DEF AreLevels
      <4>3. ~(b[k].level + clock - b[k].last < full)
        BY <4>1, <4>2
      <4> QED BY <4>3 DEF LevelAt
    <3> QED BY <1>9, <2>1, <2>3, <3>1
  <2> QED BY <2>2, <2>3
<1> QED BY <1>6, <1>7, <1>11, <1>12 DEF charged

IpFull == IpCapacity * Token
RoomFull == RoomCapacity * Token

LevelsInv ==
    /\ clock \in Nat
    /\ AreLevels(ips, IpFull, clock) /\ AreLevels(ipLedger, IpFull, clock)
    /\ AreLevels(rooms, RoomFull, clock) /\ AreLevels(roomLedger, RoomFull, clock)

\* A limiter is never stricter than its ledger, and as strict until it was crowded.
StrictnessInv ==
    /\ NoStricter(ips, ipLedger, IpFull, clock) /\ NoStricter(rooms, roomLedger, RoomFull, clock)
    /\ ~forgot => /\ AsStrict(ips, ipLedger, IpFull, clock)
                  /\ AsStrict(rooms, roomLedger, RoomFull, clock)

GateInv == LevelsInv /\ StrictnessInv /\ forgot \in BOOLEAN /\ Gate!RefusedWhenSpent

LEMMA FullIsNat == IpFull \in Nat /\ RoomFull \in Nat
BY PartsAssumption DEF IpFull, RoomFull

LEMMA GateInitInv == Gate!Init => GateInv
<1> SUFFICES ASSUME Gate!Init PROVE GateInv
  OBVIOUS
<1>1. /\ clock = 0 /\ forgot = FALSE /\ answer.status = "none"
      /\ DOMAIN ips = {} /\ DOMAIN ipLedger = {} /\ DOMAIN rooms = {} /\ DOMAIN roomLedger = {}
      /\ \A b \in {ips, ipLedger, rooms, roomLedger} : b = [k \in {} |-> 0]
  BY DEF Gate!Init, Gate!Empty
<1>2. \A full : \A b \in {ips, ipLedger, rooms, roomLedger} : AreLevels(b, full, 0)
  BY <1>1, FS_EmptySet DEF AreLevels
<1>3. \A full, k : \A b \in {ips, ipLedger, rooms, roomLedger} : LevelAt(b, k, full, 0) = full
  BY <1>1 DEF LevelAt
<1>4. LevelsInv
  BY <1>1, <1>2 DEF LevelsInv
<1>5. StrictnessInv
  BY <1>1, <1>3, FullIsNat DEF StrictnessInv, NoStricter, AsStrict
<1> QED BY <1>1, <1>4, <1>5 DEF GateInv, Gate!RefusedWhenSpent

\* The address's bucket, whatever becomes of the request.
LEMMA TakeIpStep ==
    ASSUME GateInv, NEW ip, NEW served \in BOOLEAN, Gate!TakeIp(ip, served)
    PROVE  /\ AreLevels(ips', IpFull, clock') /\ AreLevels(ipLedger', IpFull, clock')
           /\ NoStricter(ips', ipLedger', IpFull, clock')
           /\ ~forgot /\ ~Gate!IpsCrowded(ip) => AsStrict(ips', ipLedger', IpFull, clock')
           /\ clock' = clock
<1>1. /\ clock \in Nat /\ IpFull \in Nat /\ IpCapacity * Token = IpFull
      /\ AreLevels(ips, IpFull, clock) /\ AreLevels(ipLedger, IpFull, clock)
      /\ NoStricter(ips, ipLedger, IpFull, clock)
      /\ ~forgot => AsStrict(ips, ipLedger, IpFull, clock)
  BY FullIsNat DEF GateInv, LevelsInv, StrictnessInv, IpFull
<1>2. /\ served <=> Gate!Allows(ips, ip, IpCapacity)
      /\ ips' \in Gate!Taken(ips, ip, IpCapacity)
      /\ ipLedger' = Gate!Charged(ipLedger, ip, IpCapacity, served)
      /\ clock' = clock
  BY DEF Gate!TakeIp
<1>3. LET charged == Gate!Charged(ipLedger, ip, IpCapacity, served)
      IN  /\ AreLevels(ips', IpFull, clock) /\ AreLevels(charged, IpFull, clock)
          /\ NoStricter(ips', charged, IpFull, clock)
          /\ AsStrict(ips, ipLedger, IpFull, clock) /\ ~Gate!Crowded(ips, ip, IpCapacity) =>
                AsStrict(ips', charged, IpFull, clock)
  BY <1>1, <1>2, Request
<1> QED BY <1>1, <1>2, <1>3 DEF Gate!IpsCrowded

\* The room's, once the token is found to be its own.
LEMMA TakeRoomStep ==
    ASSUME GateInv, NEW room, NEW served \in BOOLEAN,
           served <=> Gate!Allows(rooms, room, RoomCapacity),
           rooms' \in Gate!Taken(rooms, room, RoomCapacity),
           roomLedger' = Gate!Charged(roomLedger, room, RoomCapacity, served),
           clock' = clock
    PROVE  /\ AreLevels(rooms', RoomFull, clock') /\ AreLevels(roomLedger', RoomFull, clock')
           /\ NoStricter(rooms', roomLedger', RoomFull, clock')
           /\ ~forgot /\ ~Gate!Crowded(rooms, room, RoomCapacity) =>
                 AsStrict(rooms', roomLedger', RoomFull, clock')
<1>1. /\ clock \in Nat /\ RoomFull \in Nat /\ RoomCapacity * Token = RoomFull
      /\ AreLevels(rooms, RoomFull, clock) /\ AreLevels(roomLedger, RoomFull, clock)
      /\ NoStricter(rooms, roomLedger, RoomFull, clock)
      /\ ~forgot => AsStrict(rooms, roomLedger, RoomFull, clock)
  BY FullIsNat DEF GateInv, LevelsInv, StrictnessInv, RoomFull
<1>2. LET charged == Gate!Charged(roomLedger, room, RoomCapacity, served)
      IN  /\ AreLevels(rooms', RoomFull, clock) /\ AreLevels(charged, RoomFull, clock)
          /\ NoStricter(rooms', charged, RoomFull, clock)
          /\ AsStrict(rooms, roomLedger, RoomFull, clock)
               /\ ~Gate!Crowded(rooms, room, RoomCapacity) =>
                AsStrict(rooms', charged, RoomFull, clock)
  BY <1>1, Request
<1> QED BY <1>1, <1>2

\* Who is refused by the limiter would be by the ledger.
LEMMA SpentInBoth ==
    ASSUME NEW b, NEW l, NEW k, NEW c, NEW full \in Nat, c * Token = full, clock \in Nat,
           AreLevels(b, full, clock), AreLevels(l, full, clock), NoStricter(b, l, full, clock),
           ~Gate!Allows(b, k, c)
    PROVE  ~Gate!Allows(l, k, c)
<1>1. /\ Gate!LevelOf(b, k, c) = LevelAt(b, k, full, clock)
      /\ Gate!LevelOf(l, k, c) = LevelAt(l, k, full, clock)
      /\ LevelAt(b, k, full, clock) \in 0..full /\ LevelAt(l, k, full, clock) \in 0..full
  BY LevelIs
<1>2. LevelAt(l, k, full, clock) <= LevelAt(b, k, full, clock)
  BY DEF NoStricter
<1> QED BY <1>1, <1>2, PartsAssumption DEF Gate!Allows

LEMMA GateStep == GateInv /\ [Gate!Next]_(Gate!vars) => GateInv'
<1> SUFFICES ASSUME GateInv, [Gate!Next]_(Gate!vars) PROVE GateInv'
  OBVIOUS
<1>0. /\ clock \in Nat /\ forgot \in BOOLEAN
      /\ AreLevels(ips, IpFull, clock) /\ AreLevels(ipLedger, IpFull, clock)
      /\ AreLevels(rooms, RoomFull, clock) /\ AreLevels(roomLedger, RoomFull, clock)
      /\ NoStricter(ips, ipLedger, IpFull, clock)
      /\ NoStricter(rooms, roomLedger, RoomFull, clock)
      /\ ~forgot => /\ AsStrict(ips, ipLedger, IpFull, clock)
                    /\ AsStrict(rooms, roomLedger, RoomFull, clock)
      /\ answer.status = "limited" => answer.spent
  BY DEF GateInv, LevelsInv, StrictnessInv, Gate!RefusedWhenSpent
<1>1. CASE Gate!Health
  BY <1>0, <1>1 DEF Gate!Health, GateInv, LevelsInv, StrictnessInv, Gate!RefusedWhenSpent
<1>2. ASSUME NEW ip \in Addresses, Gate!IpLimited(ip) PROVE GateInv'
  <2>1. /\ AreLevels(ips', IpFull, clock') /\ AreLevels(ipLedger', IpFull, clock')
        /\ NoStricter(ips', ipLedger', IpFull, clock')
        /\ ~forgot /\ ~Gate!IpsCrowded(ip) => AsStrict(ips', ipLedger', IpFull, clock')
        /\ clock' = clock
    BY <1>2, TakeIpStep DEF Gate!IpLimited
  <2>2. UNCHANGED <<rooms, roomLedger>> /\ forgot' = (forgot \/ Gate!IpsCrowded(ip))
    BY <1>2 DEF Gate!IpLimited
  <2>3. LevelsInv' /\ StrictnessInv'
    BY <1>0, <2>1, <2>2 DEF LevelsInv, StrictnessInv
  <2>4. ~Gate!Allows(ips, ip, IpCapacity)
    BY <1>2 DEF Gate!IpLimited, Gate!TakeIp
  <2>5. IpFull \in Nat /\ IpCapacity * Token = IpFull
    BY FullIsNat DEF IpFull
  <2>6. ~Gate!Allows(ipLedger, ip, IpCapacity)
    BY <1>0, <2>4, <2>5, SpentInBoth
  <2>7. answer'.spent
    <3>1. answer'.spent = ~Gate!Allows(ipLedger, ip, IpCapacity)
      BY <1>2 DEF Gate!IpLimited
    <3> QED BY <2>6, <3>1
  <2>8. forgot' \in BOOLEAN
    BY <2>2
  <2> QED BY <2>3, <2>7, <2>8 DEF GateInv, Gate!RefusedWhenSpent
<1>3. ASSUME NEW ip \in Addresses, NEW room \in Rooms, Gate!Rejected(ip, room) PROVE GateInv'
  <2>1. /\ AreLevels(ips', IpFull, clock') /\ AreLevels(ipLedger', IpFull, clock')
        /\ NoStricter(ips', ipLedger', IpFull, clock')
        /\ ~forgot /\ ~Gate!IpsCrowded(ip) => AsStrict(ips', ipLedger', IpFull, clock')
        /\ clock' = clock
    BY <1>3, TakeIpStep DEF Gate!Rejected
  <2>2. /\ UNCHANGED <<rooms, roomLedger>> /\ forgot' = (forgot \/ Gate!IpsCrowded(ip))
        /\ answer'.status = "refused"
    BY <1>3 DEF Gate!Rejected
  <2>3. LevelsInv' /\ StrictnessInv'
    BY <1>0, <2>1, <2>2 DEF LevelsInv, StrictnessInv
  <2>4. forgot' \in BOOLEAN
    BY <2>2
  <2> QED BY <2>2, <2>3, <2>4 DEF GateInv, Gate!RefusedWhenSpent
<1>4. ASSUME NEW ip \in Addresses, NEW room \in Rooms, Gate!Authorized(ip, room) PROVE GateInv'
  <2> DEFINE served == Gate!Allows(rooms, room, RoomCapacity)
  <2>1. /\ AreLevels(ips', IpFull, clock') /\ AreLevels(ipLedger', IpFull, clock')
        /\ NoStricter(ips', ipLedger', IpFull, clock')
        /\ ~forgot /\ ~Gate!IpsCrowded(ip) => AsStrict(ips', ipLedger', IpFull, clock')
        /\ clock' = clock
    BY <1>4, TakeIpStep DEF Gate!Authorized
  <2>2. /\ rooms' \in Gate!Taken(rooms, room, RoomCapacity)
        /\ roomLedger' = Gate!Charged(roomLedger, room, RoomCapacity, served)
        /\ answer' = IF served THEN [status |-> "served"]
                     ELSE [status |-> "limited",
                           spent |-> ~Gate!Allows(roomLedger, room, RoomCapacity)]
        /\ forgot' = (forgot \/ Gate!IpsCrowded(ip) \/ Gate!Crowded(rooms, room, RoomCapacity))
    BY <1>4 DEF Gate!Authorized
  <2>3. served \in BOOLEAN
    BY DEF Gate!Allows
  <2>4. /\ AreLevels(rooms', RoomFull, clock') /\ AreLevels(roomLedger', RoomFull, clock')
        /\ NoStricter(rooms', roomLedger', RoomFull, clock')
        /\ ~forgot /\ ~Gate!Crowded(rooms, room, RoomCapacity) =>
              AsStrict(rooms', roomLedger', RoomFull, clock')
    <3> HIDE DEF served
    <3>1. served <=> Gate!Allows(rooms, room, RoomCapacity)
      BY DEF served
    <3> QED BY <2>1, <2>2, <2>3, <3>1, TakeRoomStep
  <2>5. LevelsInv' /\ StrictnessInv' /\ forgot' \in BOOLEAN
    BY <1>0, <2>1, <2>2, <2>4 DEF LevelsInv, StrictnessInv
  <2>6. Gate!RefusedWhenSpent'
    <3>1. CASE served
      <4>1. answer'.status = "served"
        BY <2>2, <3>1
      <4> QED BY <4>1 DEF Gate!RefusedWhenSpent
    <3>2. CASE ~served
      <4>1. RoomFull \in Nat /\ RoomCapacity * Token = RoomFull
        BY FullIsNat DEF RoomFull
      <4>2. ~Gate!Allows(roomLedger, room, RoomCapacity)
        BY <1>0, <3>2, <4>1, SpentInBoth
      <4>3. answer'.spent = ~Gate!Allows(roomLedger, room, RoomCapacity)
        BY <2>2, <3>2
      <4> QED BY <4>2, <4>3 DEF Gate!RefusedWhenSpent
    <3> QED BY <3>1, <3>2
  <2> QED BY <2>5, <2>6 DEF GateInv
<1>5. CASE Gate!Tick
  <2>1. clock' = clock + 1 /\ UNCHANGED <<ips, rooms, ipLedger, roomLedger, forgot, answer>>
    BY <1>5 DEF Gate!Tick
  <2>2. \A b, l \in {ips, ipLedger} :
           /\ AreLevels(b, IpFull, clock + 1)
           /\ NoStricter(b, l, IpFull, clock) => NoStricter(b, l, IpFull, clock + 1)
           /\ AsStrict(b, l, IpFull, clock) => AsStrict(b, l, IpFull, clock + 1)
    BY <1>0, FullIsNat, Refill
  <2>3. \A b, l \in {rooms, roomLedger} :
           /\ AreLevels(b, RoomFull, clock + 1)
           /\ NoStricter(b, l, RoomFull, clock) => NoStricter(b, l, RoomFull, clock + 1)
           /\ AsStrict(b, l, RoomFull, clock) => AsStrict(b, l, RoomFull, clock + 1)
    BY <1>0, FullIsNat, Refill
  <2>4. LevelsInv'
    BY <1>0, <2>1, <2>2, <2>3 DEF LevelsInv
  <2>5. StrictnessInv'
    BY <1>0, <2>1, <2>2, <2>3 DEF StrictnessInv
  <2> QED BY <1>0, <2>1, <2>4, <2>5 DEF GateInv, Gate!RefusedWhenSpent
<1>6. CASE UNCHANGED Gate!vars
  BY <1>0, <1>6 DEF Gate!vars, GateInv, LevelsInv, StrictnessInv, Gate!RefusedWhenSpent
<1> QED BY <1>1, <1>2, <1>3, <1>4, <1>5, <1>6 DEF Gate!Next

LEMMA GateInvSuffices == GateInv => LimitsAreExact
<1> SUFFICES ASSUME GateInv PROVE Gate!ForgettingIsLossless
  BY DEF GateInv, LimitsAreExact
<1>1. ASSUME ~forgot, NEW k
      PROVE  /\ Gate!LevelOf(ips, k, IpCapacity) = Gate!LevelOf(ipLedger, k, IpCapacity)
             /\ Gate!LevelOf(rooms, k, RoomCapacity) = Gate!LevelOf(roomLedger, k, RoomCapacity)
  <2>1. /\ Gate!LevelOf(ips, k, IpCapacity) = LevelAt(ips, k, IpFull, clock)
        /\ Gate!LevelOf(ipLedger, k, IpCapacity) = LevelAt(ipLedger, k, IpFull, clock)
    BY FullIsNat, LevelIs DEF GateInv, LevelsInv, IpFull
  <2>2. /\ Gate!LevelOf(rooms, k, RoomCapacity) = LevelAt(rooms, k, RoomFull, clock)
        /\ Gate!LevelOf(roomLedger, k, RoomCapacity) = LevelAt(roomLedger, k, RoomFull, clock)
    BY FullIsNat, LevelIs DEF GateInv, LevelsInv, RoomFull
  <2> QED BY <1>1, <2>1, <2>2 DEF GateInv, StrictnessInv, AsStrict
<1> QED BY <1>1 DEF Gate!ForgettingIsLossless

-----------------------------------------------------------------------------
(* The shared folder.                                                       *)

\* What the importer's variables hold; the exporters' do not matter.
DropTypeInv ==
    /\ arrived \subseteq Drop!Blob /\ IsFiniteSet(arrived)
    /\ queue \in Seq(Drop!Blob)
    /\ injecting \in Drop!Blob \cup {Drop!NoBlob}
    /\ saved \in [Hosts -> Nat] /\ injected \in [Hosts -> Nat]
    /\ replay \in {Drop!Off} \cup [running : {TRUE}, last : [Hosts -> Nat]]

\* The counters in memory are between those on disk and those of the browser, and a blob
\* that is being injected is newer than either.
ReplayInv ==
    /\ replay.running =>
         \A h \in Hosts : saved[h] <= replay.last[h] /\ replay.last[h] <= injected[h]
    /\ injecting # Drop!NoBlob =>
         replay.running /\ replay.last[injecting[1]] < injecting[2]

DropInv == DropTypeInv /\ ReplayInv /\ Drop!NeverBehind

-----------------------------------------------------------------------------
\* An import runs exactly when there are counters in memory.
LEMMA ImportRunning ==
    ASSUME DropTypeInv
    PROVE  replay.running => replay \in [running : {TRUE}, last : [Hosts -> Nat]]
<1>1. CASE replay = Drop!Off
  <2>1. Drop!Off.running = FALSE
    BY DEF Drop!Off
  <2> QED BY <1>1, <2>1
<1> QED BY <1>1 DEF DropTypeInv

LEMMA Tuples ==
    ASSUME NEW b \in Drop!Blob
    PROVE  b[1] \in Hosts /\ b[2] \in Nat /\ b # Drop!NoBlob
<1>1. PICK h \in Hosts, n \in 1..DropCounter : b = <<h, n>>
  BY DEF Drop!Blob
<1>2. b # Drop!NoBlob
  BY <1>1 DEF Drop!NoBlob
<1> QED BY <1>1, <1>2, PartsAssumption

\* What listBlobFiles returns is a sequence of blobs.
LEMMA OrderIsSeq ==
    ASSUME NEW S, IsFiniteSet(S), NEW order \in Drop!SetToAllKPermutations(S)
    PROVE  order \in Seq(S)
<1>1. PICK s \in SUBSET S : order \in Drop!SetToSeqs(s)
  BY DEF Drop!SetToAllKPermutations
<1>2. order \in [1..Drop!Cardinality(s) -> s]
  BY <1>1 DEF Drop!SetToSeqs
<1>3. Drop!Cardinality(s) = Cardinality(s)
  BY DEF Drop!Cardinality, Cardinality
<1>4. Cardinality(s) \in Nat
  BY FS_Subset, FS_CardinalityType
<1> QED BY <1>2, <1>3, <1>4

LEMMA DropInit == Drop!Init => DropInv
BY FS_EmptySet DEF Drop!Init, DropInv, DropTypeInv, ReplayInv, Drop!NeverBehind, Drop!Off, Drop!NoBlob

LEMMA BeginImportStep ==
    ASSUME DropInv, Drop!BeginImport
    PROVE  DropInv'
<1>1. IsFiniteSet(arrived)
  BY DEF DropInv, DropTypeInv
<1>2. queue' \in Seq(arrived)
  BY <1>1, OrderIsSeq DEF Drop!BeginImport
<1>3. queue' \in Seq(Drop!Blob)
  BY <1>2 DEF DropInv, DropTypeInv
<1> QED BY <1>3 DEF DropInv, DropTypeInv, ReplayInv, Drop!NeverBehind, Drop!BeginImport, Drop!Off

LEMMA TakeStep == ASSUME DropInv, Drop!PassOver \/ Drop!Inject PROVE DropInv'
<1>1. queue # <<>> /\ Head(queue) \in Drop!Blob /\ queue' \in Seq(Drop!Blob)
  <2>1. queue \in Seq(Drop!Blob) /\ queue # <<>> /\ queue' = Tail(queue)
    BY DEF DropInv, DropTypeInv, Drop!PassOver, Drop!Inject
  <2> HIDE DEF Drop!Blob
  <2> QED BY ONLY <2>1, HeadTailProperties
<1>2. CASE Drop!PassOver
  BY <1>1, <1>2 DEF DropInv, DropTypeInv, ReplayInv, Drop!NeverBehind, Drop!PassOver
<1>3. CASE Drop!Inject
  BY <1>1, <1>3 DEF DropInv, DropTypeInv, ReplayInv, Drop!NeverBehind, Drop!Inject
<1> QED BY <1>2, <1>3

\* The browser and the counter in memory move together, and forward.
LEMMA InjectedStep == ASSUME DropInv, Drop!Injected PROVE DropInv'
<1> USE DEF DropInv
<1>1. PICK h \in Hosts, n \in 1..DropCounter : injecting = <<h, n>>
  BY DEF Drop!Injected, DropTypeInv, Drop!Blob
<1>2. /\ replay \in [running : {TRUE}, last : [Hosts -> Nat]]
      /\ replay.last[h] < n
  BY <1>1, ImportRunning DEF Drop!Injected, DropTypeInv, ReplayInv
<1>3. /\ injected' = [injected EXCEPT ![h] = n]
      /\ replay' = [running |-> TRUE, last |-> [replay.last EXCEPT ![h] = n]]
      /\ injecting' = Drop!NoBlob
      /\ UNCHANGED <<arrived, saved, queue>>
  BY <1>1 DEF Drop!Injected
<1>4. replay'.last \in [Hosts -> Nat] /\ replay'.last = [replay.last EXCEPT ![h] = n]
  BY <1>2, <1>3
<1>5. DropTypeInv'
  BY <1>2, <1>3, <1>4 DEF DropTypeInv
<1>6. \A k \in Hosts : saved'[k] <= replay'.last[k] /\ replay'.last[k] <= injected'[k]
  <2> SUFFICES ASSUME NEW k \in Hosts
               PROVE  saved[k] <= replay'.last[k] /\ replay'.last[k] <= injected'[k]
    BY <1>3
  <2>1. /\ saved[k] \in Nat /\ replay.last[k] \in Nat
        /\ saved[k] <= replay.last[k] /\ replay.last[k] <= injected[k]
    BY <1>2 DEF DropTypeInv, ReplayInv
  <2>2. CASE k = h
    <3>1. replay'.last[k] = n /\ injected'[k] = n
      BY <1>2, <1>3, <1>4, <2>2 DEF DropTypeInv
    <3> QED BY <1>2, <2>1, <2>2, <3>1
  <2>3. CASE k # h
    <3>1. replay'.last[k] = replay.last[k] /\ injected'[k] = injected[k]
      BY <1>2, <1>3, <1>4, <2>3 DEF DropTypeInv
    <3> QED BY <2>1, <3>1
  <2> QED BY <2>2, <2>3
<1>7. Drop!NeverBehind'
  <2> SUFFICES ASSUME NEW k \in Hosts PROVE saved'[k] <= injected'[k]
    BY DEF Drop!NeverBehind
  <2>1. saved'[k] \in Nat /\ injected'[k] \in Nat
    BY <1>5 DEF DropTypeInv
  <2>2. replay'.last[k] \in Nat
    BY <1>4
  <2> QED BY <1>6, <2>1, <2>2
<1> QED BY <1>3, <1>5, <1>6, <1>7 DEF ReplayInv

LEMMA DropStep ==
    DropInv /\ [Drop!Next]_(Drop!vars) => DropInv'
<1> SUFFICES ASSUME DropInv, [Drop!Next]_(Drop!vars) PROVE DropInv'
  OBVIOUS
<1> USE DEF DropInv
<1>1. ASSUME NEW h \in Hosts, Drop!WriteBlob(h) \/ Drop!SaveExport(h) \/ Drop!ExportStops(h)
      PROVE DropInv'
  BY <1>1 DEF DropTypeInv, ReplayInv, Drop!NeverBehind, Drop!WriteBlob, Drop!SaveExport, Drop!ExportStops, Drop!importer
<1>2. ASSUME NEW h \in Hosts, NEW n \in 1..DropCounter, Drop!Arrive(h, n)
      PROVE DropInv'
  <2>1. <<h, n>> \in Drop!Blob
    BY DEF Drop!Blob
  <2>2. IsFiniteSet(arrived')
    BY <1>2, FS_AddElement DEF DropTypeInv, Drop!Arrive
  <2> QED BY <1>2, <2>1, <2>2 DEF DropTypeInv, ReplayInv, Drop!NeverBehind, Drop!Arrive, Drop!importer
<1>3. CASE Drop!BeginImport
  BY <1>3, BeginImportStep
<1>4. CASE Drop!PassOver \/ Drop!Inject
  BY <1>4, TakeStep
<1>5. CASE Drop!Injected
  BY <1>5, InjectedStep
<1>6. CASE Drop!InjectFails
  BY <1>6 DEF DropTypeInv, ReplayInv, Drop!NeverBehind, Drop!InjectFails
<1>7. CASE Drop!SaveReplay
  BY <1>7, ImportRunning DEF DropTypeInv, ReplayInv, Drop!NeverBehind, Drop!SaveReplay, Drop!Off, Drop!NoBlob
<1>8. CASE Drop!ImportStops
  BY <1>8 DEF DropTypeInv, ReplayInv, Drop!NeverBehind, Drop!ImportStops, Drop!Off
<1>9. CASE UNCHANGED Drop!vars
  BY <1>9 DEF DropTypeInv, ReplayInv, Drop!NeverBehind, Drop!vars
<1> QED BY <1>1, <1>2, <1>3, <1>4, <1>5, <1>6, <1>7, <1>8, <1>9 DEF Drop!Next

-----------------------------------------------------------------------------
(* The theorems.                                                            *)

RelayInv == StoreInv /\ WorkerInv

LEMMA RelayInvHolds == MCSpec => []RelayInv
<1>1. MCInit => RelayInv
  BY StoreInit, WorkerInit DEF MCInit, RelayInv
<1>2. RelayInv /\ [MCNext]_<<part, vars, workerVars, gateVars, dropVars>> => RelayInv'
  <2> SUFFICES ASSUME RelayInv, [MCNext]_<<part, vars, workerVars, gateVars, dropVars>>
               PROVE  RelayInv'
    OBVIOUS
  <2>1. UNCHANGED workerVars <=> UNCHANGED Worker!vars
    BY DEF workerVars, Worker!vars
  <2>2. [Next]_vars /\ [Worker!Next]_(Worker!vars)
    BY <2>1 DEF MCNext
  <2> QED BY <2>2, StoreNext, WorkerNext DEF RelayInv
<1> QED BY <1>1, <1>2, PTL DEF MCSpec

LEMMA RefusalKeeps == MCSpec => RefusalKeepsNewest
<1>1. RelayInv =>
         [\A f \in files, h \in Hosts, n \in 1..MaxCounter, size \in Sizes :
             (/\ Keep > 1
              /\ Newer(files, f) = {}
              /\ NameOf(f) \notin Names(files')
              /\ Put(h, n, size) \/ PutKilled(h, n, size))
             => /\ NameOf(f) = [host |-> h, counter |-> n]
                /\ OverQuota(files) \/ size > f.size]_vars
  BY NewestIsTaken DEF RelayInv, StoreInv
<1> QED BY <1>1, RelayInvHolds, PTL DEF RefusalKeepsNewest

\* A room is within its quotas: on the server unless a PUT was killed in the middle
\* (server/store.js measures and takes back in one go), on Cloudflare when no PUT is under
\* way and none was cut off (worker/index.js measures after its own write, so of the PUTs that
\* overlap the last to measure sees them all).
THEOREM QuotasHold == MCSpec => []RoomsWithinQuota
<1>1. RelayInv => RoomsWithinQuota
  BY WorkerPromises DEF RelayInv, StoreInv, RoomsWithinQuota
<1> QED BY <1>1, RelayInvHolds, PTL

\* What was answered 204 is in the capped listing until it is deleted, expires, is replaced
\* or is outnumbered: what is written comes after it, and it was within the cap when it was
\* answered (listBlobs of server/store.js and worker/store.js).
THEOREM AnsweredIsListed == MCSpec => []PutsAreListed
<1>1. RelayInv => PutsAreListed
  BY WorkerPromises DEF RelayInv, StoreInv, PutsAreListed
<1> QED BY <1>1, RelayInvHolds, PTL

\* Neither relay erases a host.  A PUT the server refuses evicts at most the oldest of the
\* blobs kept, not the newest.  On Cloudflare a listing may be out of date when retention
\* deletes, but fewer PUTs of a host overlap than objects are kept, so one of the newer
\* objects it counted is no PUT's to take back (BeyondIsOutnumbered).
THEOREM NoHostIsErased == MCSpec => HostKeepsNewest
<1>1. RelayInv => Worker!HostKeepsNewest
  BY WorkerPromises DEF RelayInv
<1>2. MCSpec => [][Worker!HostKeepsNewest']_workerVars
  BY <1>1, RelayInvHolds, PTL
<1> QED BY <1>2, RefusalKeeps DEF HostKeepsNewest

\* A request is let through exactly as if no bucket were ever forgotten, unless more
\* buckets were wanted than are kept; and what is refused was spent (server/limits.js).
THEOREM LimitsExact == MCSpec => []LimitsAreExact
<1>1. MCInit => GateInv
  BY GateInitInv DEF MCInit
<1>2. GateInv /\ [MCNext]_<<part, vars, workerVars, gateVars, dropVars>> => GateInv'
  <2>1. [MCNext]_<<part, vars, workerVars, gateVars, dropVars>> => [Gate!Next]_(Gate!vars)
    <3>1. gateVars' = gateVars <=> Gate!vars' = Gate!vars
      BY DEF gateVars, Gate!vars
    <3> QED BY <3>1 DEF MCNext
  <2> QED BY <2>1, GateStep
<1> QED BY <1>1, <1>2, GateInvSuffices, PTL DEF MCSpec

\* Wherever either side stops and in whatever order the blobs arrive, a counter that is
\* passed over from now on is of a blob that was injected in full, or of an older one
\* (companion/drop.js, recordAccepted only after the injection).
THEOREM BrowserNotBehind == MCSpec => []NeverBehind
<1>1. MCInit => DropInv
  BY DropInit DEF MCInit
<1>2. DropInv /\ [MCNext]_<<part, vars, workerVars, gateVars, dropVars>> => DropInv'
  <2>1. [MCNext]_<<part, vars, workerVars, gateVars, dropVars>> => [Drop!Next]_(Drop!vars)
    <3>1. dropVars' = dropVars <=> Drop!vars' = Drop!vars
      BY DEF dropVars, Drop!vars
    <3> QED BY <3>1 DEF MCNext
  <2> QED BY <2>1, DropStep
<1>3. DropInv => NeverBehind
  BY DEF DropInv, NeverBehind
<1> QED BY <1>1, <1>2, <1>3, PTL DEF MCSpec
=============================================================================
