----------------------------- MODULE QueryStateProofs -----------------------------
(***************************************************************************)
(* What parse_api makes of a reply of any length, and hence what the       *)
(* single-query endpoints of TrueNASState publish, after any sequence of   *)
(* replies.                                                                *)
(***************************************************************************)
EXTENDS QueryState, WellFoundedInduction, TLAPS

-----------------------------------------------------------------------------
(* Induction and recursion over the entries of a reply *)

\* A set that has 0 and with n also n + 1 has every natural number.
LEMMA NatSetInduction ==
    ASSUME NEW S, 0 \in S, \A n \in Nat : n \in S => n + 1 \in S
    PROVE  Nat \subseteq S
<1> DEFINE T == {n \in Nat : n \notin S}
           R == {p \in Nat \X Nat : p[1] < p[2]}
<1> SUFFICES ASSUME T # {} PROVE FALSE
  OBVIOUS
<1>1. PICK x \in T : \A y \in T : <<y, x>> \notin R
  <2>1. IsWellFoundedOn(R, Nat)
    BY NatLessThanWellFounded DEF OpToRel
  <2>2. T \subseteq Nat
    OBVIOUS
  <2> HIDE DEF T, R
  <2> QED
    BY WFMin, <2>1, <2>2
<1>2. x - 1 \in Nat /\ x - 1 \notin S
  OBVIOUS
<1>3. <<x - 1, x>> \in R
  BY <1>2
<1> QED
  BY <1>1, <1>2, <1>3

\* m is the map after each of the first n rounds of the loop of parse_api ...
MergeRun(m, e, data, source, n) ==
    m = [i \in 0..n |-> IF i = 0 THEN data ELSE ApplyEntry(e, m[i - 1], source[i])]

\* ... and there is one: the recursion of Merge defines a function.
LEMMA MergeRuns ==
    ASSUME NEW e, NEW data, NEW source, NEW n \in Nat
    PROVE  \E m : MergeRun(m, e, data, source, n)
<1> DEFINE Ok == {k \in Nat : \E m : MergeRun(m, e, data, source, k)}
<1>1. 0 \in Ok
  <2>1. MergeRun([i \in 0..0 |-> data], e, data, source, 0)
    BY DEF MergeRun
  <2> QED
    BY <2>1
<1>2. ASSUME NEW k \in Nat, k \in Ok PROVE k + 1 \in Ok
  <2>1. PICK m : MergeRun(m, e, data, source, k)
    BY <1>2
  <2> DEFINE g == [i \in 0..(k + 1) |->
                      IF i = k + 1 THEN ApplyEntry(e, m[k], source[k + 1]) ELSE m[i]]
  <2>2. \A i \in 0..(k + 1) : g[i] = IF i = 0 THEN data ELSE ApplyEntry(e, g[i - 1], source[i])
    <3> TAKE i \in 0..(k + 1)
    <3>1. CASE i = k + 1
      <4>1. g[i - 1] = m[k]
        BY <3>1
      <4> QED
        BY <4>1, <3>1
    <3>2. CASE i # k + 1
      <4>1. i \in 0..k /\ g[i] = m[i]
        BY <3>2
      <4>2. m[i] = IF i = 0 THEN data ELSE ApplyEntry(e, m[i - 1], source[i])
        BY <4>1, <2>1 DEF MergeRun
      <4>3. i # 0 => g[i - 1] = m[i - 1]
        BY <4>1
      <4> QED
        BY <4>1, <4>2, <4>3
    <3> QED
      BY <3>1, <3>2
  <2>3. DOMAIN g = 0..(k + 1) /\ g = [i \in DOMAIN g |-> g[i]]
    OBVIOUS
  <2> HIDE DEF g
  <2>4. MergeRun(g, e, data, source, k + 1)
    BY <2>2, <2>3 DEF MergeRun
  <2> QED
    BY <2>4
<1> HIDE DEF Ok
<1>3. Nat \subseteq Ok
  BY <1>1, <1>2, NatSetInduction
<1> QED
  BY <1>3 DEF Ok

\* Merge is the last map of such a run.
LEMMA MergeIsRun ==
    ASSUME NEW e, NEW data, NEW source, Len(source) \in Nat
    PROVE  \E m : MergeRun(m, e, data, source, Len(source)) /\ Merge(e, data, source) = m[Len(source)]
<1> DEFINE merged == CHOOSE m : MergeRun(m, e, data, source, Len(source))
<1>1. Merge(e, data, source) = merged[Len(source)]
  BY DEF Merge, MergeRun
<1>2. MergeRun(merged, e, data, source, Len(source))
  BY MergeRuns
<1> QED
  BY <1>1, <1>2

\* The same for the filter of _compute_container_legacy.
FilterRun(k, reply, n) ==
    k = [i \in 0..n |-> IF i = 0 THEN << >>
                        ELSE IF IsContainer(reply[i]) THEN Append(k[i - 1], reply[i])
                        ELSE k[i - 1]]

LEMMA FilterRuns ==
    ASSUME NEW reply, NEW n \in Nat
    PROVE  \E k : FilterRun(k, reply, n)
<1> DEFINE Ok == {j \in Nat : \E k : FilterRun(k, reply, j)}
<1>1. 0 \in Ok
  <2>1. FilterRun([i \in 0..0 |-> << >>], reply, 0)
    BY DEF FilterRun
  <2> QED
    BY <2>1
<1>2. ASSUME NEW j \in Nat, j \in Ok PROVE j + 1 \in Ok
  <2>1. PICK k : FilterRun(k, reply, j)
    BY <1>2
  <2> DEFINE s == IF IsContainer(reply[j + 1]) THEN Append(k[j], reply[j + 1]) ELSE k[j]
             g == [i \in 0..(j + 1) |-> IF i = j + 1 THEN s ELSE k[i]]
  <2>2. \A i \in 0..(j + 1) : g[i] = IF i = 0 THEN << >>
                                     ELSE IF IsContainer(reply[i]) THEN Append(g[i - 1], reply[i])
                                     ELSE g[i - 1]
    <3> TAKE i \in 0..(j + 1)
    <3>1. CASE i = j + 1
      <4>1. g[i - 1] = k[j] /\ g[i] = s
        BY <3>1
      <4> QED
        BY <4>1, <3>1
    <3>2. CASE i # j + 1
      <4>1. i \in 0..j /\ g[i] = k[i]
        BY <3>2
      <4>2. k[i] = IF i = 0 THEN << >>
                   ELSE IF IsContainer(reply[i]) THEN Append(k[i - 1], reply[i])
                   ELSE k[i - 1]
        BY <4>1, <2>1 DEF FilterRun
      <4>3. i # 0 => g[i - 1] = k[i - 1]
        BY <4>1
      <4> QED
        BY <4>1, <4>2, <4>3
    <3> QED
      BY <3>1, <3>2
  <2>3. DOMAIN g = 0..(j + 1) /\ g = [i \in DOMAIN g |-> g[i]]
    OBVIOUS
  <2> HIDE DEF g
  <2>4. FilterRun(g, reply, j + 1)
    BY <2>2, <2>3 DEF FilterRun
  <2> QED
    BY <2>4
<1> HIDE DEF Ok
<1>3. Nat \subseteq Ok
  BY <1>1, <1>2, NatSetInduction
<1> QED
  BY <1>3 DEF Ok

\* What parse_api is given is no list, or a sequence of entries of the reply.
LEMMA SourceType ==
    ASSUME NEW S, NEW e, NEW reply, reply = NotList \/ reply \in Seq(S)
    PROVE  Source(e, reply) = NotList \/ Source(e, reply) \in Seq(S)
<1>1. CASE e # "container" \/ reply = NotList
  BY <1>1 DEF Source
<1>2. CASE e = "container" /\ reply # NotList
  <2>1. reply \in Seq(S) /\ Len(reply) \in Nat
    BY <1>2
  <2> DEFINE kept == CHOOSE k : FilterRun(k, reply, Len(reply))
  <2>2. Source(e, reply) = kept[Len(reply)]
    BY <1>2 DEF Source, FilterRun
  <2>3. FilterRun(kept, reply, Len(reply))
    BY <2>1, FilterRuns
  <2> HIDE DEF kept
  <2> DEFINE Ok == {i \in Nat : i <= Len(reply) => kept[i] \in Seq(S)}
  <2>4. 0 \in Ok
    BY <2>1, <2>3 DEF FilterRun
  <2>5. ASSUME NEW i \in Nat, i \in Ok PROVE i + 1 \in Ok
    <3> SUFFICES ASSUME i + 1 <= Len(reply) PROVE kept[i + 1] \in Seq(S)
      OBVIOUS
    <3>1. kept[i + 1] = IF IsContainer(reply[i + 1]) THEN Append(kept[i], reply[i + 1]) ELSE kept[i]
      <4>1. i + 1 \in 0..Len(reply) /\ i + 1 # 0 /\ (i + 1) - 1 = i
        BY <2>1
      <4>2. \A n \in 0..Len(reply) : n # 0 =>
                kept[n] = IF IsContainer(reply[n]) THEN Append(kept[n - 1], reply[n]) ELSE kept[n - 1]
        BY <2>3 DEF FilterRun
      <4> HIDE DEF Ok
      <4> QED
        BY <4>1, <4>2
    <3>2. kept[i] \in Seq(S) /\ reply[i + 1] \in S
      BY <2>1, <2>5
    <3> QED
      BY <3>1, <3>2
  <2> HIDE DEF Ok
  <2>6. Nat \subseteq Ok
    BY <2>4, <2>5, NatSetInduction
  <2> QED
    BY <2>1, <2>2, <2>6 DEF Ok
<1> QED
  BY <1>1, <1>2

-----------------------------------------------------------------------------
(* One entry *)

IsFcn(f) == f = [x \in DOMAIN f |-> f[x]]

LEMMA FcnEqual ==
    ASSUME NEW f, NEW g, IsFcn(f), IsFcn(g), DOMAIN f = DOMAIN g, \A x \in DOMAIN f : f[x] = g[x]
    PROVE  f = g
BY DEF IsFcn

LEMMA OverIs ==
    ASSUME NEW f, NEW g
    PROVE  /\ IsFcn(Over(f, g)) /\ DOMAIN Over(f, g) = DOMAIN f \cup DOMAIN g
           /\ \A x \in DOMAIN f : Over(f, g)[x] = f[x]
           /\ \A x \in DOMAIN g \ DOMAIN f : Over(f, g)[x] = g[x]
BY DEF IsFcn, Over

\* The fields an entry brings, and those a method adds to the record.
RawFields(e) ==
    CASE e = "service" -> {"state", "name", "service"}
      [] e = "vm" -> {"memory", "status"}
      [] e = "interface" -> {"link_state"}
      [] e = "replication" -> {"state", "job_state"}
      [] e = "cronjob" -> {"description", "command"}
      [] e = "app" -> {"state", "custom_app", "update_available", "image_updates_available"}
      [] e = "certificate" -> {"until"}
      [] e = "container" -> {"type", "cpu", "memory"}
      [] e = "container26" -> {"cpuset", "image", "status"}
      [] OTHER -> {"enabled"}
AddedFields(e) ==
    CASE e = "service" -> {"running", "display_name"}
      [] e = "vm" -> {"running"}
      [] e = "interface" -> {"link_up", "rx"}
      [] e = "cronjob" -> {"display_name"}
      [] e = "app" -> {"running"}
      [] e = "certificate" -> {"expiry_known"}
      [] e = "container26" -> {"type", "memory", "cpu", "running"}
      [] OTHER -> {}
Fields(e) == RawFields(e) \cup AddedFields(e)

LEMMA RawDomain ==
    ASSUME NEW e, NEW raw \in Raw(e)
    PROVE  DOMAIN raw = RawFields(e)
<1>1. CASE e = "service"
  BY <1>1 DEF Raw, RawFields
<1>2. CASE e = "vm"
  BY <1>2 DEF Raw, RawFields
<1>3. CASE e = "interface"
  BY <1>3 DEF Raw, RawFields
<1>4. CASE e = "replication"
  BY <1>4 DEF Raw, RawFields
<1>5. CASE e = "cronjob"
  BY <1>5 DEF Raw, RawFields
<1>6. CASE e = "app"
  BY <1>6 DEF Raw, RawFields
<1>7. CASE e = "certificate"
  BY <1>7 DEF Raw, RawFields
<1>8. CASE e = "container"
  BY <1>8 DEF Raw, RawFields
<1>9. CASE e = "container26"
  BY <1>9 DEF Raw, RawFields
<1>10. CASE e \notin {"service", "vm", "interface", "replication", "cronjob", "app",
                      "certificate", "container", "container26"}
  BY <1>10 DEF Raw, RawFields
<1> QED
  BY <1>1, <1>2, <1>3, <1>4, <1>5, <1>6, <1>7, <1>8, <1>9, <1>10

LEMMA UsableEntry ==
    ASSUME NEW e, NEW entry \in Entries(e), GetUid(entry) # Null
    PROVE  /\ entry # NotDict /\ GetUid(entry) = entry.uid /\ entry.uid \in Uids
           /\ entry.raw \in Raw(e) /\ DOMAIN entry.raw = RawFields(e)
<1>1. entry # NotDict /\ entry.uid \in Uids /\ GetUid(entry) = entry.uid
  BY DEF GetUid
<1>2. entry.raw \in Raw(e)
  BY <1>1, QueryStateAssumption DEF Entries
<1> QED
  BY <1>1, <1>2, RawDomain

\* What is known of a cached record, whether its method returned or raised.
Known(e, v) ==
    IsFcn(v) /\ DOMAIN v \subseteq Fields(e) /\ (e = "interface" => "rx" \in DOMAIN v)

\* A record that an entry was merged into: all of the entry's fields are there.
Filled(e, v) == Known(e, v) /\ RawFields(e) \subseteq DOMAIN v

\* _apply_entry replaces the fields the entry brings, and keeps the throughput.
Applied(e, entry, data, uid, next) ==
    /\ DOMAIN next = DOMAIN data \cup {uid}
    /\ \A u \in DOMAIN data \ {uid} : next[u] = data[u]
    /\ Filled(e, next[uid])
    /\ \A f \in RawFields(e) : next[uid][f] = SetVal(f, entry.raw[f])
    /\ e = "interface" => next[uid].rx = IF uid \in DOMAIN data THEN data[uid].rx ELSE 0

LEMMA ApplyEntryEffect ==
    ASSUME NEW e, NEW entry \in Entries(e), NEW data, NEW uid, uid = GetUid(entry), uid # Null,
           uid \in DOMAIN data => Known(e, data[uid]),
           NEW next, next = ApplyEntry(e, data, entry)
    PROVE  Applied(e, entry, data, uid, next)
<1> DEFINE target == IF uid \in DOMAIN data THEN data[uid] ELSE EmptyMap
           read == [f \in DOMAIN entry.raw |-> SetVal(f, entry.raw[f])]
           v == FillEnsureVals(e, FillVals(target, entry.raw))
<1>1. next =
          [u \in DOMAIN data \cup {uid} |-> IF u = uid THEN v ELSE data[u]]
  BY DEF ApplyEntry
<1>2. DOMAIN read = RawFields(e) /\ \A f \in RawFields(e) : read[f] = SetVal(f, entry.raw[f])
  BY UsableEntry
<1>3. DOMAIN target \subseteq Fields(e) /\ (e = "interface" /\ uid \in DOMAIN data => "rx" \in DOMAIN target)
  BY DEF Known, EmptyMap
<1>4. v = Over(Over(read, target), Ensured(e))
  BY DEF FillEnsureVals, FillVals
<1>5. DOMAIN Ensured(e) = IF e = "interface" THEN {"rx"} ELSE {}
  BY DEF Ensured, EmptyMap
<1> DEFINE w == Over(read, target)
<1>a. /\ DOMAIN w = DOMAIN read \cup DOMAIN target
      /\ \A x \in DOMAIN read : w[x] = read[x]
      /\ \A x \in DOMAIN target \ DOMAIN read : w[x] = target[x]
  <2> HIDE DEF read, target
  <2> QED
    BY OverIs
<1> HIDE DEF read, target, w
<1>b. /\ IsFcn(v) /\ DOMAIN v = DOMAIN w \cup DOMAIN Ensured(e)
      /\ \A x \in DOMAIN w : v[x] = w[x]
      /\ \A x \in DOMAIN Ensured(e) \ DOMAIN w : v[x] = Ensured(e)[x]
  <2>1. v = Over(w, Ensured(e))
    BY <1>4 DEF w
  <2> DEFINE g == Ensured(e)
  <2>2. v = Over(w, g)
    BY <2>1
  <2> HIDE DEF v, g
  <2>3. /\ IsFcn(Over(w, g)) /\ DOMAIN Over(w, g) = DOMAIN w \cup DOMAIN g
        /\ \A x \in DOMAIN w : Over(w, g)[x] = w[x]
        /\ \A x \in DOMAIN g \ DOMAIN w : Over(w, g)[x] = g[x]
    BY OverIs
  <2> QED
    BY <2>2, <2>3 DEF g
<1> HIDE DEF v
<1>6. /\ IsFcn(v) /\ DOMAIN v = RawFields(e) \cup DOMAIN target \cup DOMAIN Ensured(e)
      /\ \A f \in RawFields(e) : v[f] = SetVal(f, entry.raw[f])
  BY <1>2, <1>a, <1>b
<1>7. e = "interface" => /\ v.rx = IF "rx" \in DOMAIN target THEN target.rx ELSE 0
                         /\ RawFields(e) = {"link_state"} /\ "rx" \in Fields(e)
  <2> SUFFICES ASSUME e = "interface"
               PROVE  /\ v.rx = IF "rx" \in DOMAIN target THEN target.rx ELSE 0
                      /\ RawFields(e) = {"link_state"} /\ "rx" \in Fields(e)
    OBVIOUS
  <2>1. RawFields(e) = {"link_state"} /\ "rx" \in Fields(e) /\ Ensured(e).rx = 0
    BY DEF RawFields, Fields, AddedFields, Ensured
  <2> QED
    BY <1>2, <1>5, <1>a, <1>b, <2>1
<1>8. Filled(e, v)
  BY <1>3, <1>5, <1>6, <1>7 DEF Filled, Known, Fields
<1>9. e = "interface" => v.rx = IF uid \in DOMAIN data THEN data[uid].rx ELSE 0
  BY <1>3, <1>7 DEF target, EmptyMap
<1> QED
  BY <1>1, <1>6, <1>8, <1>9 DEF Applied

-----------------------------------------------------------------------------
(* All entries *)

SeenTo(source, n) == {GetUid(source[i]) : i \in 1..n} \ {Null}

\* Entry j is the last of the first n that names its record.
IsLast(source, j, n) ==
    GetUid(source[j]) # Null /\ \A i \in 1..n : i > j => GetUid(source[i]) # GetUid(source[j])

\* What n rounds of the loop make of data: the records the entries do not name are
\* left alone, the others have the fields of the last entry that names them.
Rounds(e, data, source, n, d) ==
    /\ DOMAIN d = DOMAIN data \cup SeenTo(source, n)
    /\ \A u \in DOMAIN data \ SeenTo(source, n) : d[u] = data[u]
    /\ \A u \in SeenTo(source, n) :
           /\ Filled(e, d[u])
           /\ e = "interface" => d[u].rx = IF u \in DOMAIN data THEN data[u].rx ELSE 0
    /\ \A j \in 1..n : IsLast(source, j, n) =>
           \A f \in RawFields(e) : d[GetUid(source[j])][f] = SetVal(f, source[j].raw[f])

LEMMA SeenNext ==
    ASSUME NEW source, NEW n \in Nat
    PROVE  SeenTo(source, n + 1) =
               IF GetUid(source[n + 1]) = Null THEN SeenTo(source, n)
               ELSE SeenTo(source, n) \cup {GetUid(source[n + 1])}
<1>1. 1..(n + 1) = 1..n \cup {n + 1}
  OBVIOUS
<1> QED
  BY <1>1 DEF SeenTo

\* One more round.
LEMMA RoundsStep ==
    ASSUME NEW e, NEW data, NEW source \in Seq(Entries(e)), NEW n \in Nat, n + 1 <= Len(source),
           \A u \in DOMAIN data : Known(e, data[u]), NEW d, Rounds(e, data, source, n, d)
    PROVE  Rounds(e, data, source, n + 1, ApplyEntry(e, d, source[n + 1]))
<1> DEFINE entry == source[n + 1]
           uid == GetUid(entry)
           next == ApplyEntry(e, d, entry)
<1>0. entry \in Entries(e)
  OBVIOUS
<1>1. CASE uid = Null
  <2>1. next = d
    BY <1>1 DEF ApplyEntry
  <2>2. SeenTo(source, n + 1) = SeenTo(source, n)
    BY <1>1, SeenNext
  <2>3. ASSUME NEW j \in 1..(n + 1), IsLast(source, j, n + 1) PROVE j \in 1..n /\ IsLast(source, j, n)
    BY <1>1, <2>3 DEF IsLast
  <2>4. Rounds(e, data, source, n + 1, d)
    <3> HIDE DEF next, uid, entry
    <3> QED
      BY <2>2, <2>3 DEF Rounds
  <2> QED
    BY <2>1, <2>4
<1>2. CASE uid # Null
  <2>1. uid \in DOMAIN d => Known(e, d[uid])
    BY DEF Rounds, Filled
  <2> HIDE DEF entry
  <2>2. /\ DOMAIN next = DOMAIN d \cup {uid}
        /\ \A u \in DOMAIN d \ {uid} : next[u] = d[u]
        /\ Filled(e, next[uid])
        /\ \A f \in RawFields(e) : next[uid][f] = SetVal(f, entry.raw[f])
        /\ e = "interface" => next[uid].rx = IF uid \in DOMAIN d THEN d[uid].rx ELSE 0
    <3> HIDE DEF uid, next
    <3>1. uid = GetUid(entry) /\ next = ApplyEntry(e, d, entry)
      BY DEF uid, next
    <3>2. Applied(e, entry, d, uid, next)
      BY <1>0, <1>2, <2>1, <3>1, ApplyEntryEffect
    <3> QED
      BY <3>2 DEF Applied
  <2>3. SeenTo(source, n + 1) = SeenTo(source, n) \cup {uid}
    BY <1>2, SeenNext DEF entry
  <2> HIDE DEF next, uid
  <2>4. DOMAIN next = DOMAIN data \cup SeenTo(source, n + 1)
    BY <2>2, <2>3 DEF Rounds
  <2>5. \A u \in DOMAIN data \ SeenTo(source, n + 1) : next[u] = data[u]
    BY <2>2, <2>3 DEF Rounds
  <2>6. ASSUME NEW u \in SeenTo(source, n + 1)
        PROVE  /\ Filled(e, next[u])
               /\ e = "interface" => next[u].rx = IF u \in DOMAIN data THEN data[u].rx ELSE 0
    <3>1. CASE u = uid
      <4>1. uid \in SeenTo(source, n) /\ e = "interface" =>
                d[uid].rx = IF uid \in DOMAIN data THEN data[uid].rx ELSE 0
        BY DEF Rounds
      <4>2. uid \notin SeenTo(source, n) =>
                (uid \in DOMAIN d <=> uid \in DOMAIN data) /\ (uid \in DOMAIN data => d[uid] = data[uid])
        BY DEF Rounds
      <4>3. uid \in SeenTo(source, n) => uid \in DOMAIN d
        BY DEF Rounds
      <4> QED
        BY <2>2, <3>1, <4>1, <4>2, <4>3
    <3>2. CASE u # uid
      <4>1. u \in SeenTo(source, n) /\ u \in DOMAIN d /\ next[u] = d[u]
        BY <2>2, <2>3, <3>2 DEF Rounds
      <4> QED
        BY <4>1 DEF Rounds
    <3> QED
      BY <3>1, <3>2
  <2>7. ASSUME NEW j \in 1..(n + 1), IsLast(source, j, n + 1), NEW f \in RawFields(e)
        PROVE  next[GetUid(source[j])][f] = SetVal(f, source[j].raw[f])
    <3>1. CASE j = n + 1
      BY <2>2, <3>1 DEF entry, uid
    <3>2. CASE j # n + 1
      <4>1. j \in 1..n /\ n + 1 \in 1..(n + 1) /\ n + 1 > j
        BY <3>2
      <4>2. IsLast(source, j, n) /\ GetUid(source[j]) # uid
        BY <2>7, <4>1 DEF IsLast, uid, entry
      <4>3. GetUid(source[j]) \in SeenTo(source, n)
        BY <4>1, <4>2 DEF SeenTo, IsLast
      <4>4. next[GetUid(source[j])] = d[GetUid(source[j])]
        BY <2>2, <4>2, <4>3 DEF Rounds
      <4> QED
        BY <4>1, <4>2, <4>4 DEF Rounds
    <3> QED
      BY <3>1, <3>2
  <2>8. Rounds(e, data, source, n + 1, next)
    BY <2>4, <2>5, <2>6, <2>7 DEF Rounds
  <2> QED
    BY <2>8 DEF next, entry
<1> QED
  BY <1>1, <1>2

\* The whole loop.
LEMMA MergeRounds ==
    ASSUME NEW e, NEW data, NEW source \in Seq(Entries(e)), \A u \in DOMAIN data : Known(e, data[u])
    PROVE  Rounds(e, data, source, Len(source), Merge(e, data, source))
<1>0. Len(source) \in Nat
  OBVIOUS
<1>1. PICK m : MergeRun(m, e, data, source, Len(source)) /\ Merge(e, data, source) = m[Len(source)]
  BY <1>0, MergeIsRun
<1> DEFINE Ok == {i \in Nat : i <= Len(source) => Rounds(e, data, source, i, m[i])}
<1>2. 0 \in Ok
  <2>1. m[0] = data
    BY <1>0, <1>1 DEF MergeRun
  <2>2. SeenTo(source, 0) = {} /\ 1..0 = {}
    BY DEF SeenTo
  <2> QED
    BY <2>1, <2>2 DEF Rounds
<1>3. ASSUME NEW i \in Nat, i \in Ok PROVE i + 1 \in Ok
  <2> SUFFICES ASSUME i + 1 <= Len(source) PROVE Rounds(e, data, source, i + 1, m[i + 1])
    OBVIOUS
  <2>1. Rounds(e, data, source, i, m[i])
    BY <1>0, <1>3
  <2>2. m[i + 1] = ApplyEntry(e, m[i], source[i + 1])
    <3>1. i + 1 \in 0..Len(source) /\ i + 1 # 0 /\ (i + 1) - 1 = i
      BY <1>0
    <3>2. \A n \in 0..Len(source) : n # 0 => m[n] = ApplyEntry(e, m[n - 1], source[n])
      BY <1>1 DEF MergeRun
    <3> HIDE DEF Ok
    <3> QED
      BY <3>1, <3>2
  <2> HIDE DEF Ok
  <2>3. Rounds(e, data, source, i + 1, ApplyEntry(e, m[i], source[i + 1]))
    BY <2>1, RoundsStep
  <2> QED
    BY <2>2, <2>3
<1> HIDE DEF Ok
<1>4. Nat \subseteq Ok
  BY <1>2, <1>3, NatSetInduction
<1> QED
  BY <1>0, <1>1, <1>4 DEF Ok

\* Every record that is named has a last entry that names it.
LEMMA LastIndex ==
    ASSUME NEW source, NEW n \in Nat, NEW u \in SeenTo(source, n)
    PROVE  \E j \in 1..n : GetUid(source[j]) = u /\ IsLast(source, j, n)
<1> DEFINE Ok == {k \in Nat : u \in SeenTo(source, k) =>
                                  \E j \in 1..k : GetUid(source[j]) = u /\ IsLast(source, j, k)}
<1>1. 0 \in Ok
  BY DEF SeenTo
<1>2. ASSUME NEW k \in Nat, k \in Ok PROVE k + 1 \in Ok
  <2> SUFFICES ASSUME u \in SeenTo(source, k + 1)
               PROVE  \E j \in 1..(k + 1) : GetUid(source[j]) = u /\ IsLast(source, j, k + 1)
    OBVIOUS
  <2>0. u # Null
    BY DEF SeenTo
  <2>1. CASE GetUid(source[k + 1]) = u
    BY <2>0, <2>1 DEF IsLast
  <2>2. CASE GetUid(source[k + 1]) # u
    <3>1. u \in SeenTo(source, k)
      <4>1. SeenTo(source, k + 1) \subseteq SeenTo(source, k) \cup {GetUid(source[k + 1])}
        BY SeenNext
      <4> QED
        BY <2>2, <4>1
    <3>2. PICK j \in 1..k : GetUid(source[j]) = u /\ IsLast(source, j, k)
      BY <1>2, <3>1
    <3>3. IsLast(source, j, k + 1)
      BY <2>2, <3>2 DEF IsLast
    <3> QED
      BY <3>2, <3>3
  <2> QED
    BY <2>1, <2>2
<1> HIDE DEF Ok
<1>3. Nat \subseteq Ok
  BY <1>1, <1>2, NatSetInduction
<1> QED
  BY <1>3 DEF Ok

-----------------------------------------------------------------------------
(* parse_api *)

\* The sources parse_api takes for a failed query.
Unusable(source) == source = NotList \/ (source # << >> /\ SeenUids(source) = {})

LEMMA SeenUidsTo ==
    ASSUME NEW S, NEW source \in Seq(S)
    PROVE  SeenUids(source) = SeenTo(source, Len(source))
BY DEF SeenUids, SeenTo

\* Entries without an id change nothing.
LEMMA MergeNothing ==
    ASSUME NEW e, NEW data, NEW S, NEW source \in Seq(S), SeenUids(source) = {}
    PROVE  Merge(e, data, source) = data
<1>0. Len(source) \in Nat
  OBVIOUS
<1>1. PICK m : MergeRun(m, e, data, source, Len(source)) /\ Merge(e, data, source) = m[Len(source)]
  BY <1>0, MergeIsRun
<1>2. \A i \in 1..Len(source) : GetUid(source[i]) = Null
  BY DEF SeenUids
<1>3. m[0] = data /\ \A n \in 1..Len(source) : m[n] = m[n - 1]
  <2>1. m[0] = data /\ \A n \in 1..Len(source) : m[n] = ApplyEntry(e, m[n - 1], source[n])
    BY <1>0, <1>1 DEF MergeRun
  <2> QED
    BY <1>2, <2>1 DEF ApplyEntry
<1> DEFINE Ok == {i \in Nat : i <= Len(source) => m[i] = data}
<1>4. 0 \in Ok
  BY <1>3
<1>5. ASSUME NEW i \in Nat, i \in Ok PROVE i + 1 \in Ok
  <2> SUFFICES ASSUME i + 1 <= Len(source) PROVE m[i + 1] = data
    OBVIOUS
  <2>1. i + 1 \in 1..Len(source) /\ (i + 1) - 1 = i /\ m[i] = data
    BY <1>0, <1>5
  <2>2. m[i + 1] = m[(i + 1) - 1]
    BY <1>3, <2>1
  <2> QED
    BY <2>1, <2>2
<1> HIDE DEF Ok
<1>6. Nat \subseteq Ok
  BY <1>4, <1>5, NatSetInduction
<1> QED
  BY <1>0, <1>1, <1>6 DEF Ok

\* A source that is taken for a failed query leaves the map as it was ...
LEMMA ParseApiKeeps ==
    ASSUME NEW e, NEW data, NEW S, NEW source, source = NotList \/ source \in Seq(S), Unusable(source)
    PROVE  ParseApi(e, data, source) = data
<1>1. CASE source = NotList
  BY <1>1 DEF ParseApi
<1>2. CASE source # NotList
  <2>1. source \in Seq(S) /\ source # << >> /\ SeenUids(source) = {}
    BY <1>2 DEF Unusable
  <2>2. Merge(e, data, source) = data
    BY <2>1, MergeNothing
  <2> QED
    BY <1>2, <2>1, <2>2 DEF ParseApi, Prune
<1> QED
  BY <1>1, <1>2

\* ... and any other drops the records it does not name: the test of parse_api and
\* that of _note_primary_query_outcome agree.
LEMMA ForeignKept ==
    ASSUME NEW e, NEW S, NEW source, source = NotList \/ source \in Seq(S)
    PROVE  (Foreign \in DOMAIN ParseApi(e, [u \in {Foreign} |-> EmptyMap], source)) <=> Unusable(source)
<1> DEFINE data == [u \in {Foreign} |-> EmptyMap]
<1>1. CASE Unusable(source)
  <2>1. ParseApi(e, data, source) = data
    BY <1>1, ParseApiKeeps
  <2> QED
    BY <1>1, <2>1
<1>2. CASE ~Unusable(source) /\ source = << >>
  BY <1>2 DEF Unusable, ParseApi, EmptyMap
<1>3. CASE ~Unusable(source) /\ source # << >>
  <2>1. SeenUids(source) # {} /\ source # NotList
    BY <1>3 DEF Unusable
  <2>2. ParseApi(e, data, source) = Restrict(Merge(e, data, source), SeenUids(source))
    BY <1>3, <2>1 DEF ParseApi, Prune
  <2>3. DOMAIN ParseApi(e, data, source) = SeenUids(source)
    BY <2>2 DEF Restrict
  <2>4. Foreign \notin SeenUids(source)
    BY QueryStateAssumption DEF SeenUids, GetUid
  <2> QED
    BY <1>3, <2>3, <2>4
<1> QED
  BY <1>1, <1>2, <1>3

\* The records of a usable source: all that it names and no other, each with the
\* fields of the last entry that names it.
LEMMA ParseApiReads ==
    ASSUME NEW e, NEW data, NEW source \in Seq(Entries(e)), ~Unusable(source), source # << >>,
           \A u \in DOMAIN data : Known(e, data[u])
    PROVE  /\ IsFcn(ParseApi(e, data, source)) /\ DOMAIN ParseApi(e, data, source) = SeenUids(source)
           /\ \A u \in SeenUids(source) :
                  LET v == ParseApi(e, data, source)[u]
                      raw == LastEntry(source, u).raw
                  IN  /\ raw \in Raw(e) /\ Filled(e, v)
                      /\ \A f \in RawFields(e) : v[f] = SetVal(f, raw[f])
                      /\ e = "interface" => v.rx = IF u \in DOMAIN data THEN data[u].rx ELSE 0
<1> DEFINE merged == Merge(e, data, source)
<1>0. Len(source) \in Nat /\ DOMAIN source = 1..Len(source)
  OBVIOUS
<1>1. SeenUids(source) # {} /\ source # NotList
  BY DEF Unusable
<1>2. ParseApi(e, data, source) = [u \in SeenUids(source) |-> merged[u]]
  BY <1>1 DEF ParseApi, Prune, Restrict
<1>3. Rounds(e, data, source, Len(source), merged)
  BY MergeRounds
<1> HIDE DEF merged
<1>4. ASSUME NEW u \in SeenUids(source)
      PROVE  /\ LastEntry(source, u).raw \in Raw(e) /\ Filled(e, merged[u])
             /\ \A f \in RawFields(e) : merged[u][f] = SetVal(f, LastEntry(source, u).raw[f])
             /\ e = "interface" => merged[u].rx = IF u \in DOMAIN data THEN data[u].rx ELSE 0
  <2> DEFINE P(i) == GetUid(source[i]) = u /\ \A j \in DOMAIN source : j > i => GetUid(source[j]) # u
             last == CHOOSE i \in DOMAIN source : P(i)
  <2>1. u \in SeenTo(source, Len(source)) /\ u # Null
    BY SeenUidsTo DEF SeenTo
  <2>2. \E i \in DOMAIN source : P(i)
    BY <1>0, <2>1, LastIndex DEF IsLast
  <2>3. last \in DOMAIN source /\ P(last)
    <3> HIDE DEF P
    <3> QED
      BY <2>2
  <2>4. LastEntry(source, u) = source[last]
    BY DEF LastEntry
  <2> HIDE DEF last
  <2>5. last \in 1..Len(source) /\ IsLast(source, last, Len(source)) /\ GetUid(source[last]) = u
    BY <1>0, <2>1, <2>3 DEF IsLast
  <2>6. source[last].raw \in Raw(e)
    <3>1. source[last] \in Entries(e)
      BY <2>3
    <3> QED
      BY <2>1, <2>5, <3>1, UsableEntry
  <2> QED
    BY <1>3, <2>1, <2>4, <2>5, <2>6 DEF Rounds
<1> QED
  BY <1>2, <1>4 DEF IsFcn

-----------------------------------------------------------------------------
(* The derivations *)

LEMMA OverTwice ==
    ASSUME NEW r, NEW v
    PROVE  Over(r, Over(r, v)) = Over(r, v)
BY DEF Over

LEMMA OverSame ==
    ASSUME NEW r, NEW v, NEW w, DOMAIN r \cup DOMAIN v = DOMAIN r \cup DOMAIN w,
           \A x \in DOMAIN v \ DOMAIN r : v[x] = w[x]
    PROVE  Over(r, v) = Over(r, w)
BY DEF Over

\* A derivation reads the fields an entry brings, and the throughput stays: what was
\* in the record before does not show in the result.
LEMMA DeriveSame ==
    ASSUME NEW e, NEW v, NEW w, Filled(e, v), Filled(e, w),
           \A f \in RawFields(e) : v[f] = w[f], e = "interface" => v.rx = w.rx
    PROVE  Derive(e, v) = Derive(e, w)
<1> USE DEF Filled, Known, Fields
<1>1. CASE e = "service"
  <2> DEFINE r == [running |-> v.state = "RUNNING",
                   display_name |-> IF v.name \notin {"", "unknown"} THEN v.name
                                    ELSE IF v.service = "ssh" THEN "SSH" ELSE v.service]
  <2>1. Derive(e, v) = Over(r, v) /\ Derive(e, w) = Over(r, w)
    BY <1>1 DEF Derive, DeriveService, RawFields
  <2>2. DOMAIN r = {"running", "display_name"}
    OBVIOUS
  <2> HIDE DEF r
  <2> QED
    BY <1>1, <2>1, <2>2, OverSame DEF RawFields, AddedFields
<1>2. CASE e = "vm"
  <2> DEFINE r == [memory |-> Gib(v.memory), running |-> v.status = "RUNNING"]
  <2>1. Derive(e, v) = Over(r, v) /\ Derive(e, w) = Over(r, w)
    BY <1>2 DEF Derive, DeriveVm, RawFields
  <2>2. DOMAIN r = {"memory", "running"}
    OBVIOUS
  <2> HIDE DEF r
  <2> QED
    BY <1>2, <2>1, <2>2, OverSame DEF RawFields, AddedFields
<1>3. CASE e = "interface"
  <2> DEFINE r == [link_up |-> v.link_state = "LINK_STATE_UP"]
  <2>1. Derive(e, v) = Over(r, v) /\ Derive(e, w) = Over(r, w)
    BY <1>3 DEF Derive, DeriveInterface, RawFields
  <2>2. DOMAIN r = {"link_up"}
    OBVIOUS
  <2> HIDE DEF r
  <2> QED
    BY <1>3, <2>1, <2>2, OverSame DEF RawFields, AddedFields
<1>4. CASE e = "replication"
  BY <1>4 DEF Derive, DeriveReplication, RawFields
<1>5. CASE e = "cronjob"
  <2> DEFINE r == [display_name |-> IF v.description \notin {Garbage, ""} THEN "description"
                                    ELSE IF v.command \notin {Garbage, ""} THEN "command"
                                    ELSE "id"]
  <2>1. Derive(e, v) = Over(r, v) /\ Derive(e, w) = Over(r, w)
    BY <1>5 DEF Derive, DeriveCronjob, RawFields
  <2>2. DOMAIN r = {"display_name"}
    OBVIOUS
  <2> HIDE DEF r
  <2> QED
    BY <1>5, <2>1, <2>2, OverSame DEF RawFields, AddedFields
<1>6. CASE e = "app"
  <2> DEFINE r == [running |-> v.state = "RUNNING",
                   update_available |-> v.update_available \/ (v.custom_app /\ v.image_updates_available)]
  <2>1. Derive(e, v) = Over(r, v) /\ Derive(e, w) = Over(r, w)
    BY <1>6 DEF Derive, DeriveApp, RawFields
  <2>2. DOMAIN r = {"running", "update_available"}
    OBVIOUS
  <2> HIDE DEF r
  <2> QED
    BY <1>6, <2>1, <2>2, OverSame DEF RawFields, AddedFields
<1>7. CASE e = "certificate"
  <2> DEFINE r == [expiry_known |-> v.until # Null]
  <2>1. Derive(e, v) = Over(r, v) /\ Derive(e, w) = Over(r, w)
    BY <1>7 DEF Derive, DeriveCertificate, RawFields
  <2>2. DOMAIN r = {"expiry_known"}
    OBVIOUS
  <2> HIDE DEF r
  <2> QED
    BY <1>7, <2>1, <2>2, OverSame DEF RawFields, AddedFields
<1>8. CASE e = "container"
  <2> DEFINE r == [cpu |-> ToInt(v.cpu), memory |-> Mib(v.memory)]
  <2>1. Derive(e, v) = Over(r, v) /\ Derive(e, w) = Over(r, w)
    BY <1>8 DEF Derive, DeriveContainerLegacy, RawFields
  <2>2. DOMAIN r = {"cpu", "memory"}
    OBVIOUS
  <2> HIDE DEF r
  <2> QED
    BY <1>8, <2>1, <2>2, OverSame DEF RawFields, AddedFields
<1>9. CASE e = "container26"
  BY <1>9 DEF Derive, DeriveContainerV26, RawFields
<1>10. CASE e \notin {"service", "vm", "interface", "replication", "cronjob", "app",
                      "certificate", "container", "container26"}
  <2>1. Derive(e, v) = v /\ Derive(e, w) = w /\ Fields(e) = RawFields(e)
    BY <1>10 DEF Derive, RawFields, AddedFields
  <2> QED
    BY <2>1, FcnEqual
<1> QED
  BY <1>1, <1>2, <1>3, <1>4, <1>5, <1>6, <1>7, <1>8, <1>9, <1>10

-----------------------------------------------------------------------------
(* Deriving again what was derived before, which is what a fallback does *)

\* The endpoints whose derivation is not idempotent on what it has derived.
Rederived == {"vm", "replication", "container", "container26"}

\* What a consumer sees in v while the endpoint has fallen back, against w, the
\* record as the last usable reply left it (SameRecord).
Agrees(e, v, w) ==
    /\ DOMAIN v = DOMAIN w
    /\ \A f \in DOMAIN v :
           \/ v[f] = w[f]
           \/ e \in {"vm", "container"} /\ f = "memory" /\ w[f] \in Nat /\ v[f] \in 0..w[f]
           \/ e = "container26" /\ f = "cpu" /\ v[f] = 0
           \/ e = "replication" /\ f = "state" /\ w[f] = Null /\ v[f] = "unknown"

\* A record a method has derived.
Settled(e, v) ==
    /\ Known(e, v)
    /\ e = "vm" => /\ DOMAIN v = {"memory", "status", "running"}
                   /\ v.running = (v.status = "RUNNING") /\ v.memory \in Nat
    /\ e = "replication" => DOMAIN v = {"state"}
    /\ e = "container" => /\ DOMAIN v = {"type", "cpu", "memory"}
                          /\ v.cpu \in Int /\ v.memory \in Nat
    /\ e = "container26" => /\ DOMAIN v = {"type", "memory", "status", "cpu", "image", "running"}
                            /\ v.type = "CONTAINER" /\ v.memory = 0 /\ v.image # ""
                            /\ v.running = (v.status = "RUNNING")
    /\ e \notin Rederived => Derive(e, v) = v /\ RawFields(e) \subseteq DOMAIN v

\* Where a derivation adds fields it does not read, it is idempotent ...
LEMMA DerivePlain ==
    ASSUME NEW e, e \notin Rederived, e # "app", NEW v, Filled(e, v)
    PROVE  Derive(e, Derive(e, v)) = Derive(e, v) /\ Filled(e, Derive(e, v))
<1> USE DEF Filled, Known, Fields
<1>1. CASE e = "service"
  <2> DEFINE r == [running |-> v.state = "RUNNING",
                   display_name |-> IF v.name \notin {"", "unknown"} THEN v.name
                                    ELSE IF v.service = "ssh" THEN "SSH" ELSE v.service]
             w == Over(r, v)
  <2>1. DOMAIN r = {"running", "display_name"} /\ {"state", "name", "service"} \subseteq DOMAIN v
    BY <1>1 DEF RawFields
  <2>2. /\ IsFcn(w) /\ DOMAIN w = {"running", "display_name"} \cup DOMAIN v
        /\ w.state = v.state /\ w.name = v.name /\ w.service = v.service
    <3> HIDE DEF r
    <3>1. /\ IsFcn(w) /\ DOMAIN w = DOMAIN r \cup DOMAIN v
          /\ \A x \in DOMAIN r : w[x] = r[x]
          /\ \A x \in DOMAIN v \ DOMAIN r : w[x] = v[x]
      BY OverIs
    <3> HIDE DEF w
    <3> QED
      BY <2>1, <3>1
  <2>3. Derive(e, v) = w
    BY <1>1 DEF Derive, DeriveService
  <2>4. Derive(e, w) = Over(r, w)
    <3> HIDE DEF w
    <3> QED
      BY <1>1, <2>2 DEF Derive, DeriveService
  <2>5. Over(r, w) = w
    <3> HIDE DEF r
    <3> QED
      BY OverTwice
  <2> HIDE DEF w, r
  <2> QED
    BY <1>1, <2>2, <2>3, <2>4, <2>5 DEF RawFields, AddedFields
<1>2. CASE e = "interface"
  <2> DEFINE r == [link_up |-> v.link_state = "LINK_STATE_UP"]
             w == Over(r, v)
  <2>1. DOMAIN r = {"link_up"} /\ "link_state" \in DOMAIN v
    BY <1>2 DEF RawFields
  <2>2. IsFcn(w) /\ DOMAIN w = {"link_up"} \cup DOMAIN v /\ w.link_state = v.link_state
    <3> HIDE DEF r
    <3>1. /\ IsFcn(w) /\ DOMAIN w = DOMAIN r \cup DOMAIN v
          /\ \A x \in DOMAIN r : w[x] = r[x]
          /\ \A x \in DOMAIN v \ DOMAIN r : w[x] = v[x]
      BY OverIs
    <3> HIDE DEF w
    <3> QED
      BY <2>1, <3>1
  <2>3. Derive(e, v) = w
    BY <1>2 DEF Derive, DeriveInterface
  <2>4. Derive(e, w) = Over(r, w)
    <3> HIDE DEF w
    <3> QED
      BY <1>2, <2>2 DEF Derive, DeriveInterface
  <2>5. Over(r, w) = w
    <3> HIDE DEF r
    <3> QED
      BY OverTwice
  <2> HIDE DEF w, r
  <2> QED
    BY <1>2, <2>2, <2>3, <2>4, <2>5 DEF RawFields, AddedFields
<1>3. CASE e = "cronjob"
  <2> DEFINE r == [display_name |-> IF v.description \notin {Garbage, ""} THEN "description"
                                    ELSE IF v.command \notin {Garbage, ""} THEN "command"
                                    ELSE "id"]
             w == Over(r, v)
  <2>1. DOMAIN r = {"display_name"} /\ {"description", "command"} \subseteq DOMAIN v
    BY <1>3 DEF RawFields
  <2>2. /\ IsFcn(w) /\ DOMAIN w = {"display_name"} \cup DOMAIN v
        /\ w.description = v.description /\ w.command = v.command
    <3> HIDE DEF r
    <3>1. /\ IsFcn(w) /\ DOMAIN w = DOMAIN r \cup DOMAIN v
          /\ \A x \in DOMAIN r : w[x] = r[x]
          /\ \A x \in DOMAIN v \ DOMAIN r : w[x] = v[x]
      BY OverIs
    <3> HIDE DEF w
    <3> QED
      BY <2>1, <3>1
  <2>3. Derive(e, v) = w
    BY <1>3 DEF Derive, DeriveCronjob
  <2>4. Derive(e, w) = Over(r, w)
    <3> HIDE DEF w
    <3> QED
      BY <1>3, <2>2 DEF Derive, DeriveCronjob
  <2>5. Over(r, w) = w
    <3> HIDE DEF r
    <3> QED
      BY OverTwice
  <2> HIDE DEF w, r
  <2> QED
    BY <1>3, <2>2, <2>3, <2>4, <2>5 DEF RawFields, AddedFields
<1>4. CASE e = "certificate"
  <2> DEFINE r == [expiry_known |-> v.until # Null]
             w == Over(r, v)
  <2>1. DOMAIN r = {"expiry_known"} /\ "until" \in DOMAIN v
    BY <1>4 DEF RawFields
  <2>2. IsFcn(w) /\ DOMAIN w = {"expiry_known"} \cup DOMAIN v /\ w.until = v.until
    <3> HIDE DEF r
    <3>1. /\ IsFcn(w) /\ DOMAIN w = DOMAIN r \cup DOMAIN v
          /\ \A x \in DOMAIN r : w[x] = r[x]
          /\ \A x \in DOMAIN v \ DOMAIN r : w[x] = v[x]
      BY OverIs
    <3> HIDE DEF w
    <3> QED
      BY <2>1, <3>1
  <2>3. Derive(e, v) = w
    BY <1>4 DEF Derive, DeriveCertificate
  <2>4. Derive(e, w) = Over(r, w)
    <3> HIDE DEF w
    <3> QED
      BY <1>4, <2>2 DEF Derive, DeriveCertificate
  <2>5. Over(r, w) = w
    <3> HIDE DEF r
    <3> QED
      BY OverTwice
  <2> HIDE DEF w, r
  <2> QED
    BY <1>4, <2>2, <2>3, <2>4, <2>5 DEF RawFields, AddedFields
<1>5. CASE e \notin {"service", "interface", "cronjob", "certificate"}
  <2>1. e \notin {"vm", "replication", "app", "container", "container26"}
    BY DEF Rederived
  <2>2. Derive(e, v) = v
    BY <1>5, <2>1 DEF Derive
  <2> QED
    BY <2>2
<1> QED
  BY <1>1, <1>2, <1>3, <1>4, <1>5

\* ... and so it is for an app, whose update_available it reads and writes.
LEMMA DeriveAppAgain ==
    ASSUME NEW e, e = "app", NEW v, Filled(e, v)
    PROVE  Derive(e, Derive(e, v)) = Derive(e, v) /\ Filled(e, Derive(e, v))
<1> USE DEF Filled, Known, Fields
<1>0. e = "app"
  OBVIOUS
<1> DEFINE a == v.update_available
           c == v.custom_app
           d == v.image_updates_available
           p == a \/ (c /\ d)
           r == [running |-> v.state = "RUNNING", update_available |-> p]
           w == Over(r, v)
<1>1. /\ DOMAIN r = {"running", "update_available"} /\ r.update_available = p
      /\ {"state", "custom_app", "update_available", "image_updates_available"} \subseteq DOMAIN v
  <2> HIDE DEF p
  <2>1. DOMAIN r = {"running", "update_available"} /\ r.update_available = p
    OBVIOUS
  <2>2. RawFields(e) = {"state", "custom_app", "update_available", "image_updates_available"}
    BY <1>0 DEF RawFields
  <2> HIDE DEF r
  <2> QED
    BY <2>1, <2>2
<1>2. /\ IsFcn(w) /\ DOMAIN w = {"running", "update_available"} \cup DOMAIN v
      /\ w.state = v.state /\ w.custom_app = v.custom_app
      /\ w.image_updates_available = v.image_updates_available
      /\ w.update_available = r.update_available
  <2> HIDE DEF r
  <2>1. /\ IsFcn(w) /\ DOMAIN w = DOMAIN r \cup DOMAIN v
        /\ \A x \in DOMAIN r : w[x] = r[x]
        /\ \A x \in DOMAIN v \ DOMAIN r : w[x] = v[x]
    BY OverIs
  <2> HIDE DEF w
  <2> QED
    BY <1>1, <2>1
<1>3. Derive(e, v) = w
  BY <1>0 DEF Derive, DeriveApp
<1>4. (w.update_available \/ (w.custom_app /\ w.image_updates_available)) = r.update_available
  <2> HIDE DEF w, r, p, a, c, d
  <2>1. w.update_available = p /\ r.update_available = p
    BY <1>1, <1>2
  <2>2. (p \/ (v.custom_app /\ v.image_updates_available)) = p
    <3>1. ((a \/ (c /\ d)) \/ (c /\ d)) = (a \/ (c /\ d))
      OBVIOUS
    <3>2. (p \/ (c /\ d)) = p
      BY <3>1 DEF p
    <3> QED
      BY <3>2 DEF c, d
  <2> QED
    BY <1>2, <2>1, <2>2
<1>5. Derive(e, w) = Over(r, w)
  <2> DEFINE s == [running |-> w.state = "RUNNING",
                   update_available |-> w.update_available \/ (w.custom_app /\ w.image_updates_available)]
  <2>1. Derive(e, w) = Over(s, w)
    <3> HIDE DEF w
    <3> QED
      BY <1>0 DEF Derive, DeriveApp
  <2>2. s = r
    <3> HIDE DEF w
    <3> QED
      BY <1>1, <1>2, <1>4
  <2> QED
    BY <2>1, <2>2
<1>6. Over(r, w) = w
  <2> HIDE DEF r
  <2> QED
    BY OverTwice
<1> HIDE DEF w, r
<1> QED
  BY <1>2, <1>3, <1>5, <1>6 DEF RawFields, AddedFields

\* A conversion of the memory never makes it larger.
LEMMA GibType ==
    ASSUME NEW m \in Nat \cup {Null}
    PROVE  Gib(m) \in Nat /\ (m \in Nat => Gib(m) <= m)
BY QueryStateAssumption DEF Gib, Rounded

LEMMA MibType ==
    ASSUME NEW m \in Nat \cup {Null, Garbage}
    PROVE  Mib(m) \in Nat /\ (m \in Nat => Mib(m) <= m)
BY QueryStateAssumption DEF Mib, Rounded

LEMMA Understated ==
    ASSUME NEW m \in Nat, NEW n \in Nat, n <= m, NEW w, m = w \/ (w \in Nat /\ m \in 0..w)
    PROVE  w \in Nat /\ n \in 0..w
OBVIOUS

\* What a method makes of a record that an entry was just merged into.
LEMMA DeriveSettles ==
    ASSUME NEW e, NEW v, Filled(e, v), NEW raw \in Raw(e),
           \A f \in RawFields(e) : v[f] = SetVal(f, raw[f]), e = "vm" => v.memory # Garbage
    PROVE  Settled(e, Derive(e, v))
<1> USE DEF Filled, Known, Fields
<1>1. CASE e = "vm"
  <2> DEFINE r == [memory |-> Gib(v.memory), running |-> v.status = "RUNNING"]
             w == Over(r, v)
  <2>0. RawFields(e) = {"memory", "status"} /\ Fields(e) = {"memory", "status", "running"}
    BY <1>1 DEF RawFields, AddedFields
  <2>1. v.memory \in Nat \cup {Null}
    <3>1. raw.memory \in MemoryRead \cup {Absent} /\ v.memory = SetVal("memory", raw.memory)
      BY <1>1, <2>0 DEF Raw
    <3>2. Default["memory"] = 0 /\ "memory" \notin {"enabled", "until"}
      BY DEF Default
    <3>3. SetVal("memory", raw.memory) = IF raw.memory = Absent THEN 0 ELSE raw.memory
      BY <3>2 DEF SetVal
    <3>4. raw.memory = Absent \/ raw.memory \in Nat \cup {Null, Garbage}
      BY <3>1, QueryStateAssumption
    <3>5. v.memory # Garbage
      BY <1>1
    <3> HIDE DEF Filled, Known, Fields
    <3>6. CASE raw.memory = Absent
      BY <3>1, <3>3, <3>6
    <3>7. CASE raw.memory # Absent
      BY <3>1, <3>3, <3>4, <3>5, <3>7
    <3> QED
      BY <3>6, <3>7
  <2>2. Gib(v.memory) \in Nat
    BY <2>1, GibType
  <2>3. DOMAIN r = {"memory", "running"} /\ r.memory \in Nat /\ r.running = (v.status = "RUNNING")
    BY <2>2
  <2>4. Derive(e, v) = w
    BY <1>1 DEF Derive, DeriveVm
  <2> HIDE DEF r
  <2>5. /\ IsFcn(w) /\ DOMAIN w = DOMAIN r \cup DOMAIN v
        /\ \A x \in DOMAIN r : w[x] = r[x]
        /\ \A x \in DOMAIN v \ DOMAIN r : w[x] = v[x]
    BY OverIs
  <2> HIDE DEF w
  <2>6. /\ IsFcn(w) /\ DOMAIN w = {"memory", "status", "running"}
        /\ w.memory \in Nat /\ w.status = v.status /\ w.running = r.running
    BY <2>0, <2>3, <2>5
  <2> QED
    BY <1>1, <2>0, <2>3, <2>4, <2>6 DEF Settled, Rederived
<1>2. CASE e = "replication"
  <2>1. IsFcn(Derive(e, v)) /\ DOMAIN Derive(e, v) = {"state"}
    BY <1>2 DEF Derive, DeriveReplication, IsFcn
  <2> QED
    BY <1>2, <2>1 DEF Settled, Rederived, RawFields
<1>3. CASE e = "container"
  <2> DEFINE r == [cpu |-> ToInt(v.cpu), memory |-> Mib(v.memory)]
             w == Over(r, v)
  <2>0. RawFields(e) = {"type", "cpu", "memory"} /\ Fields(e) = {"type", "cpu", "memory"}
    BY <1>3 DEF RawFields, AddedFields
  <2>1. v.cpu \in {0, Null, CpuText}
    <3>1. raw.cpu \in {Absent, Null, CpuText} /\ v.cpu = SetVal("cpu", raw.cpu)
      BY <1>3, <2>0 DEF Raw
    <3> QED
      BY <3>1 DEF SetVal, Default
  <2>m. v.memory \in Nat \cup {Null, Garbage}
    <3>1. raw.memory \in MemoryBytes /\ v.memory = SetVal("memory", raw.memory)
      BY <1>3, <2>0 DEF Raw
    <3>2. SetVal("memory", raw.memory) = IF raw.memory = Absent THEN 0 ELSE raw.memory
      BY DEF SetVal, Default
    <3>3. raw.memory \in Nat \cup {Absent, Null, Garbage}
      BY <3>1, QueryStateAssumption
    <3> HIDE DEF Filled, Known, Fields
    <3>4. CASE raw.memory = Absent
      BY <3>1, <3>2, <3>4
    <3>5. CASE raw.memory # Absent
      BY <3>1, <3>2, <3>3, <3>5
    <3> QED
      BY <3>4, <3>5
  <2>c. ToInt(v.cpu) \in Int
    BY <2>1 DEF ToInt
  <2>2. ToInt(v.cpu) \in Int /\ Mib(v.memory) \in Nat
    <3> HIDE DEF Filled, Known, Fields
    <3> QED
      BY <2>c, <2>m, MibType
  <2>3. DOMAIN r = {"cpu", "memory"} /\ r.cpu \in Int /\ r.memory \in Nat
    BY <2>2
  <2>4. Derive(e, v) = w
    BY <1>3 DEF Derive, DeriveContainerLegacy
  <2> HIDE DEF r
  <2>5. /\ IsFcn(w) /\ DOMAIN w = DOMAIN r \cup DOMAIN v
        /\ \A x \in DOMAIN r : w[x] = r[x]
    BY OverIs
  <2> HIDE DEF w
  <2>6. IsFcn(w) /\ DOMAIN w = {"type", "cpu", "memory"} /\ w.cpu \in Int /\ w.memory \in Nat
    BY <2>0, <2>3, <2>5
  <2> QED
    BY <1>3, <2>0, <2>4, <2>6 DEF Settled, Rederived
<1>4. CASE e = "container26"
  <2> DEFINE w == DeriveContainerV26(v)
  <2>1. Derive(e, v) = w
    BY <1>4 DEF Derive
  <2>2. IsFcn(w) /\ DOMAIN w = {"type", "memory", "status", "cpu", "image", "running"}
    BY DEF DeriveContainerV26, IsFcn
  <2>3. /\ w.type = "CONTAINER" /\ w.memory = 0 /\ w.image # ""
        /\ w.status = v.status /\ w.running = (v.status = "RUNNING")
    BY DEF DeriveContainerV26
  <2>4. {"type", "memory", "status", "cpu", "image", "running"} \subseteq Fields(e)
    BY <1>4 DEF RawFields, AddedFields
  <2> HIDE DEF w
  <2> QED
    BY <1>4, <2>1, <2>2, <2>3, <2>4 DEF Settled, Rederived
<1>5. CASE e \notin Rederived
  <2>1. Derive(e, Derive(e, v)) = Derive(e, v) /\ Filled(e, Derive(e, v))
    <3> HIDE DEF Filled, Known, Fields
    <3> QED
      BY <1>5, DerivePlain, DeriveAppAgain
  <2> QED
    BY <1>5, <2>1 DEF Settled, Rederived
<1> QED
  BY <1>1, <1>2, <1>3, <1>4, <1>5 DEF Rederived

\* What it makes of a record it had derived before: still what the last usable reply
\* said, but for what SameRecord grants.
LEMMA DeriveAgain ==
    ASSUME NEW e, NEW v, NEW w, Settled(e, v), Agrees(e, v, w)
    PROVE  /\ Settled(e, Derive(e, v)) /\ Agrees(e, Derive(e, v), w)
           /\ e = "vm" => v.memory # Garbage
<1> USE DEF Known, Fields
<1>1. CASE e = "vm"
  <2> DEFINE r == [memory |-> Gib(v.memory), running |-> v.status = "RUNNING"]
             x == Over(r, v)
  <2>0. /\ IsFcn(v) /\ DOMAIN v = {"memory", "status", "running"}
        /\ v.running = (v.status = "RUNNING") /\ v.memory \in Nat
    BY <1>1 DEF Settled
  <2>1. Fields(e) = {"memory", "status", "running"}
    BY <1>1 DEF RawFields, AddedFields
  <2>2. Gib(v.memory) \in Nat /\ Gib(v.memory) <= v.memory /\ v.memory # Garbage
    BY <2>0, GibType, QueryStateAssumption
  <2>3. /\ DOMAIN r = {"memory", "running"} /\ r.running = v.running
        /\ r.memory \in Nat /\ r.memory <= v.memory
    BY <2>0, <2>2
  <2>4. Derive(e, v) = x
    BY <1>1 DEF Derive, DeriveVm
  <2> HIDE DEF r
  <2>5. /\ IsFcn(x) /\ DOMAIN x = DOMAIN r \cup DOMAIN v
        /\ \A y \in DOMAIN r : x[y] = r[y]
        /\ \A y \in DOMAIN v \ DOMAIN r : x[y] = v[y]
    BY OverIs
  <2> HIDE DEF x
  <2>6. /\ IsFcn(x) /\ DOMAIN x = {"memory", "status", "running"}
        /\ x.memory \in Nat /\ x.memory <= v.memory
        /\ x.status = v.status /\ x.running = v.running
    BY <2>0, <2>3, <2>5
  <2>7. Settled(e, x)
    BY <1>1, <2>0, <2>1, <2>6 DEF Settled, Rederived
  <2>8. Agrees(e, x, w)
    <3>1. v.memory = w.memory \/ (w.memory \in Nat /\ v.memory \in 0..w.memory)
      BY <1>1, <2>0 DEF Agrees
    <3>2. w.memory \in Nat /\ x.memory \in 0..w.memory
      BY <2>0, <2>6, <3>1, Understated
    <3> QED
      BY <1>1, <2>0, <2>6, <3>2 DEF Agrees
  <2> QED
    BY <2>2, <2>4, <2>7, <2>8
<1>2. CASE e = "replication"
  <2> DEFINE x == DeriveReplication(v)
  <2>0. DOMAIN v = {"state"} /\ "state" \in Fields(e)
    BY <1>2 DEF Settled, RawFields
  <2>1. Derive(e, v) = x
    BY <1>2 DEF Derive
  <2>2. IsFcn(x) /\ DOMAIN x = {"state"}
    BY DEF DeriveReplication, IsFcn
  <2>3. x.state = IF v.state \notin {Null, "unknown"} THEN v.state ELSE "unknown"
    BY <2>0 DEF DeriveReplication
  <2> HIDE DEF x
  <2>4. Settled(e, x)
    BY <1>2, <2>0, <2>2 DEF Settled, Rederived
  <2>5. Agrees(e, x, w)
    BY <1>2, <2>0, <2>2, <2>3 DEF Agrees
  <2> QED
    BY <1>2, <2>1, <2>4, <2>5
<1>3. CASE e = "container"
  <2> DEFINE r == [cpu |-> ToInt(v.cpu), memory |-> Mib(v.memory)]
             x == Over(r, v)
  <2>0. IsFcn(v) /\ DOMAIN v = {"type", "cpu", "memory"} /\ v.cpu \in Int /\ v.memory \in Nat
    BY <1>3 DEF Settled
  <2>1. Fields(e) = {"type", "cpu", "memory"}
    BY <1>3 DEF RawFields, AddedFields
  <2>2. ToInt(v.cpu) = v.cpu /\ Mib(v.memory) \in Nat /\ Mib(v.memory) <= v.memory
    BY <2>0, MibType, QueryStateAssumption DEF ToInt
  <2>3. /\ DOMAIN r = {"cpu", "memory"} /\ r.cpu = v.cpu
        /\ r.memory \in Nat /\ r.memory <= v.memory
    BY <2>2
  <2>4. Derive(e, v) = x
    BY <1>3 DEF Derive, DeriveContainerLegacy
  <2> HIDE DEF r
  <2>5. /\ IsFcn(x) /\ DOMAIN x = DOMAIN r \cup DOMAIN v
        /\ \A y \in DOMAIN r : x[y] = r[y]
        /\ \A y \in DOMAIN v \ DOMAIN r : x[y] = v[y]
    BY OverIs
  <2> HIDE DEF x
  <2>6. /\ IsFcn(x) /\ DOMAIN x = {"type", "cpu", "memory"}
        /\ x.cpu = v.cpu /\ x.type = v.type
        /\ x.memory \in Nat /\ x.memory <= v.memory
    BY <2>0, <2>3, <2>5
  <2>7. Settled(e, x)
    BY <1>3, <2>0, <2>1, <2>6 DEF Settled, Rederived
  <2>8. Agrees(e, x, w)
    <3>1. v.memory = w.memory \/ (w.memory \in Nat /\ v.memory \in 0..w.memory)
      BY <1>3, <2>0 DEF Agrees
    <3>2. w.memory \in Nat /\ x.memory \in 0..w.memory
      BY <2>0, <2>6, <3>1, Understated
    <3> QED
      BY <1>3, <2>0, <2>6, <3>2 DEF Agrees
  <2> QED
    BY <1>3, <2>4, <2>7, <2>8
<1>4. CASE e = "container26"
  <2> DEFINE x == DeriveContainerV26(v)
  <2>0. /\ DOMAIN v = {"type", "memory", "status", "cpu", "image", "running"}
        /\ v.type = "CONTAINER" /\ v.memory = 0 /\ v.image # "" /\ v.running = (v.status = "RUNNING")
    BY <1>4 DEF Settled
  <2>1. Derive(e, v) = x
    BY <1>4 DEF Derive
  <2>2. IsFcn(x) /\ DOMAIN x = {"type", "memory", "status", "cpu", "image", "running"}
    BY DEF DeriveContainerV26, IsFcn
  <2>3. /\ x.type = v.type /\ x.memory = v.memory /\ x.image = v.image /\ x.status = v.status
        /\ x.running = v.running /\ x.cpu = 0
    BY <2>0 DEF DeriveContainerV26
  <2>4. {"type", "memory", "status", "cpu", "image", "running"} \subseteq Fields(e)
    BY <1>4 DEF RawFields, AddedFields
  <2> HIDE DEF x
  <2>5. Settled(e, x)
    BY <1>4, <2>0, <2>2, <2>3, <2>4 DEF Settled, Rederived
  <2>6. Agrees(e, x, w)
    BY <1>4, <2>0, <2>2, <2>3 DEF Agrees
  <2> QED
    BY <1>4, <2>1, <2>5, <2>6
<1>5. CASE e \notin Rederived
  BY <1>5 DEF Settled, Rederived
<1> QED
  BY <1>1, <1>2, <1>3, <1>4, <1>5 DEF Rederived

-----------------------------------------------------------------------------
(* The inductive invariant *)

TypeInv == failing \in BOOLEAN /\ fellBack \in BOOLEAN /\ raised \in BOOLEAN
\* Whatever a call did, its records have the endpoint's fields and no other ...
KnownInv == IsFcn(ds) /\ IsFcn(expected) /\ \A u \in DOMAIN ds : Known(ep, ds[u])
\* ... a method that raised left the memory it raised for in the map, so it raises
\* again until a usable reply is merged ...
RaisedInv == raised => ep = "vm" /\ Raising(ds) # {}
\* ... one that returned has derived every record, once from the last usable reply and
\* again in each call that fell back ...
SettledInv ==
    ~raised => /\ DOMAIN ds = DOMAIN expected
               /\ \A u \in DOMAIN ds : Settled(ep, ds[u]) /\ Agrees(ep, ds[u], expected[u])
               /\ ~fellBack => ds = expected
\* ... and where deriving twice makes no difference the map is that reply.
PlainInv == ep \notin Rederived => ds = expected
StaleInv == (ep \in Noted => (failing <=> fellBack)) /\ (ep \notin Noted => ~failing)

QueryInv == TypeInv /\ KnownInv /\ RaisedInv /\ SettledInv /\ PlainInv /\ StaleInv

LEMMA RepliesType ==
    ASSUME NEW e, NEW reply \in Replies(e)
    PROVE  reply = NotList \/ reply \in Seq(Entries(e))
BY QueryStateAssumption DEF Replies, SeqOf

LEMMA InitInv == Init => QueryInv
<1> SUFFICES ASSUME Init PROVE QueryInv
  OBVIOUS
<1>1. DOMAIN EmptyMap = {} /\ IsFcn(EmptyMap)
  BY DEF EmptyMap, IsFcn
<1>2. TypeInv /\ KnownInv /\ RaisedInv
  BY <1>1 DEF Init, TypeInv, KnownInv, RaisedInv
<1>3. SettledInv /\ PlainInv /\ StaleInv
  BY <1>1 DEF Init, SettledInv, PlainInv, StaleInv
<1> QED
  BY <1>2, <1>3 DEF QueryInv

\* A vm's record stays one whether its derivation was reached or not.
LEMMA DeriveVmKnown ==
    ASSUME NEW e, e = "vm", NEW v, Known(e, v)
    PROVE  Known(e, Derive(e, v))
<1> DEFINE r == [memory |-> Gib(v.memory), running |-> v.status = "RUNNING"]
<1>1. DOMAIN r = {"memory", "running"} /\ Derive(e, v) = Over(r, v)
  BY DEF Derive, DeriveVm
<1> HIDE DEF r
<1>2. IsFcn(Over(r, v)) /\ DOMAIN Over(r, v) = DOMAIN r \cup DOMAIN v
  BY OverIs
<1> QED
  BY <1>1, <1>2 DEF Known, Fields, RawFields, AddedFields

\* A method that raises leaves a map it will raise for again.
LEMMA Raises ==
    ASSUME NEW data, IsFcn(expected)', \A u \in DOMAIN data : Known(ep, data[u]),
           Raising(data) # {}, DeriveAll(data), ep' = ep,
           fellBack' \in BOOLEAN, failing' \in BOOLEAN, StaleInv'
    PROVE  QueryInv'
<1>0. ep = "vm"
  BY DEF Raising
<1>1. PICK done \in SUBSET (DOMAIN data \ Raising(data)) :
          ds' = [u \in DOMAIN data |-> IF u \in done THEN Derive(ep, data[u]) ELSE data[u]]
  BY DEF DeriveAll
<1>2. raised' = TRUE
  BY DEF DeriveAll
<1>3. KnownInv'
  <2>1. IsFcn(ds)' /\ DOMAIN ds' = DOMAIN data
    BY <1>1 DEF IsFcn
  <2>2. ASSUME NEW u \in DOMAIN data PROVE Known(ep, ds'[u])
    BY <1>0, <1>1, DeriveVmKnown
  <2> QED
    BY <2>1, <2>2 DEF KnownInv
<1>4. RaisedInv'
  <2>1. PICK u \in DOMAIN data : data[u].memory = Garbage /\ u \in Raising(data)
    BY DEF Raising
  <2>2. u \in DOMAIN ds' /\ ds'[u] = data[u]
    BY <1>1, <2>1
  <2>3. u \in Raising(ds)'
    BY <1>0, <2>1, <2>2 DEF Raising
  <2> QED
    BY <1>0, <2>3 DEF RaisedInv
<1>5. PlainInv' /\ SettledInv' /\ TypeInv'
  BY <1>0, <1>2 DEF PlainInv, SettledInv, TypeInv, Rederived
<1> QED
  BY <1>3, <1>4, <1>5 DEF QueryInv

\* A call that took the reply for a failed query derives the cached records again.
LEMMA FallsBack ==
    ASSUME QueryInv, DeriveAll(ds), Raising(ds) = {}, ep' = ep, expected' = expected,
           fellBack' = TRUE, failing' \in BOOLEAN, StaleInv'
    PROVE  QueryInv'
<1>0. ~raised /\ raised' = FALSE
  BY DEF QueryInv, RaisedInv, DeriveAll
<1>1. ds' = [u \in DOMAIN ds |-> Derive(ep, ds[u])]
  BY DEF DeriveAll
<1>2. /\ DOMAIN ds = DOMAIN expected /\ IsFcn(ds) /\ IsFcn(expected)
      /\ \A u \in DOMAIN ds : Settled(ep, ds[u]) /\ Agrees(ep, ds[u], expected[u])
  BY <1>0 DEF QueryInv, SettledInv, KnownInv
<1>3. ASSUME NEW u \in DOMAIN ds
      PROVE  Settled(ep, ds'[u]) /\ Agrees(ep, ds'[u], expected[u])
  BY <1>1, <1>2, DeriveAgain
<1>4. DOMAIN ds' = DOMAIN ds /\ IsFcn(ds)'
  BY <1>1 DEF IsFcn
<1>5. KnownInv' /\ SettledInv'
  BY <1>0, <1>2, <1>3, <1>4 DEF KnownInv, SettledInv, Settled
<1>6. PlainInv'
  <2> SUFFICES ASSUME ep \notin Rederived PROVE ds' = expected
    BY DEF PlainInv
  <2>1. \A u \in DOMAIN ds : Derive(ep, ds[u]) = ds[u]
    BY <1>2 DEF Settled
  <2>2. ds' = ds
    BY <1>1, <1>2, <2>1 DEF IsFcn
  <2> QED
    BY <2>2 DEF QueryInv, PlainInv
<1>7. TypeInv' /\ RaisedInv'
  BY <1>0 DEF TypeInv, RaisedInv
<1> QED
  BY <1>5, <1>6, <1>7 DEF QueryInv

\* A record agrees with itself.
LEMMA AgreesSelf ==
    ASSUME NEW e, NEW v
    PROVE  Agrees(e, v, v)
BY DEF Agrees

\* A call that publishes what the reference says.
LEMMA Publishes ==
    ASSUME IsFcn(ds)', ds' = expected', \A u \in DOMAIN ds' : Settled(ep, ds'[u]), ep' = ep,
           raised' = FALSE, fellBack' \in BOOLEAN, failing' \in BOOLEAN, StaleInv'
    PROVE  QueryInv'
<1>1. KnownInv'
  BY DEF KnownInv, Settled
<1>2. SettledInv'
  BY AgreesSelf DEF SettledInv
<1>3. TypeInv' /\ RaisedInv' /\ PlainInv'
  BY DEF TypeInv, RaisedInv, PlainInv
<1> QED
  BY <1>1, <1>2, <1>3 DEF QueryInv

\* The record a usable reply leaves is the reference's, whatever was cached before.
LEMMA WantedIs ==
    ASSUME ep = "interface" => ds = expected, \A u \in DOMAIN ds : Known(ep, ds[u]),
           NEW source \in Seq(Entries(ep)), ~Unusable(source), source # << >>,
           NEW u \in SeenUids(source), NEW v, v = ParseApi(ep, ds, source)[u],
           ep = "vm" => v.memory # Garbage
    PROVE  Wanted(source)[u] = Derive(ep, v) /\ Settled(ep, Derive(ep, v))
<1> DEFINE raw == LastEntry(source, u).raw
           read == [f \in DOMAIN raw |-> SetVal(f, raw[f])]
           kept == IF ep # "interface" THEN EmptyMap
                   ELSE [rx |-> IF u \in DOMAIN expected THEN expected[u].rx ELSE 0]
           w == Over(read, kept)
<1>1. /\ raw \in Raw(ep) /\ Filled(ep, v)
      /\ \A f \in RawFields(ep) : v[f] = SetVal(f, raw[f])
      /\ ep = "interface" => v.rx = IF u \in DOMAIN ds THEN ds[u].rx ELSE 0
  BY ParseApiReads
<1>2. Wanted(source)[u] = IF ep = "vm" /\ read.memory = Garbage THEN read ELSE Derive(ep, w)
  BY DEF Wanted
<1> HIDE DEF raw
<1>3. DOMAIN raw = RawFields(ep)
  BY <1>1, RawDomain
<1>4. DOMAIN read = RawFields(ep) /\ \A f \in RawFields(ep) : read[f] = v[f]
  BY <1>1, <1>3
<1>5. ep = "vm" => read.memory # Garbage
  BY <1>4 DEF RawFields
<1>6. /\ DOMAIN kept = IF ep = "interface" THEN {"rx"} ELSE {}
      /\ ep = "interface" => kept.rx = v.rx
  BY <1>1 DEF EmptyMap
<1>7. /\ IsFcn(w) /\ DOMAIN w = DOMAIN read \cup DOMAIN kept
      /\ \A x \in DOMAIN read : w[x] = read[x]
      /\ \A x \in DOMAIN kept \ DOMAIN read : w[x] = kept[x]
  <2> HIDE DEF read, kept
  <2> QED
    BY OverIs
<1> HIDE DEF read, kept, w
<1>8. /\ Filled(ep, w) /\ \A f \in RawFields(ep) : v[f] = w[f]
      /\ ep = "interface" => v.rx = w.rx
  <2>1. ep = "interface" => RawFields(ep) = {"link_state"} /\ "rx" \in Fields(ep)
    BY DEF RawFields, AddedFields, Fields
  <2>2. \A f \in RawFields(ep) : v[f] = w[f]
    BY <1>4, <1>7
  <2>3. ep = "interface" => v.rx = w.rx /\ "rx" \in DOMAIN w
    BY <1>4, <1>6, <1>7, <2>1
  <2>4. DOMAIN w \subseteq Fields(ep) /\ RawFields(ep) \subseteq DOMAIN w
    BY <1>4, <1>6, <1>7, <2>1 DEF Fields
  <2> QED
    BY <1>7, <2>2, <2>3, <2>4 DEF Filled, Known
<1>9. Derive(ep, v) = Derive(ep, w)
  BY <1>1, <1>8, DeriveSame
<1>10. Settled(ep, Derive(ep, v))
  BY <1>1, DeriveSettles
<1> QED
  BY <1>2, <1>5, <1>9, <1>10

\* One call of a method.
LEMMA GetStep ==
    ASSUME QueryInv, NEW e, NEW reply \in Replies(ep), Get(e, reply)
    PROVE  QueryInv'
<1> DEFINE source == Source(ep, reply)
           data == ParseApi(ep, ds, source)
<1>0. ep = e /\ ep' = ep
  BY DEF Get
<1>1. source = NotList \/ source \in Seq(Entries(ep))
  BY RepliesType, SourceType
<1>2. DeriveAll(data) /\ expected' = IF Unusable(source) THEN expected ELSE Wanted(source)
  BY <1>0 DEF Get, Unusable
<1>3. fellBack' = (Foreign \in DOMAIN ParseApi(ep, [u \in {Foreign} |-> EmptyMap], source))
  BY <1>0 DEF Get
<1>a. failing' = IF ep \in Noted THEN ~Usable(reply) ELSE failing
  BY <1>0 DEF Get, NotePrimaryQueryOutcome
<1>b. ep \in Noted => source = reply
  BY DEF Noted, Source
<1>c. KnownInv
  BY DEF QueryInv
<1> HIDE DEF source
<1>4. fellBack' \in BOOLEAN /\ (fellBack' <=> Unusable(source))
  <2>1. (Foreign \in DOMAIN ParseApi(ep, [u \in {Foreign} |-> EmptyMap], source)) <=> Unusable(source)
    BY <1>1, ForeignKept
  <2> DEFINE kept == Foreign \in DOMAIN ParseApi(ep, [u \in {Foreign} |-> EmptyMap], source)
  <2>2. kept \in BOOLEAN
    OBVIOUS
  <2>3. fellBack' = kept
    BY <1>3
  <2>4. kept <=> Unusable(source)
    BY <2>1
  <2> HIDE DEF kept
  <2> QED
    BY <2>2, <2>3, <2>4
<1>5. failing' \in BOOLEAN /\ StaleInv'
  <2>1. CASE ep \in Noted
    BY <1>0, <1>4, <1>a, <1>b, <2>1 DEF StaleInv, Usable, Unusable
  <2>2. CASE ep \notin Noted
    BY <1>0, <1>a, <2>2 DEF StaleInv, QueryInv, TypeInv
  <2> QED
    BY <2>1, <2>2
<1>6. CASE Unusable(source)
  <2>1. data = ds
    BY <1>1, <1>6, ParseApiKeeps
  <2>2. expected' = expected /\ fellBack' = TRUE /\ DeriveAll(ds)
    BY <1>2, <1>4, <1>6, <2>1
  <2>3. CASE Raising(ds) = {}
    BY <1>0, <1>5, <2>2, <2>3, FallsBack
  <2>4. CASE Raising(ds) # {}
    <3>1. IsFcn(expected)' /\ \A u \in DOMAIN ds : Known(ep, ds[u])
      BY <1>c, <2>2 DEF KnownInv
    <3> QED
      BY <1>0, <1>4, <1>5, <2>2, <2>4, <3>1, Raises
  <2> QED
    BY <2>3, <2>4
<1>7. CASE ~Unusable(source) /\ source = << >>
  <2>1. DOMAIN data = {}
    BY <1>7 DEF Unusable, ParseApi, EmptyMap
  <2>2. SeenUids(source) = {}
    BY <1>7 DEF SeenUids
  <2>3. expected' = Wanted(source)
    BY <1>2, <1>7
  <2>4. IsFcn(expected)' /\ DOMAIN expected' = {}
    BY <2>2, <2>3 DEF Wanted, IsFcn
  <2> HIDE DEF data
  <2>5. raised' = FALSE /\ ds' = [u \in DOMAIN data |-> Derive(ep, data[u])]
    BY <1>2, <2>1 DEF DeriveAll, Raising
  <2>6. IsFcn(ds)' /\ DOMAIN ds' = {}
    BY <2>1, <2>5 DEF IsFcn
  <2>7. ds' = expected'
    BY <2>4, <2>6 DEF IsFcn
  <2> QED
    BY <1>0, <1>4, <1>5, <2>5, <2>6, <2>7, Publishes
<1>8. CASE ~Unusable(source) /\ source # << >>
  <2>0. source \in Seq(Entries(ep)) /\ expected' = Wanted(source)
    BY <1>1, <1>2, <1>8 DEF Unusable
  <2>1. \A u \in DOMAIN ds : Known(ep, ds[u])
    BY <1>c DEF KnownInv
  <2>2. /\ IsFcn(data) /\ DOMAIN data = SeenUids(source)
        /\ \A u \in DOMAIN data : Known(ep, data[u])
    BY <1>8, <2>0, <2>1, ParseApiReads DEF Filled
  <2>3. IsFcn(expected)' /\ DOMAIN expected' = SeenUids(source)
    BY <2>0 DEF Wanted, IsFcn
  <2>4. ep = "interface" => ds = expected
    BY DEF QueryInv, PlainInv, Rederived
  <2>5. ASSUME NEW u \in SeenUids(source), ep = "vm" => data[u].memory # Garbage
        PROVE  expected'[u] = Derive(ep, data[u]) /\ Settled(ep, Derive(ep, data[u]))
    BY <1>8, <2>0, <2>1, <2>4, <2>5, WantedIs
  <2> HIDE DEF data
  <2>6. CASE Raising(data) = {}
    <3>1. raised' = FALSE /\ ds' = [u \in DOMAIN data |-> Derive(ep, data[u])]
      BY <1>2, <2>6 DEF DeriveAll
    <3>2. \A u \in DOMAIN data : ep = "vm" => data[u].memory # Garbage
      BY <2>6 DEF Raising
    <3>3. IsFcn(ds)' /\ DOMAIN ds' = SeenUids(source)
      BY <2>2, <3>1 DEF IsFcn
    <3>4. \A u \in SeenUids(source) : ds'[u] = expected'[u] /\ Settled(ep, ds'[u])
      BY <2>2, <2>5, <3>1, <3>2
    <3>5. ds' = expected'
      BY <2>3, <3>3, <3>4 DEF IsFcn
    <3> QED
      BY <1>0, <1>4, <1>5, <3>1, <3>3, <3>4, <3>5, Publishes
  <2>7. CASE Raising(data) # {}
    BY <1>0, <1>2, <1>4, <1>5, <2>2, <2>3, <2>7, Raises
  <2> QED
    BY <2>6, <2>7
<1> QED
  BY <1>6, <1>7, <1>8

\* The throughput is added to what is cached and what is expected alike.
LEMMA RatesStep ==
    ASSUME QueryInv, NEW rates, RefreshInterfaceThroughput(rates)
    PROVE  QueryInv'
<1>0. ep = "interface" /\ ep' = ep /\ ds = expected /\ ~raised
  BY DEF RefreshInterfaceThroughput, QueryInv, PlainInv, RaisedInv, Rederived
<1>1. /\ ds' = WithRates(ds, rates) /\ expected' = ds'
      /\ failing' = failing /\ fellBack' = fellBack /\ raised' = raised
  BY <1>0 DEF RefreshInterfaceThroughput
<1>2. IsFcn(ds)' /\ DOMAIN ds' = DOMAIN ds
  BY <1>1 DEF WithRates, IsFcn
<1>3. ASSUME NEW u \in DOMAIN ds PROVE Settled(ep, ds'[u])
  <2> DEFINE v == ds[u]
             x == [v EXCEPT !.rx = rates[u]]
  <2>1. Settled(ep, v)
    BY <1>0 DEF QueryInv, SettledInv
  <2>2. ds'[u] = IF u \in DOMAIN rates THEN x ELSE v
    BY <1>1 DEF WithRates
  <2> HIDE DEF v
  <2>3. /\ IsFcn(v) /\ Derive(ep, v) = v /\ "link_state" \in DOMAIN v
        /\ DOMAIN v \subseteq Fields(ep) /\ "rx" \in DOMAIN v
    BY <1>0, <2>1 DEF Settled, Known, Rederived, RawFields
  <2> DEFINE up == v.link_state = "LINK_STATE_UP"
             r == [link_up |-> up]
  <2>4. v = Over(r, v)
    BY <1>0, <2>3 DEF Derive, DeriveInterface
  <2>5. DOMAIN r = {"link_up"} /\ r.link_up = up
    <3> HIDE DEF up
    <3> QED
      OBVIOUS
  <2>6. "link_up" \in DOMAIN v /\ v.link_up = r.link_up
    <3> HIDE DEF r
    <3>1. DOMAIN Over(r, v) = DOMAIN r \cup DOMAIN v /\ \A y \in DOMAIN r : Over(r, v)[y] = r[y]
      BY OverIs
    <3> QED
      BY <2>4, <2>5, <3>1
  <2>7. /\ IsFcn(x) /\ DOMAIN x = DOMAIN v /\ x.link_state = v.link_state /\ x.link_up = v.link_up
    BY <2>3, <2>6 DEF IsFcn
  <2> HIDE DEF x
  <2>8. Derive(ep, x) = Over(r, x)
    BY <1>0, <2>7 DEF Derive, DeriveInterface
  <2> HIDE DEF r
  <2>9. Over(r, x) = x
    <3>1. /\ IsFcn(Over(r, x)) /\ DOMAIN Over(r, x) = DOMAIN r \cup DOMAIN x
          /\ \A y \in DOMAIN r : Over(r, x)[y] = r[y]
          /\ \A y \in DOMAIN x \ DOMAIN r : Over(r, x)[y] = x[y]
      BY OverIs
    <3>2. DOMAIN Over(r, x) = DOMAIN x /\ \A y \in DOMAIN x : Over(r, x)[y] = x[y]
      BY <2>5, <2>6, <2>7, <3>1
    <3> QED
      BY <2>7, <3>1, <3>2, FcnEqual
  <2>10. Settled(ep, x)
    BY <1>0, <2>3, <2>7, <2>8, <2>9 DEF Settled, Known, Rederived, RawFields
  <2> QED
    BY <2>1, <2>2, <2>10
<1>4. fellBack' \in BOOLEAN /\ failing' \in BOOLEAN /\ StaleInv'
  BY <1>0, <1>1 DEF QueryInv, TypeInv, StaleInv
<1> QED
  BY <1>0, <1>1, <1>2, <1>3, <1>4, Publishes DEF QueryInv, TypeInv

LEMMA NextInv ==
    ASSUME QueryInv, [Next]_vars
    PROVE  QueryInv'
<1>1. CASE \E reply \in Replies(ep) : \E e : Get(e, reply)
  BY <1>1, GetStep
<1>2. CASE \E rates : RefreshInterfaceThroughput(rates)
  BY <1>2, RatesStep
<1>3. CASE UNCHANGED vars
  BY <1>3 DEF vars, QueryInv, TypeInv, KnownInv, RaisedInv, SettledInv, PlainInv, StaleInv,
              Raising
<1> QED
  BY <1>1, <1>2, <1>3
     DEF Next, GetService, GetVm, GetInterface, GetScrub, GetReplication, GetCronjob, GetApp,
         GetCertificates, GetCloudsync, GetRsync, GetSnapshottask, GetContainerLegacy,
         GetContainerV26

LEMMA QueryInvariant == Spec => []QueryInv
BY InitInv, NextInv, PTL DEF Spec

-----------------------------------------------------------------------------
(* The theorems *)

\* After any sequence of replies of any length, whatever their entries, the map a
\* get_... method returns with is what the last usable reply says: parse_api's merge in
\* place leaves no record and no field of an older one.
THEOREM SnapshotAlwaysLastReply == Spec => []SnapshotIsLastReply
<1>1. QueryInv => SnapshotIsLastReply
  <2> SUFFICES ASSUME QueryInv, ~raised
               PROVE  /\ DOMAIN ds = DOMAIN expected
                      /\ \A u \in DOMAIN ds : SameRecord(ds[u], expected[u])
    BY DEF SnapshotIsLastReply
  <2>1. /\ DOMAIN ds = DOMAIN expected /\ (~fellBack => ds = expected)
        /\ \A u \in DOMAIN ds : Agrees(ep, ds[u], expected[u])
    BY DEF QueryInv, SettledInv
  <2>2. CASE ~fellBack
    BY <2>1, <2>2 DEF SameRecord
  <2>3. CASE fellBack
    BY <2>1, <2>3 DEF SameRecord, Agrees
  <2> QED
    BY <2>1, <2>2, <2>3
<1> QED
  BY <1>1, QueryInvariant, PTL

\* _note_primary_query_outcome and parse_api never disagree on whether a reply was a
\* failed query, for any reply.
THEOREM AlwaysStaleIffFellBack == Spec => []StaleIffFellBack
<1>1. QueryInv => StaleIffFellBack
  BY DEF QueryInv, StaleInv, StaleIffFellBack
<1> QED
  BY <1>1, QueryInvariant, PTL

\* Of the endpoints that report staleness only the virtual machines, whose memory is
\* converted again on every fallback, can show anything but the previous snapshot then:
\* the violation QueryVmStale finds has no sibling.
THEOREM StaleShowsPrevious == Spec => [](ep # "vm" => StaleIsPrevious)
<1>1. QueryInv => (ep # "vm" => StaleIsPrevious)
  BY DEF QueryInv, StaleInv, PlainInv, Noted, Rederived, StaleIsPrevious
<1> QED
  BY <1>1, QueryInvariant, PTL
=============================================================================
