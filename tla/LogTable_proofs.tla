---------------------------- MODULE LogTable_proofs ----------------------------
(***************************************************************************)
(* What "jobctl logs" prints, proved for any number of posts, any number   *)
(* of them given up, and any size of a page.                               *)
(*                                                                         *)
(* The argument: two INSERTs of which neither ran when the other began     *)
(* have their ids in the order of their created_at, and the first of them  *)
(* is over.  So where the order of ids and that of pages disagree, and     *)
(* where lastID passes what is not yet there, INSERTs ran together.        *)
(***************************************************************************)
EXTENDS LogTable, TLAPS

Over(e) == stage[e] \in {"stored", "failed"}

(* When an INSERT has its created_at and when it has its id.               *)
Filled ==
    \A e \in Entries :
        /\ stage[e] = "none" => created[e] = 0
        /\ stage[e] \in {"begun", "drawn", "stored"} => created[e] > 0
        /\ stage[e] \in {"none", "begun"} => id[e] = 0
        /\ stage[e] \in {"drawn", "stored"} => id[e] > 0
        /\ id[e] > 0 => created[e] > 0
        /\ created[e] <= clock /\ id[e] <= sequence

Distinct ==
    \A e, f \in Entries :
        e # f => /\ created[e] = created[f] => created[e] = 0
                 /\ id[e] = id[f] => id[e] = 0

(* What began earlier, and did not run when the other began, is over.      *)
OverBefore ==
    \A e, f \in Entries :
        0 < created[e] /\ created[e] < created[f] /\ ~Met(e, f) => Over(e)

IdsInOrder ==
    \A e, f \in Entries :
        0 < id[e] /\ id[e] < id[f] /\ ~Met(e, f) => created[e] < created[f]

TableInv == TypeOK /\ Filled /\ Distinct /\ OverBefore /\ IdsInOrder

USE EntriesAssumption, LimitAssumption DEF EntriesAssumption, LimitAssumption

LEMMA TableInit == Init => TableInv
<1> SUFFICES ASSUME Init PROVE TableInv
  OBVIOUS
<1>1. TypeOK
  <2>1. printed \in Seq(Entries)
    BY DEF Init
  <2>2. /\ sent \in 0..MaxEntries /\ timeouts \in 0..MaxTimeouts
        /\ clock \in Nat /\ sequence \in Nat /\ lastID \in Nat
    BY DEF Init
  <2>3. /\ stage \in [Entries -> Stages] /\ met \in [Entries -> SUBSET Entries]
        /\ created \in [Entries -> Nat] /\ id \in [Entries -> Nat]
    BY DEF Init, Stages
  <2>4. /\ readable \in BOOLEAN /\ follow \in BOOLEAN
        /\ reader \in {"fetch", "done", "error"}
    BY DEF Init
  <2> QED BY <2>1, <2>2, <2>3, <2>4 DEF TypeOK
<1>2. Filled /\ Distinct
  BY DEF Init, Filled, Distinct
<1>3. OverBefore /\ IdsInOrder
  BY DEF Init, OverBefore, IdsInOrder
<1> QED BY <1>1, <1>2, <1>3 DEF TableInv

(* The command touches nothing of the table.                               *)
LEMMA TableReads == TableInv /\ TypeOK' /\ UNCHANGED inserts => TableInv'
BY DEF TableInv, inserts, Filled, Distinct, OverBefore, IdsInOrder, Met, Over

LEMMA TypeStep == TypeOK /\ [Next]_vars => TypeOK'
<1> SUFFICES ASSUME TypeOK, [Next]_vars PROVE TypeOK'
  OBVIOUS
<1> USE DEF TypeOK, command
<1>1. CASE SendLogs
  BY <1>1 DEF SendLogs
<1>2. CASE Complete
  BY <1>2 DEF Complete, inserts
<1>3. ASSUME NEW e \in Entries, Begin(e) PROVE TypeOK'
  BY <1>3 DEF Begin, Step, InFlight, Stages
<1>4. ASSUME NEW e \in Entries, Draw(e) PROVE TypeOK'
  BY <1>4 DEF Draw, Step, Stages
<1>5. ASSUME NEW e \in Entries, Commit(e) \/ Abort(e) PROVE TypeOK'
  BY <1>5 DEF Commit, Abort, Step, Stages
<1>6. CASE GetLogs
  <2>1. PICK page \in Pages :
          /\ printed' = printed \o page
          /\ lastID' \in {lastID} \cup {id[e] : e \in Held(page)}
          /\ reader' = AfterPage(page)
    BY <1>6 DEF GetLogs
  <2>2. page \in Seq(Entries)
    BY <2>1 DEF Pages, New, Stored
  <2>3. lastID' \in Nat
    BY <2>1, <2>2 DEF Held
  <2> QED BY <1>6, <2>1, <2>2, <2>3 DEF GetLogs, inserts, AfterPage
<1>7. CASE GetLogsFails
  BY <1>7 DEF GetLogsFails, inserts
<1>8. CASE UNCHANGED vars
  BY <1>8 DEF vars, inserts
<1> QED BY <1>1, <1>2, <1>3, <1>4, <1>5, <1>6, <1>7, <1>8 DEF Next

(* A step of one INSERT keeps what the others are.                         *)
LEMMA BeginKeeps ==
    ASSUME TableInv, TypeOK', NEW x \in Entries, Begin(x)
    PROVE  TableInv'
<1> USE DEF TableInv, TypeOK
<1>1. /\ created' = [created EXCEPT ![x] = clock + 1] /\ clock' = clock + 1
      /\ stage[x] = "none" /\ stage' = [stage EXCEPT ![x] = "begun"]
      /\ met' = [met EXCEPT ![x] = InFlight]
      /\ UNCHANGED <<id, sequence>>
  BY DEF Begin, Step
<1>2. created[x] = 0 /\ id[x] = 0
  BY <1>1 DEF Filled
<1>3. Filled'
  BY <1>1, <1>2 DEF Filled, Stages
<1>4. Distinct'
  BY <1>1, <1>2 DEF Filled, Distinct
<1>5. \A e, f \in Entries : Met(e, f) => Met(e, f)' \/ e = x \/ f = x
  BY <1>1 DEF Met
<1>6. OverBefore'
  <2> SUFFICES ASSUME NEW e \in Entries, NEW f \in Entries,
                      0 < created'[e], created'[e] < created'[f], ~Met(e, f)'
               PROVE  Over(e)'
    BY DEF OverBefore
  <2>1. e # x
    BY <1>1 DEF Filled
  <2>2. CASE f = x
    <3>1. e \notin InFlight
      BY <1>1, <2>2 DEF Met
    <3>2. stage[e] # "none"
      BY <1>1, <2>1 DEF Filled
    <3> QED BY <1>1, <2>1, <3>1, <3>2 DEF InFlight, Over, Stages
  <2>3. CASE f # x
    BY <1>1, <1>5, <2>1, <2>3 DEF OverBefore, Over
  <2> QED BY <2>2, <2>3
<1>7. IdsInOrder'
  BY <1>1, <1>2, <1>5 DEF IdsInOrder
<1> QED BY <1>3, <1>4, <1>6, <1>7

LEMMA DrawKeeps ==
    ASSUME TableInv, TypeOK', NEW x \in Entries, Draw(x)
    PROVE  TableInv'
<1> USE DEF TableInv, TypeOK
<1>1. /\ id' = [id EXCEPT ![x] = sequence + 1] /\ sequence' = sequence + 1
      /\ stage[x] = "begun" /\ stage' = [stage EXCEPT ![x] = "drawn"]
      /\ UNCHANGED <<created, clock, met>>
  BY DEF Draw, Step
<1>2. id[x] = 0 /\ created[x] > 0
  BY <1>1 DEF Filled
<1>3. Filled'
  BY <1>1, <1>2 DEF Filled, Stages
<1>4. Distinct'
  BY <1>1, <1>2 DEF Filled, Distinct
<1>5. OverBefore'
  BY <1>1 DEF OverBefore, Over, Met
<1>6. IdsInOrder'
  <2> SUFFICES ASSUME NEW e \in Entries, NEW f \in Entries,
                      0 < id'[e], id'[e] < id'[f], ~Met(e, f)'
               PROVE  created'[e] < created'[f]
    BY DEF IdsInOrder
  <2>1. e # x /\ ~Met(e, f)
    BY <1>1 DEF Filled, Met
  <2>2. CASE f = x
    <3>1. created[e] > 0 /\ created[e] # created[x]
      BY <1>1, <1>2, <2>1 DEF Filled, Distinct
    <3>2. ~(created[x] < created[e])
      BY <1>1, <1>2, <2>1, <2>2 DEF OverBefore, Over, Met
    <3> QED BY <1>1, <2>2, <3>1, <3>2
  <2>3. CASE f # x
    BY <1>1, <2>1, <2>3 DEF IdsInOrder
  <2> QED BY <2>2, <2>3
<1> QED BY <1>3, <1>4, <1>5, <1>6

LEMMA EndKeeps ==
    ASSUME TableInv, TypeOK', NEW x \in Entries, Commit(x) \/ Abort(x)
    PROVE  TableInv'
<1> USE DEF TableInv, TypeOK
<1>1. /\ UNCHANGED <<created, clock, met, id, sequence>>
      /\ \/ stage[x] = "drawn" /\ stage' = [stage EXCEPT ![x] = "stored"]
         \/ stage' = [stage EXCEPT ![x] = "failed"]
  BY DEF Commit, Abort, Step
<1>2. Filled' /\ Distinct'
  BY <1>1 DEF Filled, Distinct, Stages
<1>3. OverBefore' /\ IdsInOrder'
  BY <1>1 DEF OverBefore, IdsInOrder, Over, Met
<1> QED BY <1>2, <1>3

LEMMA TableStep == TableInv /\ [Next]_vars => TableInv'
<1> SUFFICES ASSUME TableInv, [Next]_vars PROVE TableInv'
  OBVIOUS
<1>1. TypeOK'
  BY TypeStep DEF TableInv
<1>2. CASE SendLogs
  BY <1>1, <1>2 DEF SendLogs, TableInv, Filled, Distinct, OverBefore, IdsInOrder, Met, Over
<1>3. CASE UNCHANGED inserts
  BY <1>1, <1>3, TableReads
<1> QED
  BY <1>1, <1>2, <1>3, BeginKeeps, DrawKeeps, EndKeeps
  DEF Next, Complete, GetLogs, GetLogsFails, vars

-------------------------------------------------------------------------------
(* Sequences that are put together.                                        *)
LEMMA Joined ==
    ASSUME NEW S, NEW p \in Seq(S), NEW q \in Seq(S)
    PROVE  /\ Len(p \o q) = Len(p) + Len(q)
           /\ \A i \in 1..Len(p) : (p \o q)[i] = p[i]
           /\ \A i \in 1..Len(p \o q) :
                ~(i \in 1..Len(p)) => i - Len(p) \in 1..Len(q) /\ (p \o q)[i] = q[i - Len(p)]
OBVIOUS

LEMMA JoinedHeld ==
    ASSUME NEW S, NEW p \in Seq(S), NEW q \in Seq(S)
    PROVE  Held(p \o q) = Held(p) \cup Held(q)
<1>1. ASSUME NEW x \in Held(p) PROVE x \in Held(p \o q)
  <2>1. PICK i \in 1..Len(p) : x = p[i]
    BY <1>1 DEF Held
  <2>2. i \in 1..Len(p \o q) /\ (p \o q)[i] = x
    BY <2>1
  <2> QED BY <2>2 DEF Held
<1>2. ASSUME NEW x \in Held(q) PROVE x \in Held(p \o q)
  <2>1. PICK i \in 1..Len(q) : x = q[i]
    BY <1>2 DEF Held
  <2>2. Len(p) + i \in 1..Len(p \o q) /\ (p \o q)[Len(p) + i] = x
    BY <2>1
  <2> QED BY <2>2 DEF Held
<1>3. ASSUME NEW x \in Held(p \o q) PROVE x \in Held(p) \cup Held(q)
  <2>1. PICK i \in 1..Len(p \o q) : x = (p \o q)[i]
    BY <1>3 DEF Held
  <2>2. \/ i \in 1..Len(p) /\ x = p[i]
        \/ i - Len(p) \in 1..Len(q) /\ x = q[i - Len(p)]
    BY <2>1, Joined
  <2> QED BY <2>2 DEF Held
<1> QED BY <1>1, <1>2, <1>3

(* What is printed is there, and lastID is the greatest id of it.          *)
PrintedInv ==
    /\ Held(printed) \subseteq Stored
    /\ \A e \in Held(printed) : id[e] <= lastID
    /\ lastID # 0 => \E f \in Held(printed) : id[f] = lastID

PrintInv ==
    PrintedInv /\ PrintedOnce /\ SkippedOverlapped /\ PrintedInOrder

(* What a page does to what is printed.                                    *)
LEMMA PageRead ==
    ASSUME TableInv, PrintInv, GetLogs
    PROVE  \E page \in Seq(Entries) :
             /\ IsPage(page) /\ Held(page) \subseteq New
             /\ printed' = printed \o page
             /\ Held(printed') = Held(printed) \cup Held(page)
             /\ lastID <= lastID'
             /\ \A e \in Held(page) : id[e] <= lastID'
             /\ lastID' # lastID => \E f \in Held(page) : id[f] = lastID'
             /\ UNCHANGED <<stage, id, created, met>>
<1>1. PICK page \in Pages :
        /\ IsPage(page)
        /\ printed' = printed \o page
        /\ lastID' \in {lastID} \cup {id[e] : e \in Held(page)}
        /\ IsHighest(lastID', page)
  BY DEF GetLogs
<1>2. PICK n \in 0..Limit : page \in [1..n -> New]
  BY <1>1 DEF Pages
<1>3. page \in Seq(Entries) /\ page \in Seq(New) /\ Len(page) = n
  BY <1>2 DEF New, Stored
<1>4. Held(page) \subseteq New
  BY <1>2, <1>3 DEF Held
<1>5. printed \in Seq(Entries)
  BY DEF TableInv, TypeOK
<1>6. Held(printed') = Held(printed) \cup Held(page)
  BY <1>1, <1>3, <1>5, JoinedHeld
<1>7. \A e \in Held(page) : id[e] \in Nat /\ id[e] > lastID
  BY <1>4 DEF New, Stored, TableInv, TypeOK
<1>8. lastID \in Nat
  BY DEF TableInv, TypeOK
<1>9. /\ lastID <= lastID'
      /\ \A e \in Held(page) : id[e] <= lastID'
      /\ lastID' # lastID => \E f \in Held(page) : id[f] = lastID'
  BY <1>1, <1>7, <1>8 DEF IsHighest
<1>10. UNCHANGED <<stage, id, created, met>>
  BY DEF GetLogs, inserts
<1> QED BY <1>1, <1>3, <1>4, <1>6, <1>9, <1>10

(* Two entries of which one is stored and was passed over by the other.    *)
LEMMA PassedOver ==
    ASSUME TableInv, NEW e \in Entries, NEW f \in Stored,
           id[e] < id[f], stage[e] = "drawn"
    PROVE  Met(e, f)
BY DEF TableInv, TypeOK, Filled, OverBefore, IdsInOrder, Over, Stored

LEMMA SkippedByPage ==
    ASSUME TableInv, NEW page \in Seq(Entries), IsPage(page),
           Held(page) \subseteq New,
           NEW e \in New, e \notin Held(page), NEW f \in Held(page), id[e] <= id[f]
    PROVE  Met(e, f)
<1>1. e \in Entries /\ f \in Entries /\ id[e] > 0 /\ id[f] > 0 /\ e # f
  BY DEF New, Stored, TableInv, Filled
<1>2. id[e] < id[f]
  BY <1>1 DEF TableInv, TypeOK, Distinct
<1>3. created[f] < created[e]
  BY DEF IsPage, Before, Held
<1>4. created[e] \in Nat /\ created[f] \in Nat
  BY <1>1 DEF TableInv, TypeOK
<1> QED BY <1>1, <1>2, <1>3, <1>4 DEF TableInv, IdsInOrder

LEMMA PageKeepsPrinted ==
    ASSUME TableInv, PrintInv, GetLogs
    PROVE  PrintedInv'
<1>1. PICK page \in Seq(Entries) :
        /\ IsPage(page) /\ Held(page) \subseteq New
        /\ printed' = printed \o page
        /\ Held(printed') = Held(printed) \cup Held(page)
        /\ lastID <= lastID'
        /\ \A e \in Held(page) : id[e] <= lastID'
        /\ lastID' # lastID => \E f \in Held(page) : id[f] = lastID'
        /\ UNCHANGED <<stage, id, created, met>>
  BY PageRead
<1>2. Stored' = Stored
  BY <1>1 DEF Stored
<1>3. lastID \in Nat /\ lastID' \in Nat
  BY <1>1, TypeStep DEF TableInv, TypeOK, Next
<1>4. Held(printed') \subseteq Stored
  BY <1>1 DEF New, PrintInv, PrintedInv
<1>5. \A e \in Held(printed') : id[e] <= lastID'
  <2>1. ASSUME NEW e \in Held(printed) PROVE id[e] <= lastID'
    <3>1. id[e] \in Nat /\ id[e] <= lastID
      BY <2>1 DEF PrintInv, PrintedInv, Stored, TableInv, TypeOK
    <3> QED BY <1>1, <1>3, <3>1
  <2> QED BY <1>1, <2>1
<1>6. lastID' # 0 => \E f \in Held(printed') : id[f] = lastID'
  BY <1>1 DEF PrintInv, PrintedInv
<1> QED BY <1>1, <1>2, <1>4, <1>5, <1>6 DEF PrintedInv

LEMMA PageKeepsSkipped ==
    ASSUME TableInv, PrintInv, GetLogs
    PROVE  SkippedOverlapped'
<1>1. PICK page \in Seq(Entries) :
        /\ IsPage(page) /\ Held(page) \subseteq New
        /\ printed' = printed \o page
        /\ Held(printed') = Held(printed) \cup Held(page)
        /\ lastID <= lastID'
        /\ \A e \in Held(page) : id[e] <= lastID'
        /\ lastID' # lastID => \E f \in Held(page) : id[f] = lastID'
        /\ UNCHANGED <<stage, id, created, met>>
  BY PageRead
<1> SUFFICES ASSUME NEW e \in Stored, id[e] <= lastID', e \notin Held(printed')
             PROVE  \E f \in Held(printed') : Met(e, f)
  BY <1>1 DEF SkippedOverlapped, Stored, Met
<1>2. CASE id[e] <= lastID
  BY <1>1, <1>2 DEF PrintInv, SkippedOverlapped
<1>3. CASE ~(id[e] <= lastID)
  <2>1. e \in New
    BY <1>3 DEF New, Stored, TableInv, TypeOK
  <2>2. PICK f \in Held(page) : id[f] = lastID'
    BY <1>1, <1>3
  <2>3. Met(e, f)
    BY <1>1, <2>1, <2>2, SkippedByPage
  <2> QED BY <1>1, <2>2, <2>3
<1> QED BY <1>2, <1>3

LEMMA PageKeepsOrder ==
    ASSUME TableInv, PrintInv, GetLogs
    PROVE  PrintedOnce' /\ PrintedInOrder'
<1>1. PICK page \in Seq(Entries) :
        /\ IsPage(page) /\ Held(page) \subseteq New
        /\ printed' = printed \o page
        /\ UNCHANGED <<stage, id, created, met>>
  BY PageRead
<1>2. printed \in Seq(Entries)
  BY DEF TableInv, TypeOK
<1>3. ASSUME NEW i \in 1..Len(printed'), NEW j \in 1..Len(printed'), i < j
      PROVE  /\ printed'[i] # printed'[j]
             /\ id[printed'[i]] > id[printed'[j]] => Met(printed'[i], printed'[j])
  <2>1. CASE j \in 1..Len(printed)
    <3>1. /\ i \in 1..Len(printed)
          /\ printed'[i] = printed[i] /\ printed'[j] = printed[j]
      BY <1>1, <1>2, <1>3, <2>1, Joined
    <3> QED BY <1>3, <2>1, <3>1 DEF PrintInv, PrintedOnce, PrintedInOrder
  <2>2. CASE i \in 1..Len(printed) /\ ~(j \in 1..Len(printed))
    <3>1. /\ printed'[i] = printed[i]
          /\ j - Len(printed) \in 1..Len(page) /\ printed'[j] = page[j - Len(printed)]
      BY <1>1, <1>2, <2>2, Joined
    <3>2. printed'[i] \in Held(printed) /\ printed'[j] \in Held(page)
      BY <2>2, <3>1 DEF Held
    <3>3. id[printed'[i]] <= lastID /\ id[printed'[j]] > lastID
      BY <1>1, <3>2 DEF PrintInv, PrintedInv, New
    <3>4. /\ id[printed'[i]] \in Nat /\ id[printed'[j]] \in Nat /\ lastID \in Nat
      BY <1>1, <3>2 DEF PrintInv, PrintedInv, New, Stored, TableInv, TypeOK
    <3> QED BY <3>3, <3>4
  <2>3. CASE ~(i \in 1..Len(printed)) /\ ~(j \in 1..Len(printed))
    <3> DEFINE k == i - Len(printed)
               l == j - Len(printed)
    <3>1. /\ k \in 1..Len(page) /\ printed'[i] = page[k]
          /\ l \in 1..Len(page) /\ printed'[j] = page[l]
          /\ k < l
      BY <1>1, <1>2, <1>3, <2>3, Joined
    <3>2. page[k] # page[l] /\ created[page[k]] < created[page[l]]
      BY <1>1, <3>1 DEF IsPage, Before
    <3>3. /\ page[k] \in Entries /\ page[l] \in Entries
          /\ id[page[k]] > 0 /\ id[page[l]] > 0
      <4>1. page[k] \in New /\ page[l] \in New
        BY <1>1, <3>1 DEF Held
      <4> QED BY <4>1 DEF New, Stored, TableInv, Filled
    <3>4. id[page[k]] > id[page[l]] => Met(page[l], page[k])
      BY <3>2, <3>3 DEF TableInv, TypeOK, IdsInOrder
    <3> QED BY <3>1, <3>2, <3>4 DEF Met
  <2> QED BY <1>2, <2>1, <2>2, <2>3, <1>3
<1>4. PrintedOnce'
  <2>1. ASSUME NEW i \in 1..Len(printed'), NEW j \in 1..Len(printed'), i # j
        PROVE  printed'[i] # printed'[j]
    <3>1. i < j \/ j < i
      BY <2>1
    <3> QED BY <1>3, <3>1
  <2> QED BY <2>1 DEF PrintedOnce
<1>5. PrintedInOrder'
  BY <1>1, <1>3 DEF PrintedInOrder, Met
<1> QED BY <1>4, <1>5

(* An INSERT that is not stored is none of the command's business.         *)
LEMMA OthersKeep ==
    ASSUME TableInv, PrintInv, Stored' = Stored, UNCHANGED <<printed, lastID>>,
           \A e \in Stored : id'[e] = id[e] /\ met'[e] = met[e]
    PROVE  PrintInv'
<1>1. PrintedInv' /\ Held(printed) \subseteq Stored /\ Held(printed)' = Held(printed)
  BY DEF PrintInv, PrintedInv, Held
<1>2. \A e, f \in Stored : Met(e, f)' <=> Met(e, f)
  BY DEF Met
<1>3. SkippedOverlapped'
  BY <1>1, <1>2 DEF PrintInv, SkippedOverlapped
<1>4. PrintedOnce'
  BY DEF PrintInv, PrintedOnce
<1>5. PrintedInOrder'
  <2>1. \A i \in 1..Len(printed) : printed[i] \in Stored
    BY <1>1 DEF Held
  <2> QED BY <1>2, <2>1 DEF PrintInv, PrintedInOrder
<1> QED BY <1>1, <1>3, <1>4, <1>5 DEF PrintInv

(* An entry that is stored late was passed over by one it ran with.        *)
LEMMA CommitKeeps ==
    ASSUME TableInv, PrintInv, NEW x \in Entries, Commit(x)
    PROVE  PrintInv'
<1>1. /\ stage[x] = "drawn" /\ Stored' = Stored \cup {x}
      /\ UNCHANGED <<id, met, printed, lastID>>
  BY DEF Commit, Step, Stored, TableInv, TypeOK, command
<1>2. Held(printed) \subseteq Stored /\ Held(printed)' = Held(printed)
  BY <1>1 DEF PrintInv, PrintedInv, Held
<1>3. PrintedInv' /\ PrintedOnce' /\ PrintedInOrder'
  BY <1>1, <1>2 DEF PrintInv, PrintedInv, PrintedOnce, PrintedInOrder, Met
<1>4. ASSUME id[x] <= lastID PROVE \E f \in Held(printed) : Met(x, f)
  <2>1. id[x] > 0 /\ x \notin Stored
    BY <1>1 DEF TableInv, Filled, Stored
  <2>2. PICK f \in Held(printed) : id[f] = lastID
    BY <1>4, <2>1 DEF PrintInv, PrintedInv, TableInv, TypeOK
  <2>3. f \in Stored /\ f # x
    BY <1>2, <2>1, <2>2
  <2>4. id[x] < id[f]
    BY <1>4, <2>1, <2>2, <2>3 DEF TableInv, TypeOK, Distinct, Stored
  <2> QED BY <1>1, <2>2, <2>3, <2>4, PassedOver
<1>5. SkippedOverlapped'
  BY <1>1, <1>2, <1>4 DEF PrintInv, SkippedOverlapped, Met
<1> QED BY <1>3, <1>5 DEF PrintInv

LEMMA PrintStep == TableInv /\ PrintInv /\ [Next]_vars => PrintInv'
<1> SUFFICES ASSUME TableInv, PrintInv, [Next]_vars PROVE PrintInv'
  OBVIOUS
<1>1. CASE GetLogs
  BY <1>1, PageKeepsPrinted, PageKeepsSkipped, PageKeepsOrder DEF PrintInv
<1>2. CASE SendLogs \/ Complete \/ GetLogsFails \/ UNCHANGED vars
  BY <1>2, OthersKeep
  DEF SendLogs, Complete, GetLogsFails, vars, inserts, command, Stored
<1>3. ASSUME NEW x \in Entries, Begin(x) \/ Draw(x) \/ Abort(x) PROVE PrintInv'
  <2>1. stage[x] # "stored" /\ stage'[x] # "stored"
    BY <1>3 DEF Begin, Draw, Abort, Step, TableInv, TypeOK
  <2>2. /\ \A e \in Entries \ {x} : /\ stage'[e] = stage[e]
                                   /\ id'[e] = id[e] /\ met'[e] = met[e]
        /\ UNCHANGED <<printed, lastID>>
    BY <1>3 DEF Begin, Draw, Abort, Step, TableInv, TypeOK, command
  <2>3. Stored' = Stored /\ x \notin Stored
    BY <2>1, <2>2 DEF Stored
  <2> QED BY <2>2, <2>3, OthersKeep DEF Stored
<1>4. ASSUME NEW x \in Entries, Commit(x) PROVE PrintInv'
  BY <1>4, CommitKeeps
<1> QED BY <1>1, <1>2, <1>3, <1>4 DEF Next

-------------------------------------------------------------------------------
LEMMA Invariance == Spec => [](TableInv /\ PrintInv)
<1>1. Init => TableInv /\ PrintInv
  <2>1. Init => PrintInv
    BY DEF Init, PrintInv, PrintedInv, PrintedOnce, SkippedOverlapped, PrintedInOrder,
           Held, Stored
  <2> QED BY <2>1, TableInit
<1>2. TableInv /\ PrintInv /\ [Next]_vars => (TableInv /\ PrintInv)'
  BY TableStep, PrintStep
<1> QED BY <1>1, <1>2, PTL DEF Spec

(* Every value is of its kind.                                             *)
THEOREM TypeCorrect == Spec => []TypeOK
<1>1. TableInv => TypeOK
  BY DEF TableInv
<1> QED BY <1>1, Invariance, PTL

(* Continuing after the greatest id seen, GetLogs returns nothing twice.   *)
THEOREM EntriesPrintedOnce == Spec => []PrintedOnce
<1>1. PrintInv => PrintedOnce
  BY DEF PrintInv
<1> QED BY <1>1, Invariance, PTL

(* ... and skips an entry only if its INSERT ran with that of another.     *)
THEOREM SkipsAreOverlaps == Spec => []SkippedOverlapped
<1>1. PrintInv => SkippedOverlapped
  BY DEF PrintInv
<1> QED BY <1>1, Invariance, PTL

(* ORDER BY created_at prints INSERTs that did not overlap in their order. *)
THEOREM EntriesInOrder == Spec => []PrintedInOrder
<1>1. PrintInv => PrintedInOrder
  BY DEF PrintInv
<1> QED BY <1>1, Invariance, PTL

(* When the command stops, an empty page has shown that lastID has passed  *)
(* all that is there.                                                      *)
THEOREM StopsWhenCaughtUp == Spec => StopsCaughtUp
<1> DEFINE Caught == reader = "fetch" /\ reader' = "done" =>
                \A e \in Stored :
                    e \in Held(printed) \/ \E f \in Held(printed) : Met(e, f)
<1>1. TableInv /\ PrintInv /\ [Next]_vars => [Caught]_vars
  <2> SUFFICES ASSUME TableInv, PrintInv, [Next]_vars,
                      reader = "fetch", reader' = "done",
                      NEW e \in Stored, e \notin Held(printed)
               PROVE  \E f \in Held(printed) : Met(e, f)
    OBVIOUS
  <2>1. GetLogs
    BY DEF Next, SendLogs, Begin, Draw, Commit, Abort, Complete, GetLogsFails,
           vars, command
  <2>2. PICK page \in Pages : IsPage(page) /\ page = <<>>
    BY <2>1 DEF GetLogs, AfterPage
  <2>3. e \notin New
    BY <2>2 DEF IsPage, Held
  <2>4. id[e] <= lastID
    BY <2>3 DEF New, Stored, TableInv, TypeOK
  <2> QED BY <2>4 DEF PrintInv, SkippedOverlapped
<1> QED BY <1>1, Invariance, PTL DEF Spec, StopsCaughtUp
================================================================================
