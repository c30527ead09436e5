---------------------------- MODULE Shelves_proofs ----------------------------
(* What holds of the shelves whatever the constants are: the spools and the       *)
(* ledger that says where their grams went (Materials); the library on disk and   *)
(* the rows that describe it (Stash).  Each part has its inductive invariant, one *)
(* lemma for each action that may disturb it, and its theorems.                   *)
EXTENDS Materials, Stash, FiniteSetTheorems, TLAPS

-----------------------------------------------------------------------------
(* Materials: the inductive invariant *)

\* The two bookings of a print.
Stages == {"estimated", "measured"}

\* A booking of a print names its job and its slot; the table is finite.
LedgerOK ==
  /\ IsFiniteSet(ledger)
  /\ \A r \in ledger : r.kind \in Stages => r.job \in Jobs /\ r.slot \in Slots

\* The chain of calls books slots that a spool is noted for.
ChainOK ==
  /\ chain.at \in {"estimate", "measure"} =>
       chain.job \in Jobs /\ chain.todo \subseteq Held(job[chain.job].used)
  /\ chain.at = "stamp" => chain.job \in Keys

\* Until its spools are read nothing is booked for a job; once they were read, and not
\* again, what is booked names them, unless a measuring Courier wiped the note.
SpoolsOK ==
  \A j \in Jobs :
    /\ reads[j] = 0 =>
         job[j].used = NoUse /\ \A r \in ledger : r.kind \in Stages => r.job # j
    /\ reads[j] = 1 =>
         \A r \in ledger : (r.kind \in Stages /\ r.job = j)
                             => job[j].used[r.slot] \in {r.mat, NoMat}

MatInv ==
  MatTypeOK /\ LedgerOK /\ ChainOK /\ SpoolsOK /\ ConsumedOnce /\ PaidByItsSpool

-----------------------------------------------------------------------------
(* What the ledger's operators return *)

EntryIs(e, k, j, s, m) == e \in Rows /\ e.kind = k /\ e.job = j /\ e.slot = s /\ e.mat = m

\* A new entry is a row of the ledger, with what it was asked to say.
LEMMA EntryFacts ==
  ASSUME IsFiniteSet(ledger), NEW k \in Kinds, NEW j \in Jobs \cup {NoJob},
         NEW s \in Slots \cup {NoJob}, NEW m \in Mats, NEW g \in Nat
  PROVE  EntryIs(Entry(k, j, s, m, g), k, j, s, m)
<1> DEFINE r == [kind |-> k, job |-> j, slot |-> s, mat |-> m, grams |-> g, n |-> 0]
           c == Cardinality(Same(r)) + 1
<1>1. IsFiniteSet(Same(r))
  BY FS_Subset DEF Same
<1>2. c \in Nat
  BY <1>1, FS_CardinalityType
<1>3. Entry(k, j, s, m, g) = [r EXCEPT !.n = c]
  BY DEF Entry
<1> HIDE DEF c
<1> QED
  BY <1>2, <1>3 DEF Rows, EntryIs

\* A draw leaves the rows of the spools theirs, and the ledger one row longer.
LEMMA ConsumeEffect ==
  ASSUME MatTypeOK, LedgerOK, NEW k \in Kinds, NEW j \in Jobs \cup {NoJob},
         NEW s \in Slots \cup {NoJob}, NEW m \in Mats, NEW g \in Nat,
         Consume(k, j, s, m, g)
  PROVE  /\ mat' \in [Mats -> MatRows]
         /\ \E e \in Rows : /\ e.kind = k /\ e.job = j /\ e.slot = s /\ e.mat = m
                            /\ ledger' = ledger \cup {e}
<1> DEFINE entry == [mat[m] EXCEPT !.left = mat[m].left - g]
<1>1. ledger' = ledger \cup {Entry(k, j, s, m, g)} /\ mat' = [mat EXCEPT ![m] = entry]
  BY DEF Consume
<1>2. mat \in [Mats -> MatRows] /\ mat[m] \in MatRows
  BY DEF MatTypeOK
<1>3. mat[m].left - g \in Int
  BY <1>2 DEF MatRows
<1>4. entry \in MatRows
  BY <1>2, <1>3 DEF MatRows
<1> HIDE DEF entry
<1>5. mat' \in [Mats -> MatRows]
  BY <1>1, <1>2, <1>4
<1>6. IsFiniteSet(ledger)
  BY DEF LedgerOK
<1>7. PICK e : e = Entry(k, j, s, m, g)
  OBVIOUS
<1>8. EntryIs(e, k, j, s, m)
  BY <1>6, <1>7, EntryFacts
<1>9. ledger' = ledger \cup {e}
  BY <1>1, <1>7
<1> QED
  BY <1>5, <1>8, <1>9 DEF EntryIs

\* A row more of one of the two bookings is harmless when there was none, and when
\* it names the spool that is noted.
LEMMA BookingKeeps ==
  ASSUME MatInv, NEW e \in Rows, NEW j \in Jobs, NEW s \in Slots, NEW k \in Stages,
         e.kind = k, e.job = j, e.slot = s, ~Booked(k, j, s), e.mat = job[j].used[s],
         e.mat # NoMat, ledger' = ledger \cup {e}, UNCHANGED <<job, reads>>
  PROVE  LedgerOK' /\ SpoolsOK' /\ ConsumedOnce' /\ PaidByItsSpool' /\ ledger' \subseteq Rows
<1> USE DEF MatInv
<1>1. LedgerOK' /\ ledger' \subseteq Rows
  BY FS_AddElement DEF LedgerOK, MatTypeOK
<1>2. ConsumedOnce'
  BY DEF ConsumedOnce, Booked
<1>3. reads[j] # 0
  <2>1. job[j].used[s] # NoUse[s]
    BY DEF NoUse
  <2> QED
    BY <2>1 DEF SpoolsOK
<1>4. SpoolsOK'
  BY <1>3 DEF SpoolsOK
<1>5. PaidByItsSpool'
  <2>1. \A r \in ledger : (reads[j] = 1 /\ r.kind \in Stages /\ r.job = j /\ r.slot = s)
                            => r.mat = e.mat
    BY DEF SpoolsOK
  <2> QED
    BY <2>1 DEF PaidByItsSpool, Stages
<1> QED
  BY <1>1, <1>2, <1>4, <1>5

\* Rows of no print say nothing about prints.
LEMMA OtherRowsKeep ==
  ASSUME MatInv, NEW E, IsFiniteSet(E), E \subseteq Rows, \A e \in E : e.kind \notin Stages,
         ledger' = ledger \cup E, UNCHANGED <<job, reads>>
  PROVE  LedgerOK' /\ SpoolsOK' /\ ConsumedOnce' /\ PaidByItsSpool' /\ ledger' \subseteq Rows
<1> USE DEF MatInv
<1>1. LedgerOK' /\ ledger' \subseteq Rows
  BY FS_Union DEF LedgerOK, MatTypeOK
<1>2. ConsumedOnce' /\ PaidByItsSpool'
  BY DEF ConsumedOnce, PaidByItsSpool, Stages
<1>3. SpoolsOK'
  BY DEF SpoolsOK
<1> QED
  BY <1>1, <1>2, <1>3

-----------------------------------------------------------------------------
(* Every action of MatNext keeps MatInv *)

LEMMA MatInitInv == MatInit => MatInv
<1> SUFFICES ASSUME MatInit PROVE MatInv
  OBVIOUS
<1>1. MatTypeOK
  <2>1. mat \in [Mats -> MatRows]
    BY DEF MatInit, MatRows
  <2>2. job \in [Jobs -> JobRows]
    BY DEF MatInit, JobRows, NoUse
  <2>3. chain \in [at : {"none", "estimate", "measure", "stamp"},
                   job : Jobs \cup Keys \cup {NoJob},
                   by : {"none", "central", "courier", "feed"}, todo : SUBSET Slots]
    BY DEF MatInit, Quiet
  <2>4. measured \in [Jobs -> [by : {"none", "feed", "courier"}, grams : [Slots -> Nat]]]
    BY DEF MatInit
  <2>5. keyed \in [Keys -> MixBatches] /\ loaded \in PrinterLoadouts
    BY DEF MatInit, MixBatches, PrinterLoadouts
  <2>6. reads \in [Jobs -> 0..MaxReads]
    BY MaterialsAssumption DEF MatInit
  <2> QED
    BY <2>1, <2>2, <2>3, <2>4, <2>5, <2>6, MaterialsAssumption DEF MatInit, MatTypeOK
<1>2. LedgerOK /\ ConsumedOnce /\ PaidByItsSpool
  BY FS_EmptySet DEF MatInit, LedgerOK, ConsumedOnce, PaidByItsSpool
<1>3. ChainOK
  BY DEF MatInit, ChainOK, Quiet
<1>4. SpoolsOK
  BY DEF MatInit, SpoolsOK
<1> QED
  BY <1>1, <1>2, <1>3, <1>4 DEF MatInv

\* A step that books nothing and notes no spool keeps what is said of bookings, when
\* the chain it leaves is sound.
LEMMA LedgerStands ==
  ASSUME MatInv, MatTypeOK', ChainOK', UNCHANGED <<ledger, reads>>,
         \A j \in Jobs : job'[j].used = job[j].used
  PROVE  MatInv'
<1> USE DEF MatInv
<1>1. LedgerOK' /\ ConsumedOnce' /\ PaidByItsSpool'
  BY DEF LedgerOK, ConsumedOnce, PaidByItsSpool
<1>2. SpoolsOK'
  BY DEF SpoolsOK
<1> QED
  BY <1>1, <1>2

\* What users do to spools and slots.
LEMMA ShelfKeeps ==
  ASSUME MatInv, NEW m \in Mats,
         \/ CreateMaterial(m) \/ UnloadFromPrinter(m) \/ RetireMaterial(m)
         \/ \E s \in Slots : LoadInPrinter(m, s)
  PROVE  MatInv'
<1> USE DEF MatInv
<1>1. acts' = acts + 1 /\ acts < MaxActs
      /\ UNCHANGED <<job, ledger, pending, chain, keyed, process, history>>
  BY DEF CreateMaterial, UnloadFromPrinter, RetireMaterial, LoadInPrinter, Acts
<1>2. acts' \in 0..MaxActs
  BY <1>1, MaterialsAssumption DEF MatTypeOK
<1>3. mat \in [Mats -> MatRows] /\ mat[m] \in MatRows /\ loaded \in PrinterLoadouts
  BY DEF MatTypeOK
<1>4. mat' \in [Mats -> MatRows] /\ loaded' \in PrinterLoadouts
  <2>1. CASE CreateMaterial(m)
    <3>1. [life |-> "active", init |-> Full, left |-> Full] \in MatRows
      BY MaterialsAssumption DEF MatRows
    <3> QED
      BY <1>3, <2>1, <3>1 DEF CreateMaterial
  <2>2. CASE UnloadFromPrinter(m)
    BY <1>3, <2>2 DEF UnloadFromPrinter, PrinterLoadouts
  <2>3. CASE RetireMaterial(m)
    <3>1. [mat[m] EXCEPT !.life = "retired"] \in MatRows
      BY <1>3 DEF MatRows
    <3> QED
      BY <1>3, <2>3, <3>1 DEF RetireMaterial
  <2>4. CASE \E s \in Slots : LoadInPrinter(m, s)
    BY <1>3, <2>4 DEF LoadInPrinter, PrinterLoadouts
  <2> QED
    BY <2>1, <2>2, <2>3, <2>4
<1>5. MatTypeOK'
  BY <1>1, <1>2, <1>4 DEF MatTypeOK, process, history
<1>6. ChainOK'
  BY <1>1 DEF ChainOK
<1> QED
  BY <1>1, <1>5, <1>6, LedgerStands DEF history

LEMMA ManualKeeps ==
  ASSUME MatInv, NEW m \in Mats, ConsumeManually(m)
  PROVE  MatInv'
<1> USE DEF MatInv
<1>1. acts' = acts + 1 /\ acts < MaxActs /\ Consume("entered", NoJob, NoJob, m, 1)
      /\ UNCHANGED <<loaded, job, pending, chain, keyed, process, history>>
  BY DEF ConsumeManually, Acts
<1>2. acts' \in 0..MaxActs
  BY <1>1, MaterialsAssumption DEF MatTypeOK
<1>3. "entered" \in Kinds \ Stages
  BY DEF Kinds, Stages
<1>4. /\ mat' \in [Mats -> MatRows]
      /\ \E e \in Rows : e.kind = "entered" /\ ledger' = ledger \cup {e}
  BY <1>1, <1>3, ConsumeEffect
<1>5. PICK e \in Rows : e.kind = "entered" /\ ledger' = ledger \cup {e}
  BY <1>4
<1>6. IsFiniteSet({e}) /\ {e} \subseteq Rows /\ \A x \in {e} : x.kind \notin Stages
  BY <1>3, <1>5, FS_Singleton
<1>7. LedgerOK' /\ SpoolsOK' /\ ConsumedOnce' /\ PaidByItsSpool' /\ ledger' \subseteq Rows
  BY <1>1, <1>5, <1>6, OtherRowsKeep DEF history
<1>8. MatTypeOK'
  BY <1>1, <1>2, <1>4, <1>7 DEF MatTypeOK, process, history
<1>9. ChainOK'
  BY <1>1 DEF ChainOK
<1> QED
  BY <1>7, <1>8, <1>9

\* A mix or a recycle: draws of many spools, and a new one.
LEMMA BlendKeeps ==
  ASSUME MatInv, NEW k \in Keys, NEW sources \in SUBSET Mats, NEW product \in Mats,
         NEW amount \in Nat, product \notin sources, Blend(k, sources, product, amount)
  PROVE  MatInv'
<1> USE DEF MatInv
<1> DEFINE new == [life |-> "active", init |-> amount, left |-> amount]
           drawn(m) == [mat[m] EXCEPT !.left = mat[m].left - Draw]
           E == {Entry("drawn", NoJob, NoJob, m, Draw) : m \in sources}
           c == [at |-> "stamp", job |-> k, by |-> "none", todo |-> {}]
<1>1. /\ acts' = acts + 1 /\ acts < MaxActs
      /\ mat' = [m \in Mats |-> IF m \in sources THEN drawn(m)
                                ELSE IF m = product THEN new ELSE mat[m]]
      /\ ledger' = ledger \cup E
      /\ keyed' = [keyed EXCEPT ![k].applied = keyed[k].applied + 1]
      /\ chain' = c
      /\ UNCHANGED <<loaded, job, pending, process, history>>
  BY DEF Blend, Acts
<1>2. acts' \in 0..MaxActs
  BY <1>1, MaterialsAssumption DEF MatTypeOK
<1>3. mat' \in [Mats -> MatRows]
  <2>1. new \in MatRows
    BY DEF MatRows
  <2>2. \A m \in Mats : mat[m] \in MatRows /\ drawn(m) \in MatRows
    <3> TAKE m \in Mats
    <3>1. mat[m] \in MatRows
      BY DEF MatTypeOK
    <3>2. mat[m].left - Draw \in Int
      BY <3>1, MaterialsAssumption DEF MatRows
    <3> QED
      BY <3>1, <3>2 DEF MatRows
  <2> HIDE DEF new, drawn
  <2> QED
    BY <1>1, <2>1, <2>2
<1>4. IsFiniteSet(E) /\ E \subseteq Rows /\ \A e \in E : e.kind \notin Stages
  <2>1. "drawn" \in Kinds \ Stages /\ Draw \in Nat /\ IsFiniteSet(sources)
    BY MaterialsAssumption, FS_Subset DEF Kinds, Stages
  <2>2. IsFiniteSet(E)
    <3> DEFINE f == [m \in sources |-> Entry("drawn", NoJob, NoJob, m, Draw)]
    <3>1. f \in Surjection(sources, E)
      BY DEF Surjection
    <3> HIDE DEF f, E
    <3> QED
      BY <2>1, <3>1, FS_Surjection
  <2>3. \A m \in sources : /\ Entry("drawn", NoJob, NoJob, m, Draw) \in Rows
                           /\ Entry("drawn", NoJob, NoJob, m, Draw).kind = "drawn"
    <3> SUFFICES ASSUME NEW m \in sources
                 PROVE  /\ Entry("drawn", NoJob, NoJob, m, Draw) \in Rows
                        /\ Entry("drawn", NoJob, NoJob, m, Draw).kind = "drawn"
      OBVIOUS
    <3>1. IsFiniteSet(ledger) /\ NoJob \in Slots \cup {NoJob} /\ NoJob \in Jobs \cup {NoJob}
      BY DEF LedgerOK
    <3>2. PICK what \in Kinds : what = "drawn"
      BY <2>1
    <3>3. m \in Mats
      OBVIOUS
    <3>4. EntryIs(Entry(what, NoJob, NoJob, m, Draw), what, NoJob, NoJob, m)
      BY <2>1, <3>1, <3>3, EntryFacts
    <3> QED
      BY <3>2, <3>4 DEF EntryIs
  <2> QED
    BY <2>1, <2>2, <2>3
<1>5. keyed' \in [Keys -> MixBatches]
  <2>1. keyed \in [Keys -> MixBatches] /\ keyed[k] \in MixBatches
    BY DEF MatTypeOK
  <2> DEFINE entry == [keyed[k] EXCEPT !.applied = keyed[k].applied + 1]
  <2>2. entry \in MixBatches
    BY <2>1 DEF MixBatches
  <2>3. keyed' = [keyed EXCEPT ![k] = entry]
    BY <1>1
  <2> HIDE DEF entry
  <2> QED
    BY <2>1, <2>2, <2>3
<1>6. c \in [at : {"none", "estimate", "measure", "stamp"},
             job : Jobs \cup Keys \cup {NoJob},
             by : {"none", "central", "courier", "feed"}, todo : SUBSET Slots]
      /\ c.at = "stamp" /\ c.job = k
  OBVIOUS
<1> HIDE DEF E, c
<1>7. LedgerOK' /\ SpoolsOK' /\ ConsumedOnce' /\ PaidByItsSpool' /\ ledger' \subseteq Rows
  BY <1>1, <1>4, OtherRowsKeep DEF history
<1>8. MatTypeOK'
  BY <1>1, <1>2, <1>3, <1>5, <1>6, <1>7 DEF MatTypeOK, process, history
<1>9. ChainOK'
  BY <1>1, <1>6 DEF ChainOK
<1> QED
  BY <1>7, <1>8, <1>9

LEMMA MixKeeps ==
  ASSUME MatInv, NEW k \in Keys, NEW sources \in SUBSET Mats, NEW product \in Mats,
         product \notin sources, MixBatch(k, sources, product) \/ RecycleEvent(k, sources, product)
  PROVE  MatInv'
<1>1. Cardinality(sources) \in Nat
  BY MaterialsAssumption, FS_Subset, FS_CardinalityType
<1>2. Draw * Cardinality(sources) \in Nat /\ Full \in Nat
  BY <1>1, MaterialsAssumption
<1> QED
  BY <1>2, BlendKeeps DEF MixBatch, RecycleEvent

\* Where the server may stand.
ChainStates == [at : {"none", "estimate", "measure", "stamp"},
                job : Jobs \cup Keys \cup {NoJob},
                by : {"none", "central", "courier", "feed"}, todo : SUBSET Slots]

LEMMA QuietFacts == Quiet \in ChainStates /\ Quiet.at = "none"
BY DEF Quiet, ChainStates

LEMMA StampKeeps ==
  ASSUME MatInv, Stamp
  PROVE  MatInv'
<1> USE DEF MatInv
<1> DEFINE k == chain.job
           entry == [keyed[k] EXCEPT !.stored = TRUE]
<1>1. /\ k \in Keys /\ keyed' = [keyed EXCEPT ![k] = entry] /\ chain' = Quiet
      /\ UNCHANGED <<mat, loaded, job, ledger, pending, process, acts, history>>
  BY DEF Stamp, ChainOK
<1>2. keyed \in [Keys -> MixBatches] /\ keyed[k] \in MixBatches
  BY <1>1 DEF MatTypeOK
<1>3. entry \in MixBatches
  BY <1>2 DEF MixBatches
<1> HIDE DEF entry
<1>4. keyed' \in [Keys -> MixBatches]
  BY <1>1, <1>2, <1>3
<1>5. MatTypeOK'
  BY <1>1, <1>4, QuietFacts DEF MatTypeOK, ChainStates, process, history
<1>6. ChainOK'
  BY <1>1, QuietFacts DEF ChainOK
<1> QED
  BY <1>1, <1>5, <1>6, LedgerStands DEF history

\* A job with another status, and with another mark: its notes are as they were.
Restated(new, table, j, s) == new = [table EXCEPT ![j].status = s]
Remarked(new, table, j, m) == new = [table EXCEPT ![j].marker = m]
SameNotes(new, table) ==
  new \in [Jobs -> JobRows] /\ \A k \in Jobs : new[k].used = table[k].used

LEMMA StatusEffect ==
  ASSUME NEW table \in [Jobs -> JobRows], NEW j \in Jobs, NEW new,
         NEW s \in {"claimable", "claimed", "dispatched", "completed", "failed"},
         Restated(new, table, j, s)
  PROVE  SameNotes(new, table)
<1> DEFINE entry == [table[j] EXCEPT !.status = s]
<1>1. table[j] \in JobRows
  OBVIOUS
<1>2. entry \in JobRows /\ entry.used = table[j].used
  BY <1>1 DEF JobRows
<1>3. new = [table EXCEPT ![j] = entry]
  BY DEF Restated
<1> HIDE DEF entry
<1> QED
  BY <1>2, <1>3 DEF SameNotes

LEMMA MarkerEffect ==
  ASSUME NEW table \in [Jobs -> JobRows], NEW j \in Jobs, NEW new,
         NEW m \in {"none", "central", "courier"}, Remarked(new, table, j, m)
  PROVE  SameNotes(new, table)
<1> DEFINE entry == [table[j] EXCEPT !.marker = m]
<1>1. table[j] \in JobRows
  OBVIOUS
<1>2. entry \in JobRows /\ entry.used = table[j].used
  BY <1>1 DEF JobRows
<1>3. new = [table EXCEPT ![j] = entry]
  BY DEF Remarked
<1> HIDE DEF entry
<1> QED
  BY <1>2, <1>3 DEF SameNotes

LEMMA ClaimEffect ==
  ASSUME NEW j \in Jobs, MatTypeOK, NEW m \in {"central", "courier"},
         job' = [job EXCEPT ![j].status = "claimed", ![j].marker = m]
  PROVE  SameNotes(job', job)
<1> DEFINE half == [job EXCEPT ![j].status = "claimed"]
<1>1. Restated(half, job, j, "claimed") /\ job \in [Jobs -> JobRows]
  BY DEF Restated, MatTypeOK
<1>2. Remarked(job', half, j, m)
  BY DEF Remarked
<1> HIDE DEF half
<1>3. SameNotes(half, job)
  BY <1>1, StatusEffect
<1>4. half \in [Jobs -> JobRows]
  BY <1>3 DEF SameNotes
<1>5. SameNotes(job', half)
  BY <1>2, <1>4, MarkerEffect
<1> QED
  BY <1>3, <1>5 DEF SameNotes

\* Steps that move jobs and change none of their notes.
LEMMA MovesKeep ==
  ASSUME MatInv, SameNotes(job', job), pending' \subseteq Tasks, chain' = Quiet \/ UNCHANGED chain,
         up' \in BOOLEAN, crashes' \in 0..MaxCrashes,
         UNCHANGED <<mat, loaded, ledger, keyed, acts, history>>
  PROVE  MatInv'
<1> USE DEF MatInv, SameNotes
<1>1. MatTypeOK'
  BY QuietFacts DEF MatTypeOK, ChainStates, history
<1>2. ChainOK'
  BY QuietFacts DEF ChainOK
<1> QED
  BY <1>1, <1>2, LedgerStands DEF history

LEMMA ClaimStepsKeep ==
  ASSUME MatInv, NEW j \in Jobs,
         StartCentral(j) \/ CourierDispatched(j) \/ Fails(j) \/ EstimateDone
  PROVE  MatInv'
<1> USE DEF MatInv
<1>0. job \in [Jobs -> JobRows] /\ pending \subseteq Tasks /\ up \in BOOLEAN
      /\ crashes \in 0..MaxCrashes
  BY DEF MatTypeOK
<1>1. CASE StartCentral(j)
  <2>1. job' = [job EXCEPT ![j].status = "claimed", ![j].marker = "central"]
        /\ UNCHANGED <<mat, loaded, ledger, chain, keyed, process, acts, history>>
    BY <1>1 DEF StartCentral
  <2>2. pending' \subseteq Tasks
    BY <1>0, <1>1 DEF StartCentral, Tasks
  <2>3. SameNotes(job', job)
    BY <2>1, ClaimEffect
  <2> QED
    BY <1>0, <2>1, <2>2, <2>3, MovesKeep DEF process
<1>2. CASE CourierDispatched(j) \/ Fails(j)
  <2>1. Restated(job', job, j, "dispatched") \/ Restated(job', job, j, "failed")
    BY <1>2 DEF CourierDispatched, Fails, Restated
  <2>2. UNCHANGED <<mat, loaded, ledger, pending, chain, keyed, process, acts, history>>
    BY <1>2 DEF CourierDispatched, Fails
  <2>3. SameNotes(job', job)
    BY <1>0, <2>1, StatusEffect
  <2> QED
    BY <1>0, <2>2, <2>3, MovesKeep DEF process
<1>3. CASE EstimateDone
  <2> DEFINE i == chain.job
  <2>1. i \in Jobs /\ chain' = Quiet
        /\ UNCHANGED <<mat, loaded, ledger, pending, keyed, process, acts, history>>
    BY <1>3 DEF EstimateDone, ChainOK
  <2>2. \/ Restated(job', job, i, "dispatched")
        \/ job' = [job EXCEPT ![i].status = "claimed", ![i].marker = "courier"]
        \/ job' = job
    BY <1>3 DEF EstimateDone, Restated
  <2>3. SameNotes(job', job)
    <3>1. CASE Restated(job', job, i, "dispatched")
      BY <1>0, <2>1, <3>1, StatusEffect
    <3>2. CASE job' = [job EXCEPT ![i].status = "claimed", ![i].marker = "courier"]
      BY <2>1, <3>2, ClaimEffect
    <3>3. CASE job' = job
      BY <1>0, <3>3 DEF SameNotes
    <3> QED
      BY <2>2, <3>1, <3>2, <3>3
  <2> QED
    BY <1>0, <2>1, <2>3, MovesKeep DEF process
<1> QED
  BY <1>1, <1>2, <1>3

LEMMA ServerKeeps ==
  ASSUME MatInv, ServerCrash \/ ServerRestart
  PROVE  MatInv'
<1> USE DEF MatInv
<1>0. job \in [Jobs -> JobRows] /\ pending \subseteq Tasks /\ crashes \in 0..MaxCrashes
  BY DEF MatTypeOK
<1>1. CASE ServerCrash
  <2>1. /\ up' = FALSE /\ crashes' \in 0..MaxCrashes /\ chain' = Quiet /\ pending' = {}
        /\ UNCHANGED <<mat, loaded, job, ledger, keyed, acts, history>>
    BY <1>0, <1>1, MaterialsAssumption DEF ServerCrash
  <2>2. SameNotes(job', job)
    BY <1>0, <2>1 DEF SameNotes
  <2> QED
    BY <1>0, <2>1, <2>2, MovesKeep
<1>2. CASE ServerRestart
  <2> DEFINE freed(j) == [job[j] EXCEPT !.status = "claimable", !.marker = "none"]
  <2>1. /\ up' = TRUE
        /\ job' = [j \in Jobs |-> IF job[j].status = "claimed" /\ job[j].marker = "central"
                                  THEN freed(j) ELSE job[j]]
        /\ UNCHANGED <<mat, loaded, ledger, pending, chain, keyed, crashes, acts, history>>
    BY <1>2 DEF ServerRestart
  <2>2. \A j \in Jobs : freed(j) \in JobRows /\ freed(j).used = job[j].used
    <3> TAKE j \in Jobs
    <3>1. job[j] \in JobRows
      BY <1>0
    <3> QED
      BY <3>1 DEF JobRows
  <2> HIDE DEF freed
  <2>3. SameNotes(job', job)
    BY <1>0, <2>1, <2>2 DEF SameNotes
  <2> QED
    BY <1>0, <2>1, <2>3, MovesKeep
<1> QED
  BY <1>1, <1>2

LEMMA StartCourierKeeps ==
  ASSUME MatInv, NEW j \in Jobs, StartCourier(j)
  PROVE  MatInv'
<1> USE DEF MatInv
<1>1. pending' \subseteq Tasks
      /\ UNCHANGED <<mat, loaded, job, ledger, chain, keyed, process, acts, history>>
  BY DEF StartCourier, MatTypeOK, Tasks
<1>2. MatTypeOK' /\ ChainOK'
  BY <1>1 DEF MatTypeOK, ChainOK, process, history
<1> QED
  BY <1>1, <1>2, LedgerStands DEF history

\* The spools are read: nothing was booked by them before, or they were read already.
LEMMA ReadEstimateKeeps ==
  ASSUME MatInv, NEW t \in pending, ReadEstimate(t)
  PROVE  MatInv'
<1> USE DEF MatInv
<1> DEFINE j == t.job
           entry == [job[j] EXCEPT !.used = Loadout(j)]
           c == [at |-> "estimate", job |-> j, by |-> t.by, todo |-> Held(Loadout(j))]
<1>1. /\ reads[j] < MaxReads /\ pending' = pending \ {t}
      /\ job' = [job EXCEPT ![j] = entry]
      /\ reads' = [reads EXCEPT ![j] = reads[j] + 1]
      /\ chain' = c
      /\ UNCHANGED <<mat, loaded, ledger, keyed, process, acts, measured>>
  BY DEF ReadEstimate
<1>2. t \in Tasks /\ j \in Jobs /\ t.by \in {"central", "courier"} /\ pending' \subseteq Tasks
      /\ job \in [Jobs -> JobRows] /\ job[j] \in JobRows
      /\ reads \in [Jobs -> 0..MaxReads] /\ MaxReads \in Nat
  BY <1>1, MaterialsAssumption DEF MatTypeOK, Tasks
<1>3. Loadout(j) \in [Slots -> Mats \cup {NoMat}]
  BY DEF Loadout, MatTypeOK, PrinterLoadouts
<1>4. entry \in JobRows /\ entry.used = Loadout(j)
  BY <1>2, <1>3 DEF JobRows
<1>5. c \in ChainStates /\ c.at = "estimate" /\ c.job = j /\ c.todo = Held(Loadout(j))
  BY <1>2 DEF ChainStates, Held
<1> HIDE DEF entry, c
<1>6. job' \in [Jobs -> JobRows] /\ job'[j].used = Loadout(j)
      /\ \A k \in Jobs \ {j} : job'[k] = job[k]
  BY <1>1, <1>2, <1>4
<1>7. reads' \in [Jobs -> 0..MaxReads] /\ reads'[j] = reads[j] + 1 /\ reads[j] \in Nat
      /\ \A k \in Jobs \ {j} : reads'[k] = reads[k]
  BY <1>1, <1>2
<1>8. MatTypeOK'
  BY <1>1, <1>2, <1>5, <1>6, <1>7 DEF MatTypeOK, ChainStates, process
<1>9. ChainOK'
  BY <1>1, <1>2, <1>5, <1>6 DEF ChainOK
<1>10. LedgerOK' /\ ConsumedOnce'
  BY <1>1 DEF LedgerOK, ConsumedOnce
<1>11. SpoolsOK'
  BY <1>1, <1>6, <1>7 DEF SpoolsOK
<1>12. PaidByItsSpool'
  <2>1. \A q \in ledger : q.kind \in Stages => q.job \in Jobs
    BY DEF LedgerOK
  <2>2. \A q \in ledger : (q.kind = "estimated" /\ reads'[q.job] = 1) => q.job # j
    BY <1>2, <1>7 DEF SpoolsOK, Stages
  <2> QED
    BY <1>1, <1>7, <2>1, <2>2 DEF PaidByItsSpool, Stages
<1> QED
  BY <1>8, <1>9, <1>10, <1>11, <1>12

LEMMA NoEstimateKeeps ==
  ASSUME MatInv, NEW t \in pending, NoEstimate(t)
  PROVE  MatInv'
<1> USE DEF MatInv
<1> DEFINE c == [at |-> "estimate", job |-> t.job, by |-> t.by, todo |-> {}]
<1>1. pending' = pending \ {t} /\ chain' = c
      /\ UNCHANGED <<mat, loaded, job, ledger, keyed, process, acts, history>>
  BY DEF NoEstimate
<1>2. t \in Tasks
  BY DEF MatTypeOK
<1>3. c \in ChainStates /\ c.at = "estimate" /\ c.job \in Jobs /\ c.todo = {}
  BY <1>2 DEF ChainStates, Tasks
<1> HIDE DEF c
<1>4. MatTypeOK' /\ ChainOK'
  BY <1>1, <1>3 DEF MatTypeOK, ChainOK, ChainStates, process, history
<1> QED
  BY <1>1, <1>4, LedgerStands DEF history

\* One slot is booked, unless it was before.
LEMMA EmitKeeps ==
  ASSUME MatInv, NEW s \in Slots, EmitEstimate(s) \/ EmitMeasured(s)
  PROVE  MatInv'
<1> USE DEF MatInv
<1> DEFINE j == chain.job
           m == job[j].used[s]
           todo == chain.todo \ {s}
           c == [chain EXCEPT !.todo = todo]
<1>1. PICK k \in Stages, g \in Nat :
        /\ chain.at \in {"estimate", "measure"} /\ s \in chain.todo
        /\ \/ Booked(k, j, s) /\ UNCHANGED <<mat, ledger>>
           \/ ~Booked(k, j, s) /\ Consume(k, j, s, m, g)
        /\ chain' = c
        /\ UNCHANGED <<loaded, job, pending, keyed, process, acts, history>>
  <2>1. chain.at \in {"estimate", "measure"} => j \in Jobs
    BY DEF ChainOK
  <2>2. CASE EmitEstimate(s)
    <3>1. "estimated" \in Stages /\ Estimate[j][s] \in Nat
      BY <2>1, <2>2, MaterialsAssumption DEF Stages, EmitEstimate
    <3> QED
      BY <2>2, <3>1 DEF EmitEstimate
  <2>3. CASE EmitMeasured(s)
    <3>1. "measured" \in Stages
      BY DEF Stages
    <3>2. measured[j].grams[s] \in Nat
      BY <2>1, <2>3 DEF EmitMeasured, MatTypeOK
    <3> QED
      BY <2>3, <3>1, <3>2 DEF EmitMeasured
  <2> QED
    BY <2>2, <2>3
<1>2. /\ j \in Jobs /\ s \in Held(job[j].used) /\ chain.todo \subseteq Held(job[j].used)
      /\ chain \in ChainStates
  BY <1>1 DEF ChainOK, MatTypeOK, ChainStates
<1>3. m \in Mats /\ m # NoMat
  <2>1. job[j].used \in [Slots -> Mats \cup {NoMat}]
    BY <1>2 DEF MatTypeOK, JobRows
  <2> QED
    BY <1>2, <2>1 DEF Held
<1>4. c \in ChainStates /\ c.at = chain.at /\ c.job = j /\ c.todo = todo
  BY <1>2 DEF ChainStates
<1> HIDE DEF c
<1>5. ChainOK'
  BY <1>1, <1>2, <1>4 DEF ChainOK
<1>6. mat' \in [Mats -> MatRows] /\ LedgerOK' /\ SpoolsOK' /\ ConsumedOnce' /\ PaidByItsSpool'
      /\ ledger' \subseteq Rows
  <2>1. CASE UNCHANGED <<mat, ledger>>
    BY <1>1, <2>1 DEF LedgerOK, SpoolsOK, ConsumedOnce, PaidByItsSpool, MatTypeOK, history
  <2>2. CASE ~Booked(k, j, s) /\ Consume(k, j, s, m, g)
    <3>1. k \in Kinds
      BY DEF Kinds, Stages
    <3>2. /\ mat' \in [Mats -> MatRows]
          /\ \E e \in Rows : /\ e.kind = k /\ e.job = j /\ e.slot = s /\ e.mat = m
                             /\ ledger' = ledger \cup {e}
      BY <1>2, <1>3, <2>2, <3>1, ConsumeEffect
    <3> HIDE DEF j, m
    <3>3. PICK e \in Rows : /\ e.kind = k /\ e.job = j /\ e.slot = s /\ e.mat = m
                            /\ ledger' = ledger \cup {e}
      BY <3>2
    <3>4. m = job[j].used[s]
      BY DEF m
    <3> QED
      BY <1>1, <1>2, <1>3, <2>2, <3>2, <3>3, <3>4, BookingKeeps DEF history
  <2> QED
    BY <1>1, <2>1, <2>2
<1>7. MatTypeOK'
  BY <1>1, <1>4, <1>6 DEF MatTypeOK, ChainStates, process, history
<1> QED
  BY <1>5, <1>6, <1>7

\* The chain ends.
LEMMA MeasureDoneKeeps ==
  ASSUME MatInv, MeasureDone
  PROVE  MatInv'
<1>1. chain' = Quiet /\ UNCHANGED <<mat, loaded, job, ledger, pending, keyed, process, acts, history>>
  BY DEF MeasureDone
<1>2. SameNotes(job', job) /\ pending' \subseteq Tasks /\ up' \in BOOLEAN
      /\ crashes' \in 0..MaxCrashes
  BY <1>1 DEF MatInv, MatTypeOK, SameNotes, process
<1> QED
  BY <1>1, <1>2, MovesKeep

\* A job ends: its note stays, or a measuring Courier wipes it; the chain books the
\* slots of the note that is left.
LEMMA CompletionKeeps ==
  ASSUME MatInv, NEW j \in Jobs, NEW entry \in JobRows, NEW grams \in [Slots -> Nat],
         NEW by \in {"feed", "courier"},
         entry.used = job[j].used \/ entry.used = NoUse,
         job' = [job EXCEPT ![j] = entry],
         \/ UNCHANGED <<measured, chain>> /\ chain = Quiet
         \/ /\ measured' = [measured EXCEPT ![j] = [by |-> by, grams |-> grams]]
            /\ chain' = [at |-> "measure", job |-> j, by |-> by,
                         todo |-> {s \in Held(entry.used) : grams[s] > 0}],
         UNCHANGED <<mat, loaded, ledger, pending, keyed, process, acts, reads>>
  PROVE  MatInv'
<1> USE DEF MatInv
<1> DEFINE c == [at |-> "measure", job |-> j, by |-> by,
                 todo |-> {s \in Held(entry.used) : grams[s] > 0}]
           end == [by |-> by, grams |-> grams]
<1>1. job' \in [Jobs -> JobRows] /\ job'[j] = entry /\ \A k \in Jobs \ {j} : job'[k] = job[k]
  BY DEF MatTypeOK
<1>2. chain' = Quiet \/ chain' = c
  OBVIOUS
<1>3. c \in ChainStates /\ c.at = "measure" /\ c.job = j /\ c.todo \subseteq Held(entry.used)
  BY DEF ChainStates, Held
<1>4. measured' \in [Jobs -> [by : {"none", "feed", "courier"}, grams : [Slots -> Nat]]]
  <2>1. end \in [by : {"none", "feed", "courier"}, grams : [Slots -> Nat]]
    OBVIOUS
  <2>2. measured' = measured \/ measured' = [measured EXCEPT ![j] = end]
    OBVIOUS
  <2> HIDE DEF end
  <2> QED
    BY <2>1, <2>2 DEF MatTypeOK
<1> HIDE DEF c
<1>5. MatTypeOK'
  BY <1>1, <1>2, <1>3, <1>4, QuietFacts DEF MatTypeOK, ChainStates, process
<1>6. ChainOK'
  BY <1>1, <1>2, <1>3, QuietFacts DEF ChainOK
<1>7. LedgerOK' /\ ConsumedOnce' /\ PaidByItsSpool'
  BY DEF LedgerOK, ConsumedOnce, PaidByItsSpool
<1>8. SpoolsOK'
  <2>1. \A s \in Slots : NoUse[s] = NoMat
    BY DEF NoUse
  <2>2. \A r \in ledger : r.kind \in Stages => r.slot \in Slots
    BY DEF LedgerOK
  <2>3. \A k \in Jobs : job'[k].used = job[k].used \/ job'[k].used = NoUse
    BY <1>1
  <2> QED
    BY <2>1, <2>2, <2>3 DEF SpoolsOK
<1> QED
  BY <1>5, <1>6, <1>7, <1>8

LEMMA CompletesKeep ==
  ASSUME MatInv, NEW j \in Jobs, NEW grams \in Measures,
         FeedCompletes(j, grams) \/ CourierCompletes(j, grams)
  PROVE  MatInv'
<1> USE DEF MatInv
<1>1. grams \in [Slots -> Nat] /\ job \in [Jobs -> JobRows] /\ job[j] \in JobRows
  BY MaterialsAssumption DEF MatTypeOK
<1>2. CASE FeedCompletes(j, grams)
  <2> DEFINE entry == [job[j] EXCEPT !.status = "completed"]
  <2>1. entry \in JobRows /\ entry.used = job[j].used
    BY <1>1 DEF JobRows
  <2>2. /\ job' = [job EXCEPT ![j] = entry]
        /\ measured' = [measured EXCEPT ![j] = [by |-> "feed", grams |-> grams]]
        /\ chain' = [at |-> "measure", job |-> j, by |-> "feed",
                     todo |-> {s \in Held(entry.used) : grams[s] > 0}]
        /\ UNCHANGED <<mat, loaded, ledger, pending, keyed, process, acts, reads>>
    BY <1>2, <2>1 DEF FeedCompletes
  <2> HIDE DEF entry
  <2>3. "feed" \in {"feed", "courier"}
    OBVIOUS
  <2> QED
    BY <1>1, <2>1, <2>2, <2>3, CompletionKeeps
<1>3. CASE CourierCompletes(j, grams)
  <2> DEFINE measures == \E s \in Slots : grams[s] > 0
             used == IF measures THEN NoUse ELSE job[j].used
             won == job[j].status = "dispatched"
             entry == [job[j] EXCEPT !.used = used, !.status = IF won THEN "completed" ELSE job[j].status]
  <2>1. used = job[j].used \/ used = NoUse
    OBVIOUS
  <2>2. NoUse \in [Slots -> Mats \cup {NoMat}]
    BY DEF NoUse
  <2>3. entry \in JobRows /\ entry.used = used
    BY <1>1, <2>1, <2>2 DEF JobRows
  <2>4. /\ chain = Quiet
        /\ job' = [job EXCEPT ![j].used = used,
                              ![j].status = IF won THEN "completed" ELSE @]
        /\ measured' = IF won THEN [measured EXCEPT ![j] = [by |-> "courier", grams |-> grams]]
                       ELSE measured
        /\ chain' = IF won THEN [at |-> "measure", job |-> j, by |-> "courier",
                                 todo |-> {s \in Held(used) : grams[s] > 0}]
                    ELSE chain
        /\ UNCHANGED <<mat, loaded, ledger, pending, keyed, process, acts, reads>>
    BY <1>3 DEF CourierCompletes, Free
  <2>5. job' = [job EXCEPT ![j] = entry]
    BY <1>1, <2>4
  <2> HIDE DEF entry, used, won
  <2>6. "courier" \in {"feed", "courier"}
    OBVIOUS
  <2>7. \/ UNCHANGED <<measured, chain>> /\ chain = Quiet
        \/ /\ measured' = [measured EXCEPT ![j] = [by |-> "courier", grams |-> grams]]
           /\ chain' = [at |-> "measure", job |-> j, by |-> "courier",
                        todo |-> {s \in Held(entry.used) : grams[s] > 0}]
    BY <2>3, <2>4
  <2> QED
    BY <1>1, <2>1, <2>3, <2>4, <2>5, <2>6, <2>7, CompletionKeeps
<1> QED
  BY <1>2, <1>3

LEMMA MatStepKeeps ==
  ASSUME MatInv, [MatNext]_matVars
  PROVE  MatInv'
<1>1. CASE MatNext
  <2>1. CASE \E m \in Mats : \/ CreateMaterial(m) \/ UnloadFromPrinter(m)
                             \/ RetireMaterial(m) \/ ConsumeManually(m)
                             \/ \E s \in Slots : LoadInPrinter(m, s)
    BY <2>1, ShelfKeeps, ManualKeeps
  <2>2. CASE \E k \in Keys, product \in Mats, sources \in SUBSET Mats :
               /\ product \notin sources
               /\ MixBatch(k, sources, product) \/ RecycleEvent(k, sources, product)
    BY <2>2, MixKeeps
  <2>3. CASE Stamp
    BY <2>3, StampKeeps
  <2>4. CASE \E j \in Jobs : \/ StartCentral(j) \/ StartCourier(j)
                             \/ CourierDispatched(j) \/ Fails(j)
                             \/ \E grams \in Measures :
                                  FeedCompletes(j, grams) \/ CourierCompletes(j, grams)
    BY <2>4, ClaimStepsKeep, StartCourierKeeps, CompletesKeep
  <2>5. CASE \E t \in pending : ReadEstimate(t) \/ NoEstimate(t)
    BY <2>5, ReadEstimateKeeps, NoEstimateKeeps
  <2>6. CASE \E s \in Slots : EmitEstimate(s) \/ EmitMeasured(s)
    BY <2>6, EmitKeeps
  <2>7. CASE EstimateDone
    <3>1. chain.job \in Jobs
      BY <2>7 DEF EstimateDone, MatInv, ChainOK
    <3> QED
      BY <2>7, <3>1, ClaimStepsKeep
  <2>8. CASE MeasureDone \/ ServerCrash \/ ServerRestart
    BY <2>8, MeasureDoneKeeps, ServerKeeps
  <2> QED
    BY <1>1, <2>1, <2>2, <2>3, <2>4, <2>5, <2>6, <2>7, <2>8 DEF MatNext
<1>2. CASE UNCHANGED matVars
  BY <1>2 DEF matVars, process, history, MatInv, MatTypeOK, LedgerOK, ChainOK, SpoolsOK,
              ConsumedOnce, PaidByItsSpool
<1> QED
  BY <1>1, <1>2

-----------------------------------------------------------------------------
(* Materials: theorems *)

\* MatInv is inductive: any number of spools, slots, jobs, mixes and crashes.
THEOREM MatInvariant == MatSpec => []MatInv
<1>1. MatInv /\ [MatNext]_matVars => MatInv'
  BY MatStepKeeps
<1> QED
  BY MatInitInv, <1>1, PTL DEF MatSpec

\* Spools, slots, jobs and ledger keep their types; a job's note names known spools.
THEOREM MatTypeCorrect == MatSpec => []MatTypeOK
<1>1. MatInv => MatTypeOK
  BY DEF MatInv
<1> QED
  BY <1>1, MatInvariant, PTL

\* However often a job is claimed, reported and recovered, a slot is booked once at
\* each stage.
THEOREM PrintsAreBookedOnce == MatSpec => []ConsumedOnce
<1>1. MatInv => ConsumedOnce
  BY DEF MatInv
<1> QED
  BY <1>1, MatInvariant, PTL

\* Estimate and measurement of a job that was read once name the same spool, whatever
\* was swapped, retired or wiped between them.
THEOREM TheLoadedSpoolPays == MatSpec => []PaidByItsSpool
<1>1. MatInv => PaidByItsSpool
  BY DEF MatInv
<1> QED
  BY <1>1, MatInvariant, PTL

-----------------------------------------------------------------------------
(* Materials: sums of grams.  The library folds them with a CHOOSE of a function; *)
(* each lemma is by the least number of rows for which it would fail.             *)

LEMMA LeastOf ==
  ASSUME NEW N \in SUBSET Nat, N # {}
  PROVE  \E n \in N : \A m \in N : n <= m
<1> DEFINE R == OpToRel(<, Nat)
<1>1. IsWellFoundedOn(R, Nat)
  BY NatLessThanWellFounded
<1>2. \A k, n \in Nat : k < n => <<k, n>> \in R
  BY DEF OpToRel
<1> HIDE DEF R
<1>3. PICK n \in N : \A k \in N : ~ (<<k, n>> \in R)
  BY <1>1, WFMin
<1>4. \A k \in N : ~ (k < n)
  BY <1>2, <1>3
<1> QED
  BY <1>4

\* What rows of the ledger book together.
Grams(rows) == MapThenSumSet(LAMBDA r : r.grams, rows)

\* The folding of all sets of rows, each from what is left without one of it.
OneOf(rows) == CHOOSE r \in rows : TRUE
IsFold(f, S) == f = [s \in SUBSET S |-> IF s = {} THEN 0
                                         ELSE OneOf(s).grams + f[s \ {OneOf(s)}]]

LEMMA GramsIsFold ==
  ASSUME NEW S
  PROVE  Grams(S) = (CHOOSE f : IsFold(f, S))[S]
BY Zenon DEF Grams, MapThenSumSet, MapThenFoldSet, IsFold, OneOf

LEMMA OneIsOf ==
  ASSUME NEW s, s # {}
  PROVE  OneOf(s) \in s
BY DEF OneOf

LEMMA WithoutOne ==
  ASSUME NEW s, IsFiniteSet(s), NEW r \in s
  PROVE  /\ IsFiniteSet(s \ {r}) /\ Cardinality(s \ {r}) = Cardinality(s) - 1
         /\ Cardinality(s) \in Nat
BY FS_RemoveElement, FS_CardinalityType

LEMMA FoldStep ==
  ASSUME NEW f, NEW S, IsFold(f, S), NEW s \in SUBSET S
  PROVE  f[s] = IF s = {} THEN 0 ELSE OneOf(s).grams + f[s \ {OneOf(s)}]
BY Zenon DEF IsFold

\* There is a folding: of the sets of at most n rows there is one, whatever n.
LEMMA FoldExists ==
  ASSUME NEW S, IsFiniteSet(S)
  PROVE  \E f : IsFold(f, S)
<1> DEFINE Next(f) == [s \in SUBSET S |-> IF s = {} THEN 0
                                           ELSE OneOf(s).grams + f[s \ {OneOf(s)}]]
           Good(f, n) == \A s \in SUBSET S : Cardinality(s) <= n => f[s] = Next(f)[s]
           Bad == {n \in Nat : ~ \E f : f = [s \in SUBSET S |-> f[s]] /\ Good(f, n)}
<1>1. \A s \in SUBSET S : IsFiniteSet(s) /\ Cardinality(s) \in Nat
  <2> TAKE s \in SUBSET S
  <2>1. IsFiniteSet(s)
    BY FS_Subset
  <2> QED
    BY <2>1, FS_CardinalityType
<1>2. ASSUME NEW n \in Nat, NEW f, Good(f, n) PROVE Good(Next(f), n + 1)
  <2> SUFFICES ASSUME NEW s \in SUBSET S, Cardinality(s) <= n + 1
               PROVE  Next(f)[s] = Next(Next(f))[s]
    OBVIOUS
  <2>1. CASE s = {}
    BY <2>1
  <2>2. CASE s # {}
    <3>1. OneOf(s) \in s /\ s \ {OneOf(s)} \in SUBSET S
      BY <2>2, OneIsOf
    <3>2. Cardinality(s \ {OneOf(s)}) <= n
      <4>1. Cardinality(s \ {OneOf(s)}) = Cardinality(s) - 1 /\ Cardinality(s) \in Nat
        BY <3>1, <1>1, WithoutOne
      <4> QED
        BY <4>1
    <3>3. f[s \ {OneOf(s)}] = Next(f)[s \ {OneOf(s)}]
      BY <3>1, <3>2, <1>2
    <3> QED
      BY <2>2, <3>3, Zenon
  <2> QED
    BY <2>1, <2>2
<1>3. \E f : f = [s \in SUBSET S |-> f[s]] /\ Good(f, 0)
  <2>1. PICK f : f = [s \in SUBSET S |-> 0]
    OBVIOUS
  <2>2. f = [s \in SUBSET S |-> f[s]]
    BY <2>1
  <2>3. ASSUME NEW s \in SUBSET S, Cardinality(s) <= 0 PROVE f[s] = Next(f)[s]
    <3>1. s = {}
      BY <2>3, <1>1, FS_EmptySet
    <3> QED
      BY <3>1, <2>1
  <2> QED
    BY <2>2, <2>3
<1> HIDE DEF Good
<1>4. Bad = {}
  <2> SUFFICES ASSUME Bad # {} PROVE FALSE
    OBVIOUS
  <2>1. PICK n \in Bad : \A m \in Bad : n <= m
    <3>1. Bad \in SUBSET Nat
      OBVIOUS
    <3> HIDE DEF Bad
    <3> QED
      BY <3>1, LeastOf
  <2>2. n # 0
    BY <1>3
  <2>3. n - 1 \in Nat /\ ~ (n <= n - 1) /\ (n - 1) + 1 = n
    BY <2>2
  <2>4. PICK m \in Nat : m = n - 1
    BY <2>3
  <2>5. m \notin Bad
    BY <2>1, <2>3, <2>4
  <2>6. PICK f : Good(f, m)
    BY <2>5
  <2>7. Good(Next(f), m + 1)
    BY <1>2, <2>6
  <2>8. Next(f) = [s \in SUBSET S |-> Next(f)[s]]
    OBVIOUS
  <2>9. m + 1 \notin Bad
    BY <2>7, <2>8
  <2>10. m + 1 = n /\ n \in Bad
    BY <2>1, <2>3, <2>4
  <2> HIDE DEF Bad
  <2> QED
    BY <2>9, <2>10
<1>5. PICK f : f = [s \in SUBSET S |-> f[s]] /\ Good(f, Cardinality(S))
  <2>1. Cardinality(S) \in Nat
    BY FS_CardinalityType
  <2> QED
    BY <2>1, <1>4
<1>6. \A s \in SUBSET S : Cardinality(s) <= Cardinality(S)
  BY FS_Subset
<1>7. \A s \in SUBSET S : f[s] = Next(f)[s]
  BY <1>5, <1>6 DEF Good
<1>8. f = Next(f)
  BY <1>5, <1>7
<1> QED
  BY <1>8 DEF IsFold

\* Foldings agree where both are defined.
LEMMA FoldsAgree ==
  ASSUME NEW S, NEW T \in SUBSET S, IsFiniteSet(T), NEW f, NEW g, IsFold(f, S), IsFold(g, T)
  PROVE  \A s \in SUBSET T : f[s] = g[s]
<1> DEFINE Bad == {n \in Nat : \E s \in SUBSET T : Cardinality(s) = n /\ f[s] # g[s]}
<1>1. \A s \in SUBSET T : IsFiniteSet(s) /\ Cardinality(s) \in Nat
  <2> TAKE s \in SUBSET T
  <2>1. IsFiniteSet(s)
    BY FS_Subset
  <2> QED
    BY <2>1, FS_CardinalityType
<1>2. Bad = {}
  <2> SUFFICES ASSUME Bad # {} PROVE FALSE
    OBVIOUS
  <2>1. PICK n \in Bad : \A m \in Bad : n <= m
    <3>1. Bad \in SUBSET Nat
      OBVIOUS
    <3> HIDE DEF Bad
    <3> QED
      BY <3>1, LeastOf
  <2>2. PICK s \in SUBSET T : Cardinality(s) = n /\ f[s] # g[s]
    OBVIOUS
  <2>3. s \in SUBSET S
    OBVIOUS
  <2>4. /\ f[s] = IF s = {} THEN 0 ELSE OneOf(s).grams + f[s \ {OneOf(s)}]
        /\ g[s] = IF s = {} THEN 0 ELSE OneOf(s).grams + g[s \ {OneOf(s)}]
    BY <2>3, FoldStep
  <2>5. s # {} /\ f[s \ {OneOf(s)}] # g[s \ {OneOf(s)}]
    BY <2>2, <2>4
  <2>6. OneOf(s) \in s /\ s \ {OneOf(s)} \in SUBSET T
    BY <2>5, OneIsOf
  <2>7. PICK m \in Nat : m = Cardinality(s \ {OneOf(s)})
    BY <2>6, <1>1
  <2>8. m = n - 1 /\ n \in Nat
    BY <2>2, <2>6, <2>7, <1>1, WithoutOne
  <2>9. m \in Bad
    BY <2>5, <2>6, <2>7
  <2> QED
    BY <2>1, <2>8, <2>9
<1> QED
  BY <1>1, <1>2

LEMMA GramsStep ==
  ASSUME NEW S, IsFiniteSet(S)
  PROVE  Grams(S) = IF S = {} THEN 0 ELSE OneOf(S).grams + Grams(S \ {OneOf(S)})
<1>1. PICK f : f = (CHOOSE h : IsFold(h, S))
  OBVIOUS
<1>2. IsFold(f, S) /\ Grams(S) = f[S]
  BY <1>1, FoldExists, GramsIsFold
<1>3. f[S] = IF S = {} THEN 0 ELSE OneOf(S).grams + f[S \ {OneOf(S)}]
  BY <1>2, FoldStep
<1>4. ASSUME NEW T \in SUBSET S PROVE Grams(T) = f[T]
  <2>1. IsFiniteSet(T)
    BY FS_Subset
  <2>2. PICK g : g = (CHOOSE h : IsFold(h, T))
    OBVIOUS
  <2>3. IsFold(g, T) /\ Grams(T) = g[T]
    BY <2>1, <2>2, FoldExists, GramsIsFold
  <2> QED
    BY <2>1, <2>3, <1>2, FoldsAgree
<1> QED
  BY <1>2, <1>3, <1>4

\* The sum of a finite number of rows is a number ...
LEMMA GramsNat ==
  ASSUME NEW S, IsFiniteSet(S), \A r \in S : r.grams \in Nat
  PROVE  Grams(S) \in Nat
<1> DEFINE Bad == {n \in Nat : \E s \in SUBSET S : Cardinality(s) = n /\ Grams(s) \notin Nat}
<1>1. \A s \in SUBSET S : IsFiniteSet(s) /\ Cardinality(s) \in Nat
  <2> TAKE s \in SUBSET S
  <2>1. IsFiniteSet(s)
    BY FS_Subset
  <2> QED
    BY <2>1, FS_CardinalityType
<1>2. Bad = {}
  <2> SUFFICES ASSUME Bad # {} PROVE FALSE
    OBVIOUS
  <2>1. PICK n \in Bad : \A m \in Bad : n <= m
    <3>1. Bad \in SUBSET Nat
      OBVIOUS
    <3> HIDE DEF Bad
    <3> QED
      BY <3>1, LeastOf
  <2>2. PICK s \in SUBSET S : Cardinality(s) = n /\ Grams(s) \notin Nat
    OBVIOUS
  <2>3. Grams(s) = IF s = {} THEN 0 ELSE OneOf(s).grams + Grams(s \ {OneOf(s)})
    BY <1>1, GramsStep
  <2>4. s # {} /\ OneOf(s) \in s
    BY <2>2, <2>3, OneIsOf
  <2>5. Grams(s \ {OneOf(s)}) \notin Nat
    BY <2>2, <2>3, <2>4
  <2>6. PICK t \in SUBSET S : t = s \ {OneOf(s)}
    OBVIOUS
  <2>7. PICK m \in Nat : m = Cardinality(t)
    BY <1>1
  <2>8. m = n - 1 /\ n \in Nat
    BY <2>2, <2>4, <2>6, <2>7, <1>1, WithoutOne
  <2>9. m \in Bad
    BY <2>5, <2>6, <2>7
  <2> QED
    BY <2>1, <2>8, <2>9
<1> QED
  BY <1>1, <1>2

\* ... and whichever of them is taken away takes its grams.
LEMMA GramsWithout ==
  ASSUME NEW S, IsFiniteSet(S), \A r \in S : r.grams \in Nat
  PROVE  \A r \in S : Grams(S) = r.grams + Grams(S \ {r})
<1> DEFINE Fits(s) == \A r \in s : Grams(s) = r.grams + Grams(s \ {r})
           Bad == {n \in Nat : \E s \in SUBSET S : Cardinality(s) = n /\ ~Fits(s)}
<1>1. \A s \in SUBSET S : IsFiniteSet(s) /\ Cardinality(s) \in Nat /\ Grams(s) \in Nat
  <2> TAKE s \in SUBSET S
  <2>1. IsFiniteSet(s)
    BY FS_Subset
  <2>2. Cardinality(s) \in Nat
    BY <2>1, FS_CardinalityType
  <2>3. Grams(s) \in Nat
    BY <2>1, GramsNat
  <2> QED
    BY <2>1, <2>2, <2>3
<1>2. Bad = {}
  <2> SUFFICES ASSUME Bad # {} PROVE FALSE
    OBVIOUS
  <2>1. PICK n \in Bad : \A m \in Bad : n <= m
    <3>1. Bad \in SUBSET Nat
      OBVIOUS
    <3> HIDE DEF Bad
    <3> QED
      BY <3>1, LeastOf
  <2>2. PICK s \in SUBSET S : Cardinality(s) = n /\ ~Fits(s)
    OBVIOUS
  <2>3. \A t \in SUBSET S : Cardinality(t) = n - 1 => Fits(t)
    <3> SUFFICES ASSUME NEW t \in SUBSET S, Cardinality(t) = n - 1, ~Fits(t) PROVE FALSE
      OBVIOUS
    <3>1. PICK m \in Nat : m = Cardinality(t)
      BY <1>1
    <3>2. m \in Bad /\ m = n - 1 /\ n \in Nat
      BY <3>1
    <3> HIDE DEF Bad
    <3> QED
      BY <2>1, <3>2
  <2>4. PICK r \in s : Grams(s) # r.grams + Grams(s \ {r})
    BY <2>2
  <2>5. PICK c \in s : c = OneOf(s) /\ Grams(s) = c.grams + Grams(s \ {c})
    <3>1. OneOf(s) \in s
      BY <2>4, OneIsOf
    <3> QED
      BY <3>1, <1>1, GramsStep
  <2>6. r # c
    BY <2>4, <2>5
  <2>7. Cardinality(s \ {c}) = n - 1 /\ Cardinality(s \ {r}) = n - 1
    BY <1>1, <2>2, WithoutOne
  <2>8. Grams(s \ {c}) = r.grams + Grams((s \ {c}) \ {r})
    <3>1. s \ {c} \in SUBSET S /\ r \in s \ {c}
      BY <2>6
    <3>2. Fits(s \ {c})
      BY <3>1, <2>3, <2>7
    <3> QED
      BY <3>1, <3>2
  <2>9. Grams(s \ {r}) = c.grams + Grams((s \ {r}) \ {c})
    <3>1. s \ {r} \in SUBSET S /\ c \in s \ {r}
      BY <2>6
    <3>2. Fits(s \ {r})
      BY <3>1, <2>3, <2>7
    <3> QED
      BY <3>1, <3>2
  <2>10. (s \ {c}) \ {r} = (s \ {r}) \ {c}
    OBVIOUS
  <2>11. PICK rest \in Nat : rest = Grams((s \ {r}) \ {c})
    <3>1. (s \ {r}) \ {c} \in SUBSET S
      OBVIOUS
    <3> QED
      BY <3>1, <1>1
  <2>12. r.grams \in Nat /\ c.grams \in Nat
    OBVIOUS
  <2>13. Grams(s) = c.grams + (r.grams + rest) /\ Grams(s \ {r}) = c.grams + rest
    BY <2>5, <2>8, <2>9, <2>10, <2>11
  <2> QED
    BY <2>4, <2>12, <2>13
<1>3. Fits(S)
  BY <1>1, <1>2
<1> QED
  BY <1>3

\* A row that is added adds its grams.
LEMMA GramsAdd ==
  ASSUME NEW S, IsFiniteSet(S), NEW r, r \notin S, r.grams \in Nat,
         \A q \in S : q.grams \in Nat
  PROVE  Grams(S \cup {r}) = Grams(S) + r.grams /\ Grams(S) \in Nat
<1>1. IsFiniteSet(S \cup {r}) /\ (S \cup {r}) \ {r} = S
  BY FS_AddElement
<1>2. PICK T : T = S \cup {r}
  OBVIOUS
<1>3. \A q \in T : q.grams \in Nat
  BY <1>2
<1>4. Grams(T) = r.grams + Grams(T \ {r})
  BY <1>1, <1>2, <1>3, GramsWithout
<1>5. PICK g \in Nat : g = Grams(S)
  BY GramsNat
<1>6. Grams(T) = r.grams + g
  BY <1>1, <1>2, <1>4, <1>5
<1>7. Grams(T) = g + r.grams
  BY <1>5, <1>6
<1> QED
  BY <1>2, <1>5, <1>7

LEMMA NoGrams == Grams({}) = 0
BY FS_EmptySet, GramsStep

-----------------------------------------------------------------------------
(* Materials: every action keeps the books *)

\* Among rows that say the same, none has a number beyond how many they are: a row
\* with the next number is a new one.
Unnumbered(r) == [r EXCEPT !.n = 0]
Numbered == \A r \in ledger : r.n <= Cardinality(Same(Unnumbered(r)))

\* Whatever is booked, loaded or noted has a row.
There(m) == mat[m].life # "absent"
SpoolsThere ==
  /\ \A r \in ledger : There(r.mat)
  /\ \A s \in Slots : loaded[s] # NoMat => There(loaded[s])
  /\ \A j \in Jobs, s \in Slots : job[j].used[s] # NoMat => There(job[j].used[s])

\* LeftIsBooked, in the words of the lemmas on Grams.
RowsFor(m) == {r \in ledger : r.mat = m}
LeftByGrams == \A m \in Mats : mat[m].left = mat[m].init - Grams(RowsFor(m))

BookInv == Numbered /\ SpoolsThere /\ LeftByGrams

LEMMA LeftIs == LeftByGrams <=> LeftIsBooked
BY Zenon DEF LeftIsBooked, LeftByGrams, Grams, RowsFor

\* New rows: each has the next number, and no two book one spool.
AllNew(E) ==
  /\ IsFiniteSet(E) /\ E \subseteq Rows
  /\ \A e \in E : e.n = Cardinality(Same(Unnumbered(e))) + 1
  /\ \A e, f \in E : e.mat = f.mat => e = f

\* What a step that writes the rows E does to a spool: the spool of one of them pays
\* for it; another is as it was, retired or new.
SpoolPays(m, E) ==
  \E e \in E : /\ e.mat = m /\ mat'[m].life = mat[m].life
               /\ mat'[m].left = mat[m].left - e.grams /\ mat'[m].init = mat[m].init
Untouched(m, E) ==
  /\ \A e \in E : e.mat # m
  /\ mat'[m].left = mat[m].left /\ mat'[m].init = mat[m].init
  /\ There(m) => mat'[m].life # "absent"
Opened(m, E) ==
  /\ \A e \in E : e.mat # m
  /\ ~There(m) /\ mat'[m].left = mat'[m].init /\ mat'[m].life # "absent"
Books(E) ==
  /\ AllNew(E) /\ ledger' = ledger \cup E
  /\ \A e \in E : There(e.mat)
  /\ \A m \in Mats : SpoolPays(m, E) \/ Untouched(m, E) \/ Opened(m, E)

LEMMA AllNewIsNew ==
  ASSUME Numbered, IsFiniteSet(ledger), NEW E, AllNew(E)
  PROVE  \A e \in E : e \notin ledger
<1> SUFFICES ASSUME NEW e \in E, e \in ledger PROVE FALSE
  OBVIOUS
<1>1. IsFiniteSet(Same(Unnumbered(e)))
  BY FS_Subset DEF Same
<1>2. PICK c \in Nat : c = Cardinality(Same(Unnumbered(e)))
  BY <1>1, FS_CardinalityType
<1>3. e.n = c + 1 /\ e.n <= c
  BY <1>2 DEF AllNew, Numbered
<1> QED
  BY <1>3

LEMMA NumberedKeeps ==
  ASSUME Numbered, IsFiniteSet(ledger), ledger \subseteq Rows, NEW E, AllNew(E), ledger' = ledger \cup E
  PROVE  Numbered'
<1> SUFFICES ASSUME NEW r \in ledger' PROVE r.n <= Cardinality(Same(Unnumbered(r))')
  BY DEF Numbered, Unnumbered
<1>1. IsFiniteSet(ledger')
  BY FS_Union DEF AllNew
<1> DEFINE S == Same(Unnumbered(r))
           T == Same(Unnumbered(r))'
<1>2. S \subseteq T /\ IsFiniteSet(T) /\ IsFiniteSet(S) /\ r \in T
  <2>1. S \subseteq ledger /\ T \subseteq ledger' /\ S \subseteq T
    BY DEF Same, Unnumbered
  <2>2. r \in T
    BY DEF Same, Unnumbered
  <2> QED
    BY <2>1, <2>2, <1>1, FS_Subset
<1>3. PICK c \in Nat : c = Cardinality(S)
  BY <1>2, FS_CardinalityType
<1>4. PICK d \in Nat : d = Cardinality(T)
  BY <1>2, FS_CardinalityType
<1>5. r.n \in Nat
  BY DEF AllNew, Rows
<1>6. CASE r \in ledger
  <2>1. c <= d
    BY <1>2, <1>3, <1>4, FS_Subset
  <2>2. r.n <= c
    BY <1>3, <1>6 DEF Numbered
  <2> QED
    BY <1>4, <1>5, <2>1, <2>2
<1>7. CASE r \in E /\ r \notin ledger
  <2>1. r.n = c + 1
    BY <1>3, <1>7 DEF AllNew
  <2>2. r \notin S
    BY <1>7 DEF Same
  <2>3. S \cup {r} \subseteq T /\ IsFiniteSet(S \cup {r}) /\ Cardinality(S \cup {r}) = c + 1
    BY <1>2, <1>3, <2>2, FS_AddElement
  <2>4. c + 1 <= d
    BY <1>2, <1>4, <2>3, FS_Subset
  <2>5. r.n <= d
    BY <2>1, <2>4
  <2> QED
    BY <1>4, <2>5
<1> QED
  BY <1>6, <1>7

LEMMA BooksKeep ==
  ASSUME MatInv, BookInv, MatTypeOK', NEW E, Books(E),
         \A s \in Slots : loaded'[s] # NoMat => loaded'[s] \in Mats /\ There(loaded'[s]),
         \A j \in Jobs, s \in Slots :
           job'[j].used[s] # NoMat => job'[j].used[s] \in Mats /\ There(job'[j].used[s])
  PROVE  BookInv'
<1>1. /\ IsFiniteSet(ledger) /\ ledger \subseteq Rows /\ AllNew(E) /\ ledger' = ledger \cup E
      /\ E \subseteq Rows /\ Numbered
  BY DEF MatInv, LedgerOK, MatTypeOK, BookInv, Books, AllNew
<1>2. Numbered'
  BY <1>1, NumberedKeeps
<1>3. \A m \in Mats : There(m) => mat'[m].life # "absent"
  BY DEF Books, SpoolPays, Untouched, Opened, There
<1>4. SpoolsThere'
  <2>1. \A r \in ledger' : r.mat \in Mats /\ There(r.mat)
    BY <1>1 DEF BookInv, SpoolsThere, Books, Rows
  <2> QED
    BY <1>3, <2>1 DEF SpoolsThere, There
<1>5. LeftByGrams'
  <2> SUFFICES ASSUME NEW m \in Mats PROVE mat'[m].left = mat'[m].init - Grams(RowsFor(m)')
    BY DEF LeftByGrams
  <2>1. mat[m].left = mat[m].init - Grams(RowsFor(m))
    BY DEF BookInv, LeftByGrams
  <2>2. RowsFor(m)' = RowsFor(m) \cup {e \in E : e.mat = m}
    BY <1>1 DEF RowsFor
  <2>3. IsFiniteSet(RowsFor(m)) /\ \A r \in RowsFor(m) : r.grams \in Nat
    BY <1>1, FS_Subset DEF RowsFor, Rows
  <2>4. mat[m].left \in Int /\ mat[m].init \in Int
    BY DEF MatInv, MatTypeOK, MatRows
  <2>5. CASE SpoolPays(m, E)
    <3>1. PICK e \in E : /\ e.mat = m /\ mat'[m].left = mat[m].left - e.grams
                         /\ mat'[m].init = mat[m].init
      BY <2>5 DEF SpoolPays
    <3>2. RowsFor(m)' = RowsFor(m) \cup {e}
      BY <1>1, <2>2, <3>1 DEF AllNew
    <3>3. e \notin RowsFor(m) /\ e.grams \in Nat
      BY <1>1, AllNewIsNew DEF RowsFor, Rows
    <3>4. Grams(RowsFor(m) \cup {e}) = Grams(RowsFor(m)) + e.grams /\ Grams(RowsFor(m)) \in Nat
      BY <2>3, <3>3, GramsAdd
    <3>5. PICK g \in Nat : g = Grams(RowsFor(m))
      BY <3>4
    <3>6. Grams(RowsFor(m)') = g + e.grams
      BY <3>2, <3>4, <3>5
    <3> QED
      BY <2>1, <2>4, <3>1, <3>3, <3>5, <3>6
  <2>6. CASE Untouched(m, E)
    <3>1. RowsFor(m)' = RowsFor(m)
      BY <2>2, <2>6 DEF Untouched
    <3> QED
      BY <2>1, <2>6, <3>1 DEF Untouched
  <2>7. CASE Opened(m, E)
    <3>1. RowsFor(m)' = {}
      BY <2>2, <2>7 DEF Opened, RowsFor, BookInv, SpoolsThere
    <3>2. mat'[m].init \in Int
      BY DEF MatTypeOK, MatRows
    <3> QED
      BY <2>7, <3>1, <3>2, NoGrams DEF Opened
  <2> QED
    BY <2>5, <2>6, <2>7 DEF Books
<1> QED
  BY <1>2, <1>4, <1>5 DEF BookInv

\* A new entry has the grams it was asked for and the next number.
IsNext(e, g) == e.grams = g /\ e.n = Cardinality(Same(Unnumbered(e))) + 1

LEMMA EntryIsNext ==
  ASSUME NEW k \in Kinds, NEW j \in Jobs \cup {NoJob}, NEW s \in Slots \cup {NoJob},
         NEW m \in Mats, NEW g \in Nat
  PROVE  IsNext(Entry(k, j, s, m, g), g)
<1> DEFINE r == [kind |-> k, job |-> j, slot |-> s, mat |-> m, grams |-> g, n |-> 0]
<1>1. PICK c : c = Cardinality(Same(r)) + 1
  OBVIOUS
<1>2. PICK e : e = [kind |-> k, job |-> j, slot |-> s, mat |-> m, grams |-> g, n |-> c]
  OBVIOUS
<1>3. Entry(k, j, s, m, g) = e
  BY <1>1, <1>2 DEF Entry
<1>4. e.grams = g /\ e.n = c
  BY <1>2
<1>5. Unnumbered(e) = r
  BY <1>2 DEF Unnumbered
<1> HIDE DEF r
<1> QED
  BY <1>1, <1>3, <1>4, <1>5 DEF IsNext

\* The notes and the slots name spools that have a row, before a step and after it.
NamesThere(slots) == \A s \in Slots : slots[s] # NoMat => slots[s] \in Mats /\ There(slots[s])

LEMMA NamesAreThere ==
  ASSUME MatInv, BookInv
  PROVE  NamesThere(loaded) /\ \A j \in Jobs : NamesThere(job[j].used)
<1>1. loaded \in [Slots -> Mats \cup {NoMat}]
  BY DEF MatInv, MatTypeOK, PrinterLoadouts
<1>2. \A j \in Jobs : job[j].used \in [Slots -> Mats \cup {NoMat}]
  BY DEF MatInv, MatTypeOK, JobRows
<1> QED
  BY <1>1, <1>2 DEF BookInv, SpoolsThere, NamesThere

LEMMA NothingBooked ==
  ASSUME MatInv, BookInv, MatTypeOK', UNCHANGED <<mat, ledger>>, NamesThere(loaded'),
         \A j \in Jobs : NamesThere(job'[j].used)
  PROVE  BookInv'
<1>1. Books({})
  BY FS_EmptySet DEF Books, AllNew, Untouched, There
<1> QED
  BY <1>1, BooksKeep DEF NamesThere

LEMMA OneIsBooked ==
  ASSUME MatInv, BookInv, MatTypeOK', NEW k \in Kinds, NEW j \in Jobs \cup {NoJob},
         NEW s \in Slots \cup {NoJob}, NEW m \in Mats, NEW g \in Nat, Consume(k, j, s, m, g),
         There(m), UNCHANGED <<loaded, job>>
  PROVE  BookInv'
<1>1. IsFiniteSet(ledger) /\ mat \in [Mats -> MatRows] /\ mat[m] \in MatRows
  BY DEF MatInv, LedgerOK, MatTypeOK
<1>2. PICK e : e = Entry(k, j, s, m, g)
  OBVIOUS
<1>3. e \in Rows /\ e.mat = m
  <2>1. EntryIs(Entry(k, j, s, m, g), k, j, s, m)
    BY <1>1, EntryFacts
  <2> QED
    BY <1>2, <2>1 DEF EntryIs
<1>4. e.grams = g /\ e.n = Cardinality(Same(Unnumbered(e))) + 1
  <2>1. IsNext(Entry(k, j, s, m, g), g)
    BY EntryIsNext
  <2> QED
    BY <1>2, <2>1 DEF IsNext
<1>5. ledger' = ledger \cup {e}
  BY <1>2 DEF Consume
<1>6. AllNew({e})
  BY <1>3, <1>4, FS_Singleton DEF AllNew
<1>7. SpoolPays(m, {e})
  <2> DEFINE entry == [mat[m] EXCEPT !.left = mat[m].left - g]
  <2>1. entry.life = mat[m].life /\ entry.left = mat[m].left - g /\ entry.init = mat[m].init
    BY <1>1 DEF MatRows
  <2>2. mat'[m] = entry
    BY <1>1 DEF Consume
  <2> HIDE DEF entry
  <2> QED
    BY <1>3, <1>4, <2>1, <2>2 DEF SpoolPays
<1>8. \A x \in Mats \ {m} : Untouched(x, {e})
  BY <1>1, <1>3 DEF Consume, Untouched, There
<1>9. Books({e})
  BY <1>3, <1>5, <1>6, <1>7, <1>8 DEF Books
<1> QED
  BY <1>9, NamesAreThere, BooksKeep DEF NamesThere

LEMMA ShelfBooks ==
  ASSUME MatInv, MatInv', BookInv, NEW m \in Mats,
         \/ CreateMaterial(m) \/ UnloadFromPrinter(m) \/ RetireMaterial(m)
         \/ ConsumeManually(m) \/ \E s \in Slots : LoadInPrinter(m, s)
  PROVE  BookInv'
<1>1. mat \in [Mats -> MatRows] /\ mat[m] \in MatRows /\ loaded \in [Slots -> Mats \cup {NoMat}]
      /\ MatTypeOK' /\ IsFiniteSet({}) /\ m # NoMat
  BY FS_EmptySet, MaterialsAssumption DEF MatInv, MatTypeOK, PrinterLoadouts
<1>2. CASE CreateMaterial(m)
  <2>1. mat' = [mat EXCEPT ![m] = [life |-> "active", init |-> Full, left |-> Full]]
        /\ mat[m].life = "absent" /\ UNCHANGED <<loaded, job, ledger>>
    BY <1>2 DEF CreateMaterial
  <2>2. Opened(m, {}) /\ \A x \in Mats \ {m} : Untouched(x, {})
    BY <1>1, <2>1 DEF Opened, Untouched, There
  <2>3. Books({})
    BY <1>1, <2>1, <2>2 DEF Books, AllNew
  <2> QED
    BY <1>1, <2>1, <2>3, NamesAreThere, BooksKeep DEF NamesThere
<1>3. CASE RetireMaterial(m)
  <2>1. mat' = [mat EXCEPT ![m].life = "retired"] /\ UNCHANGED <<loaded, job, ledger>>
    BY <1>3 DEF RetireMaterial
  <2>2. \A x \in Mats : Untouched(x, {})
    BY <1>1, <2>1 DEF Untouched, There, MatRows
  <2>3. Books({})
    BY <1>1, <2>1, <2>2 DEF Books, AllNew
  <2> QED
    BY <1>1, <2>1, <2>3, NamesAreThere, BooksKeep DEF NamesThere
<1>4. CASE ConsumeManually(m)
  <2>1. Consume("entered", NoJob, NoJob, m, 1) /\ There(m) /\ UNCHANGED <<loaded, job>>
    BY <1>4 DEF ConsumeManually, There
  <2>2. "entered" \in Kinds
    BY DEF Kinds
  <2> QED
    BY <1>1, <2>1, <2>2, OneIsBooked
<1>5. CASE UnloadFromPrinter(m)
  <2>1. UNCHANGED <<mat, job, ledger>> /\ \E s \in Open(m) : loaded' = [loaded EXCEPT ![s] = NoMat]
    BY <1>5 DEF UnloadFromPrinter
  <2>2. NamesThere(loaded')
    BY <1>1, <2>1, NamesAreThere DEF NamesThere, Open
  <2> QED
    BY <1>1, <2>1, <2>2, NamesAreThere, NothingBooked
<1>6. CASE \E s \in Slots : LoadInPrinter(m, s)
  <2>1. UNCHANGED <<mat, job, ledger>> /\ There(m) /\ \E s \in Slots : loaded' = [loaded EXCEPT ![s] = m]
    BY <1>6 DEF LoadInPrinter, There, Active
  <2>2. NamesThere(loaded')
    BY <1>1, <2>1, NamesAreThere DEF NamesThere
  <2> QED
    BY <1>1, <2>1, <2>2, NamesAreThere, NothingBooked
<1> QED
  BY <1>2, <1>3, <1>4, <1>5, <1>6

\* A mix books one row for each of its sources.
LEMMA BlendBooks ==
  ASSUME MatInv, MatInv', BookInv, NEW k \in Keys, NEW sources \in SUBSET Mats,
         NEW product \in Mats, NEW amount \in Nat, product \notin sources,
         Blend(k, sources, product, amount)
  PROVE  BookInv'
<1> DEFINE E == {Entry("drawn", NoJob, NoJob, m, Draw) : m \in sources}
           new == [life |-> "active", init |-> amount, left |-> amount]
           drawn(m) == [mat[m] EXCEPT !.left = mat[m].left - Draw]
<1>1. /\ mat' = [m \in Mats |-> IF m \in sources THEN drawn(m)
                                ELSE IF m = product THEN new ELSE mat[m]]
      /\ ledger' = ledger \cup E /\ UNCHANGED <<loaded, job>>
      /\ \A m \in sources : Active(m) 
      /\ mat[product].life = "absent"
  BY DEF Blend
<1>2. IsFiniteSet(ledger) /\ IsFiniteSet(sources) /\ Draw \in Nat /\ "drawn" \in Kinds
      /\ mat \in [Mats -> MatRows] /\ MatTypeOK'
  BY MaterialsAssumption, FS_Subset DEF MatInv, LedgerOK, MatTypeOK, Kinds
<1>3. \A m \in sources : \E e \in E : /\ e = Entry("drawn", NoJob, NoJob, m, Draw)
                                      /\ e \in Rows /\ e.mat = m /\ e.grams = Draw
                                      /\ e.n = Cardinality(Same(Unnumbered(e))) + 1
  <2> TAKE m \in sources
  <2>1. PICK e \in E : e = Entry("drawn", NoJob, NoJob, m, Draw)
    OBVIOUS
  <2>2. m \in Mats /\ NoJob \in Slots \cup {NoJob} /\ NoJob \in Jobs \cup {NoJob}
    OBVIOUS
  <2>3. e \in Rows /\ e.mat = m
    <3>1. PICK what \in Kinds : what = "drawn"
      BY <1>2
    <3>2. EntryIs(Entry(what, NoJob, NoJob, m, Draw), what, NoJob, NoJob, m)
      BY <1>2, <2>2, EntryFacts
    <3> QED
      BY <2>1, <3>1, <3>2 DEF EntryIs
  <2>4. e.grams = Draw /\ e.n = Cardinality(Same(Unnumbered(e))) + 1
    <3>1. PICK what \in Kinds : what = "drawn"
      BY <1>2
    <3>2. IsNext(Entry(what, NoJob, NoJob, m, Draw), Draw)
      BY <1>2, <2>2, EntryIsNext
    <3> QED
      BY <2>1, <3>1, <3>2 DEF IsNext
  <2> QED
    BY <2>1, <2>3, <2>4
<1>4. \A e \in E : e \in Rows /\ e.mat \in sources /\ e.grams = Draw
                   /\ e = Entry("drawn", NoJob, NoJob, e.mat, Draw)
                   /\ e.n = Cardinality(Same(Unnumbered(e))) + 1
  <2> TAKE e \in E
  <2>1. PICK m \in sources : e = Entry("drawn", NoJob, NoJob, m, Draw)
    OBVIOUS
  <2> HIDE DEF E
  <2>2. e \in Rows /\ e.mat = m /\ e.grams = Draw /\ e.n = Cardinality(Same(Unnumbered(e))) + 1
    BY <1>3, <2>1
  <2> QED
    BY <2>1, <2>2
<1>5. IsFiniteSet(E)
  <2> DEFINE f == [m \in sources |-> Entry("drawn", NoJob, NoJob, m, Draw)]
  <2>1. f \in Surjection(sources, E)
    BY DEF Surjection
  <2> HIDE DEF f, E
  <2> QED
    BY <1>2, <2>1, FS_Surjection
<1>6. \A m \in Mats : mat[m] \in MatRows /\ drawn(m).life = mat[m].life
                      /\ drawn(m).left = mat[m].left - Draw /\ drawn(m).init = mat[m].init
  BY <1>2 DEF MatRows
<1>7. new.life = "active" /\ new.init = new.left
  OBVIOUS
<1> HIDE DEF E, new, drawn
<1>8. AllNew(E)
  BY <1>4, <1>5 DEF AllNew
<1>9. \A e \in E : There(e.mat)
  BY <1>1, <1>4 DEF There, Active
<1>10. \A m \in Mats : SpoolPays(m, E) \/ Untouched(m, E) \/ Opened(m, E)
  <2> TAKE m \in Mats
  <2>1. CASE m \in sources
    <3>1. PICK e \in E : e.mat = m /\ e.grams = Draw
      BY <1>3, <2>1
    <3>2. mat'[m] = drawn(m)
      BY <1>1, <2>1
    <3> QED
      BY <1>6, <3>1, <3>2 DEF SpoolPays
  <2>2. CASE m = product
    <3>1. mat'[m] = new /\ m \notin sources
      BY <1>1, <2>2
    <3> QED
      BY <1>1, <1>4, <1>7, <2>2, <3>1 DEF Opened, There
  <2>3. CASE m \notin sources /\ m # product
    <3>1. mat'[m] = mat[m]
      BY <1>1, <2>3
    <3> QED
      BY <1>4, <2>3, <3>1 DEF Untouched, There
  <2> QED
    BY <2>1, <2>2, <2>3
<1>11. Books(E)
  BY <1>1, <1>8, <1>9, <1>10 DEF Books
<1> QED
  BY <1>1, <1>2, <1>11, NamesAreThere, BooksKeep DEF NamesThere

LEMMA MixBooks ==
  ASSUME MatInv, MatInv', BookInv, NEW k \in Keys, NEW sources \in SUBSET Mats,
         NEW product \in Mats, product \notin sources,
         MixBatch(k, sources, product) \/ RecycleEvent(k, sources, product)
  PROVE  BookInv'
<1>1. Cardinality(sources) \in Nat
  BY MaterialsAssumption, FS_Subset, FS_CardinalityType
<1>2. Draw * Cardinality(sources) \in Nat /\ Full \in Nat
  BY <1>1, MaterialsAssumption
<1> QED
  BY <1>2, BlendBooks DEF MixBatch, RecycleEvent

\* Claims and reports move jobs; what is noted for them stays.
LEMMA SameNotesBook ==
  ASSUME MatInv, MatInv', BookInv, SameNotes(job', job), UNCHANGED <<mat, loaded, ledger>>
  PROVE  BookInv'
<1>1. MatTypeOK'
  BY DEF MatInv
<1>2. NamesThere(loaded') /\ \A j \in Jobs : NamesThere(job'[j].used)
  BY NamesAreThere DEF SameNotes
<1> QED
  BY <1>1, <1>2, NothingBooked

LEMMA JobsMove ==
  ASSUME MatInv,
         \/ \E j \in Jobs : StartCentral(j) \/ StartCourier(j) \/ CourierDispatched(j) \/ Fails(j)
         \/ \E j \in Jobs, grams \in Measures : FeedCompletes(j, grams)
         \/ \E t \in pending : NoEstimate(t)
         \/ Stamp \/ EstimateDone \/ MeasureDone \/ ServerCrash \/ ServerRestart
  PROVE  SameNotes(job', job) /\ UNCHANGED <<mat, loaded, ledger>>
<1>0. MatTypeOK /\ job \in [Jobs -> JobRows]
  BY DEF MatInv, MatTypeOK
<1>1. UNCHANGED job => SameNotes(job', job)
  BY <1>0 DEF SameNotes
<1>2. CASE \E j \in Jobs : StartCentral(j) \/ StartCourier(j) \/ CourierDispatched(j) \/ Fails(j)
  <2>1. PICK j \in Jobs : StartCentral(j) \/ StartCourier(j) \/ CourierDispatched(j) \/ Fails(j)
    BY <1>2
  <2>2. UNCHANGED <<mat, loaded, ledger>>
    BY <2>1 DEF StartCentral, StartCourier, CourierDispatched, Fails
  <2>3. CASE StartCentral(j)
    <3>1. job' = [job EXCEPT ![j].status = "claimed", ![j].marker = "central"]
      BY <2>3 DEF StartCentral
    <3> QED
      BY <1>0, <2>2, <3>1, ClaimEffect
  <2>4. CASE StartCourier(j)
    BY <1>1, <2>2, <2>4 DEF StartCourier
  <2>5. CASE CourierDispatched(j) \/ Fails(j)
    <3>1. Restated(job', job, j, "dispatched") \/ Restated(job', job, j, "failed")
      BY <2>5 DEF CourierDispatched, Fails, Restated
    <3> QED
      BY <1>0, <2>2, <3>1, StatusEffect
  <2> QED
    BY <2>1, <2>3, <2>4, <2>5
<1>3. CASE \E j \in Jobs, grams \in Measures : FeedCompletes(j, grams)
  <2>1. PICK j \in Jobs, grams \in Measures : FeedCompletes(j, grams)
    BY <1>3
  <2>2. Restated(job', job, j, "completed") /\ UNCHANGED <<mat, loaded, ledger>>
    BY <2>1 DEF FeedCompletes, Restated
  <2> QED
    BY <1>0, <2>2, StatusEffect
<1>4. CASE \E t \in pending : NoEstimate(t)
  BY <1>1, <1>4 DEF NoEstimate
<1>5. CASE Stamp \/ MeasureDone \/ ServerCrash
  BY <1>1, <1>5 DEF Stamp, MeasureDone, ServerCrash
<1>6. CASE EstimateDone
  <2>1. PICK i \in Jobs : i = chain.job
    BY <1>6 DEF EstimateDone, MatInv, ChainOK
  <2>2. /\ \/ Restated(job', job, i, "dispatched")
           \/ job' = [job EXCEPT ![i].status = "claimed", ![i].marker = "courier"]
           \/ job' = job
        /\ UNCHANGED <<mat, loaded, ledger>>
    BY <1>6, <2>1 DEF EstimateDone, Restated
  <2>3. CASE Restated(job', job, i, "dispatched")
    BY <1>0, <2>2, <2>3, StatusEffect
  <2>4. CASE job' = [job EXCEPT ![i].status = "claimed", ![i].marker = "courier"]
    BY <1>0, <2>2, <2>4, ClaimEffect
  <2> QED
    BY <1>1, <2>2, <2>3, <2>4
<1>7. CASE ServerRestart
  <2> DEFINE freed(j) == [job[j] EXCEPT !.status = "claimable", !.marker = "none"]
  <2>1. /\ job' = [j \in Jobs |-> IF job[j].status = "claimed" /\ job[j].marker = "central"
                                  THEN freed(j) ELSE job[j]]
        /\ UNCHANGED <<mat, loaded, ledger>>
    BY <1>7 DEF ServerRestart
  <2>2. \A j \in Jobs : freed(j) \in JobRows /\ freed(j).used = job[j].used
    <3> TAKE j \in Jobs
    <3>1. job[j] \in JobRows
      BY <1>0
    <3> QED
      BY <3>1 DEF JobRows
  <2> HIDE DEF freed
  <2> QED
    BY <1>0, <2>1, <2>2 DEF SameNotes
<1> QED
  BY <1>2, <1>3, <1>4, <1>5, <1>6, <1>7

\* The note of a job becomes what is loaded, or is wiped.
LEMMA NotesBook ==
  ASSUME MatInv, MatInv', BookInv,
         \/ \E t \in pending : ReadEstimate(t)
         \/ \E j \in Jobs, grams \in Measures : CourierCompletes(j, grams)
  PROVE  BookInv'
<1>0. MatTypeOK' /\ job \in [Jobs -> JobRows] /\ pending \subseteq Tasks
  BY DEF MatInv, MatTypeOK
<1>1. PICK j \in Jobs :
        /\ job'[j].used \in {Loadout(j), NoUse, job[j].used}
        /\ \A i \in Jobs \ {j} : job'[i] = job[i]
        /\ UNCHANGED <<mat, loaded, ledger>>
  <2>1. CASE \E t \in pending : ReadEstimate(t)
    <3>1. PICK t \in pending : ReadEstimate(t)
      BY <2>1
    <3>2. PICK j \in Jobs : j = t.job
      BY <1>0 DEF Tasks
    <3> DEFINE entry == [job[j] EXCEPT !.used = Loadout(j)]
    <3>3. entry.used = Loadout(j)
      BY <1>0 DEF JobRows
    <3>4. job' = [job EXCEPT ![j] = entry] /\ UNCHANGED <<mat, loaded, ledger>>
      BY <3>1, <3>2 DEF ReadEstimate
    <3> HIDE DEF entry
    <3> QED
      BY <1>0, <3>3, <3>4
  <2>2. CASE \E j \in Jobs, grams \in Measures : CourierCompletes(j, grams)
    <3>1. PICK j \in Jobs, grams \in Measures : CourierCompletes(j, grams)
      BY <2>2
    <3>2. PICK used \in {NoUse, job[j].used}, status \in {"completed", job[j].status} :
            /\ job' = [job EXCEPT ![j].used = used, ![j].status = status]
            /\ UNCHANGED <<mat, loaded, ledger>>
      BY <3>1 DEF CourierCompletes
    <3> DEFINE entry == [job[j] EXCEPT !.used = used, !.status = status]
    <3>3. entry.used = used
      BY <1>0 DEF JobRows
    <3>4. job' = [job EXCEPT ![j] = entry]
      BY <1>0, <3>2
    <3> HIDE DEF entry
    <3> QED
      BY <1>0, <3>2, <3>3, <3>4
  <2> QED
    BY <2>1, <2>2
<1>2. NamesThere(loaded) /\ \A i \in Jobs : NamesThere(job[i].used)
  BY NamesAreThere
<1>3. NamesThere(Loadout(j)) /\ NamesThere(NoUse)
  BY <1>2 DEF NamesThere, Loadout, NoUse
<1>4. \A i \in Jobs : NamesThere(job'[i].used)
  BY <1>1, <1>2, <1>3
<1> QED
  BY <1>0, <1>1, <1>2, <1>4, NothingBooked

LEMMA EmitBooks ==
  ASSUME MatInv, MatInv', BookInv, NEW s \in Slots, EmitEstimate(s) \/ EmitMeasured(s)
  PROVE  BookInv'
<1>1. PICK j \in Jobs : j = chain.job /\ chain.todo \subseteq Held(job[j].used) /\ s \in chain.todo
  BY DEF MatInv, ChainOK, EmitEstimate, EmitMeasured
<1>2. job[j] \in JobRows /\ measured[j].grams \in [Slots -> Nat] /\ MatTypeOK'
  BY DEF MatInv, MatTypeOK
<1>3. NamesThere(job[j].used)
  BY NamesAreThere
<1>4. PICK m \in Mats : m = job[j].used[s] /\ There(m)
  BY <1>1, <1>3 DEF Held, NamesThere
<1>5. UNCHANGED <<loaded, job>>
  BY DEF EmitEstimate, EmitMeasured
<1>6. CASE UNCHANGED <<mat, ledger>>
  BY <1>2, <1>5, <1>6, NamesAreThere, NothingBooked
<1>7. CASE EmitEstimate(s) /\ ~ UNCHANGED <<mat, ledger>>
  <2>1. PICK g \in Nat : g = Estimate[j][s]
    BY MaterialsAssumption
  <2>2. Consume("estimated", j, s, m, g) /\ "estimated" \in Kinds
    BY <1>1, <1>4, <1>7, <2>1 DEF EmitEstimate, Kinds
  <2> QED
    BY <1>2, <1>4, <1>5, <2>2, OneIsBooked
<1>8. CASE EmitMeasured(s) /\ ~ UNCHANGED <<mat, ledger>>
  <2>1. PICK g \in Nat : g = measured[j].grams[s]
    BY <1>2
  <2>2. Consume("measured", j, s, m, g) /\ "measured" \in Kinds
    BY <1>1, <1>4, <1>8, <2>1 DEF EmitMeasured, Kinds
  <2> QED
    BY <1>2, <1>4, <1>5, <2>2, OneIsBooked
<1> QED
  BY <1>6, <1>7, <1>8

LEMMA BookInitInv == MatInit => BookInv
<1> SUFFICES ASSUME MatInit PROVE BookInv
  OBVIOUS
<1>1. ledger = {} /\ \A m \in Mats : mat[m].left = 0 /\ mat[m].init = 0
  BY DEF MatInit
<1>2. Numbered /\ SpoolsThere
  BY <1>1 DEF MatInit, Numbered, SpoolsThere, NoUse
<1>3. \A m \in Mats : RowsFor(m) = {}
  BY <1>1 DEF RowsFor
<1> QED
  BY <1>1, <1>2, <1>3, NoGrams DEF BookInv, LeftByGrams

LEMMA BookStepKeeps ==
  ASSUME MatInv, BookInv, [MatNext]_matVars
  PROVE  BookInv'
<1>0. MatInv'
  BY MatStepKeeps
<1>1. CASE MatNext
  <2>1. CASE \E m \in Mats : \/ CreateMaterial(m) \/ UnloadFromPrinter(m)
                             \/ RetireMaterial(m) \/ ConsumeManually(m)
                             \/ \E s \in Slots : LoadInPrinter(m, s)
    BY <1>0, <2>1, ShelfBooks
  <2>2. CASE \E k \in Keys, product \in Mats, sources \in SUBSET Mats :
               /\ product \notin sources
               /\ MixBatch(k, sources, product) \/ RecycleEvent(k, sources, product)
    BY <1>0, <2>2, MixBooks
  <2>3. CASE \/ \E j \in Jobs : StartCentral(j) \/ StartCourier(j) \/ CourierDispatched(j) \/ Fails(j)
             \/ \E j \in Jobs, grams \in Measures : FeedCompletes(j, grams)
             \/ \E t \in pending : NoEstimate(t)
             \/ Stamp \/ EstimateDone \/ MeasureDone \/ ServerCrash \/ ServerRestart
    BY <1>0, <2>3, JobsMove, SameNotesBook
  <2>4. CASE \/ \E t \in pending : ReadEstimate(t)
             \/ \E j \in Jobs, grams \in Measures : CourierCompletes(j, grams)
    BY <1>0, <2>4, NotesBook
  <2>5. CASE \E s \in Slots : EmitEstimate(s) \/ EmitMeasured(s)
    BY <1>0, <2>5, EmitBooks
  <2> QED
    BY <1>1, <2>1, <2>2, <2>3, <2>4, <2>5 DEF MatNext
<1>2. CASE UNCHANGED matVars
  <2>1. SameNotes(job', job) /\ UNCHANGED <<mat, loaded, ledger>>
    BY <1>2 DEF matVars, MatInv, MatTypeOK, SameNotes
  <2> QED
    BY <1>0, <2>1, SameNotesBook
<1> QED
  BY <1>1, <1>2

\* What is left of every spool is what it began with less what the ledger booked,
\* through crashes between any two statements, mixes, and estimates that come late.
THEOREM SpoolsAreBooked == MatSpec => []LeftIsBooked
<1>1. MatInit => MatInv /\ BookInv
  BY MatInitInv, BookInitInv
<1>2. MatInv /\ BookInv /\ [MatNext]_matVars => MatInv' /\ BookInv'
  BY MatStepKeeps, BookStepKeeps
<1>3. BookInv => LeftIsBooked
  BY LeftIs DEF BookInv
<1> QED
  BY <1>1, <1>2, <1>3, PTL DEF MatSpec

-----------------------------------------------------------------------------
(* Stash: the inductive invariant *)

Src(m) == task[m].job.src
Dst(m) == task[m].job.dst
Handles(m) == task[m].at \in {"check", "link", "copy", "commit", "unlink"}
Uses(m)  == task[m].at \in {"copy", "commit", "unlink"}
Makes(m) == task[m].at \in {"copy", "commit"}
Sorting(m) == task[m].at \in {"classify", "place", "in place"}
Adopting(m) == task[m].kind \in Adopts
OneLoot(b) == \A r, q \in b : LootOf[r] = LootOf[q]

\* What a run is in the middle of.
RunOK(m) ==
  /\ Handles(m) => /\ task[m].job.row \in Row /\ Src(m) \in Place
                   /\ Dst(m) \in Root \X Path /\ Src(m) # Dst(m)
                   /\ task[m].kind # "none"
                   /\ IF Adopting(m) THEN Src(m)[1] = Inbox
                      ELSE Src(m)[1] \in Root /\ task[m].job.row \in LiveRows
  /\ Sorting(m) => /\ Adopting(m) /\ task[m].job.row \in Row
                   /\ Src(m) \in Place /\ Src(m)[1] = Inbox
  /\ task[m].at \in {"place", "in place"} => task[m].to \in Collection
  /\ task[m].at \in {"batch", "file"} => task[m].kind \in RunKinds \ Adopts
  /\ \A j \in task[m].jobs : /\ j.row \in LiveRows /\ j.src # j.dst
                             /\ {j.src, j.dst} \subseteq Root \X Path
  /\ \A b \in task[m].left : b # {} /\ b \subseteq LiveRows /\ OneLoot(b)
  /\ task[m].kind \in {"move", "migrate"} => task[m].to \in Collection
  /\ task[m].kind \in {"template", "migrate"} => task[m].tpl \in Template
  /\ task[m].at # "idle" => m \in IF Adopting(m) THEN Sorter ELSE Clerk

\* Two runs have nothing in hand together, but an inbox file that both take up.
HandsApart ==
  \A m, n \in Mover : m # n =>
    /\ Uses(m) /\ Uses(n) /\ Src(m)[1] \in Root => Src(m) # Src(n)
    /\ Uses(m) /\ Makes(n) => Src(m) # Dst(n)
    /\ Makes(m) /\ Makes(n) => Dst(m) # Dst(n)

\* What a run has in hand stays there, and what it made is what it was made from.
HandsFull ==
  \A m \in Mover :
    /\ Uses(m) /\ Src(m)[1] \in Root => disk[Src(m)] # Nothing
    /\ Makes(m) => disk[Dst(m)] # Nothing
    /\ At(m, "commit") /\ disk[Src(m)] \in Bytes \ hands => disk[Dst(m)] = disk[Src(m)]

\* A place that no run is about to empty.
Safe(p) == \A m \in Mover : /\ At(m, "unlink") => Src(m) # p
                            /\ Makes(m) => Dst(m) # p
BytesSafe == \A b \in Bytes \ hands : \E p \in Place : disk[p] = b /\ Safe(p)

\* A run of the inbox works for a loot of its own, which has no row yet.
OwnLoot(m) == LootOf[task[m].job.row]
Unfiled(m) == Adopting(m) /\ (Sorting(m) \/ (Handles(m) /\ ~At(m, "unlink")))
SorterOK(m) ==
  Unfiled(m) =>
    /\ RowsOf(OwnLoot(m)) = {}
    /\ task[m].at \in {"classify", "place"} => coll[OwnLoot(m)] = NoColl
    /\ At(m, "in place") \/ Handles(m) => coll[OwnLoot(m)] = task[m].to
    /\ Handles(m) => task[m].to \in Collection /\ Dst(m)[1] = RootOf[task[m].to]
LootsApart == \A m, n \in Mover : m # n /\ Unfiled(m) /\ Unfiled(n) => OwnLoot(m) # OwnLoot(n)
SortersOK  == (\A m \in Mover : SorterOK(m)) /\ LootsApart

\* Nobody puts anything but files of their own into the inbox.
InboxWhole == \A p \in Path : disk[<<Inbox, p>>] \in Bytes \cup {Nothing}

CoreInv ==
  /\ StashTypeOK /\ \A m \in Mover : RunOK(m)
  /\ SortersOK /\ InboxWhole
  /\ ~crossed => HandsApart /\ HandsFull /\ BytesSafe

-----------------------------------------------------------------------------
(* Rows and files, while restructures come one at a time *)

OneRestructure == \A m, n \in Clerk : m = n

\* The job a restructure has in hand is what the row says.
JobFits(m, j) ==
  /\ j.src = PlaceOf(j.row)
  /\ j.dst[1] = IF task[m].kind = "move" THEN RootOf[task[m].to] ELSE j.src[1]
ClerkKnows(m) ==
  ~Adopting(m) =>
    /\ At(m, "file") => /\ \A j \in task[m].jobs : JobFits(m, j)
                        /\ \A i, j \in task[m].jobs : i = j
                        /\ ~task[m].flipped
    /\ Handles(m) => task[m].jobs = {}
    /\ Handles(m) /\ ~At(m, "unlink") => JobFits(m, task[m].job) /\ ~task[m].flipped
FilesThere == \A r \in LiveRows : /\ disk[PlaceOf(r)] \in Bytes
                                  /\ row[r].of \in Bytes => disk[PlaceOf(r)] = row[r].of
RowsApart == \A q, r \in LiveRows : PlaceOf(q) = PlaceOf(r) => q = r
NotFiledYet == \A r \in LiveRows, m \in Mover : Makes(m) => PlaceOf(r) # Dst(m)
LeftBehind == \A r \in LiveRows, m \in Mover : At(m, "unlink") => PlaceOf(r) # Src(m)

Fetched == \A m \in Mover : At(m, "commit") => disk[Dst(m)] \in Bytes

OrderInv == Orderly => /\ ~crossed /\ FilesThere /\ RowsApart /\ NotFiledYet /\ LeftBehind
                       /\ Fetched /\ \A m \in Mover : ClerkKnows(m)

-----------------------------------------------------------------------------
(* Places, rows and runs *)

LEMMA Geography ==
  /\ Root \X Path \subseteq Place
  /\ \A p \in Path : <<Inbox, p>> \in Place
  /\ \A d \in Root, p \in Path : <<d, p>> \in Root \X Path
  /\ \A p \in Root \X Path : p[1] \in Root /\ p[1] # Inbox
  /\ \A p \in Place : p[1] \in Dir /\ p[2] \in Path /\ p = <<p[1], p[2]>>
  /\ \A p \in Place : p[1] \in Root => p \in Root \X Path
BY StashAssumption DEF Place, Dir

\* A row has a path, a hash and bytes; its loot is filed, under a root.
LEMMA RowFacts ==
  ASSUME StashTypeOK, NEW r \in LiveRows
  PROVE  /\ r \in Row /\ LootOf[r] \in Loot /\ row[r] \in RowData
         /\ coll[LootOf[r]] \in Collection /\ RootFor(LootOf[r]) \in Root
         /\ row[r].path \in Path /\ PlaceOf(r) \in Root \X Path
<1>1. r \in Row /\ row[r] # NoRow /\ coll[LootOf[r]] # NoColl
  BY DEF LiveRows, StashTypeOK
<1>2. LootOf[r] \in Loot /\ row[r] \in RowData
  BY <1>1, StashAssumption DEF StashTypeOK
<1>3. coll[LootOf[r]] \in Collection
  BY <1>1, <1>2 DEF StashTypeOK
<1>4. RootFor(LootOf[r]) \in Root
  BY <1>3, StashAssumption DEF RootFor
<1>5. row[r].path \in Path
  BY <1>2 DEF RowData
<1>6. PlaceOf(r) \in Root \X Path
  BY <1>4, <1>5 DEF PlaceOf
<1> QED
  BY <1>1, <1>2, <1>3, <1>4, <1>5, <1>6

\* Where a template puts a file that it fits is a place of the root.
LEMMA ProposedIsPath ==
  ASSUME StashTypeOK, NEW r \in LiveRows, NEW t \in Template, Stem[t][LootOf[r]] # NoStem
  PROVE  Proposed(t, r) \in Path
BY RowFacts, StashAssumption DEF Proposed, Under

\* The fields of a run.
LEMMA RunFacts ==
  ASSUME StashTypeOK, NEW m \in Mover
  PROVE  /\ task[m] \in Runs /\ task[m].job \in FileJobs
         /\ task[m].at \in Steps /\ task[m].kind \in RunKinds \cup {"none"}
         /\ task[m].to \in Collection \cup {NoColl} /\ task[m].tpl \in Template \cup {NoStem}
         /\ task[m].left \in SUBSET SUBSET Row /\ task[m].jobs \in SUBSET FileJobs
         /\ task[m].flipped \in BOOLEAN /\ task[m].moved \in BOOLEAN
         /\ task[m].job.row \in Row \cup {NoRow} /\ task[m].job.saw \in Content
<1>1. task[m] \in Runs
  BY DEF StashTypeOK
<1>2. task[m].job \in FileJobs
  BY <1>1 DEF Runs
<1> QED
  BY <1>1, <1>2 DEF Runs, FileJobs

-----------------------------------------------------------------------------
(* What a step must leave alone for the parts of the invariant to stay *)

\* Rows stay where they are, with their bytes; a scan may change a hash.
SameRows ==
  /\ LiveRows' = LiveRows
  /\ \A r \in LiveRows : /\ PlaceOf(r)' = PlaceOf(r)
                         /\ row'[r].of = row[r].of /\ row'[r].by = row[r].by

\* The movers but m go on as they are.
OthersStay(m) == \A n \in Mover \ {m} : task'[n] = task[n]

LEMMA RunStays ==
  ASSUME NEW n \in Mover, RunOK(n), task'[n] = task[n], LiveRows \subseteq LiveRows'
  PROVE  RunOK(n)'
BY DEF RunOK, Src, Dst, Handles, Sorting, Adopting, OneLoot

LEMMA IdleIsOK ==
  ASSUME NEW m \in Mover, task'[m] = Idle
  PROVE  RunOK(m)' /\ ~Unfiled(m)' /\ ~Uses(m)' /\ ~Makes(m)' /\ ~Handles(m)'
<1>1. /\ task'[m].at = "idle" /\ task'[m].kind = "none" /\ task'[m].left = {}
      /\ task'[m].jobs = {}
  BY DEF Idle
<1> QED
  BY <1>1 DEF RunOK, Handles, Sorting, Uses, Makes, Unfiled, Adopting, RunKinds, Adopts

\* Nobody has a thing in hand now that it had not before.
NoNewHands ==
  \A m \in Mover : Uses(m)' => task'[m].at = task[m].at /\ task'[m].job = task[m].job

CrossInv == ~crossed => HandsApart /\ HandsFull /\ BytesSafe

LEMMA CrossStays ==
  ASSUME CrossInv, UNCHANGED <<disk, hands, crossed>>, NoNewHands
  PROVE  CrossInv'
<1> SUFFICES ASSUME ~crossed PROVE HandsApart' /\ HandsFull' /\ BytesSafe'
  BY DEF CrossInv
<1>0. HandsApart /\ HandsFull /\ BytesSafe
  BY DEF CrossInv
<1>1. \A m \in Mover : /\ Uses(m)' => Uses(m) /\ Src(m)' = Src(m) /\ Dst(m)' = Dst(m)
                       /\ Makes(m)' => Makes(m) /\ Src(m)' = Src(m) /\ Dst(m)' = Dst(m)
                       /\ At(m, "commit")' => At(m, "commit") /\ Src(m)' = Src(m) /\ Dst(m)' = Dst(m)
                       /\ At(m, "unlink")' => At(m, "unlink") /\ Src(m)' = Src(m)
  BY DEF NoNewHands, Uses, Makes, Src, Dst, At
<1>2. HandsApart'
  BY <1>0, <1>1 DEF HandsApart
<1>3. HandsFull'
  BY <1>0, <1>1 DEF HandsFull
<1>4. BytesSafe'
  <2>1. \A p \in Place : Safe(p) => Safe(p)'
    BY <1>1 DEF Safe
  <2> QED
    BY <1>0, <2>1 DEF BytesSafe
<1> QED
  BY <1>2, <1>3, <1>4

\* Who works for a loot of its own did so before, and nothing came of it yet.
SorterGoesOn(m) ==
  Unfiled(m)' => /\ Unfiled(m) /\ task'[m] = task[m]
                 /\ RowsOf(OwnLoot(m))' = {} /\ coll'[OwnLoot(m)] = coll[OwnLoot(m)]

LEMMA SorterStays ==
  ASSUME NEW m \in Mover, SorterOK(m), SorterGoesOn(m)
  PROVE  SorterOK(m)'
<1> SUFFICES ASSUME Unfiled(m)' PROVE SorterOK(m)'
  BY DEF SorterOK
<1>1. /\ Unfiled(m) /\ task'[m] = task[m] /\ OwnLoot(m)' = OwnLoot(m)
      /\ RowsOf(OwnLoot(m))' = {} /\ coll'[OwnLoot(m)] = coll[OwnLoot(m)]
  BY DEF SorterGoesOn, OwnLoot
<1>2. (coll[OwnLoot(m)])' = coll[OwnLoot(m)]
  BY <1>1
<1> QED
  BY <1>1, <1>2 DEF SorterOK, At, Handles, Dst

LEMMA SortersStay ==
  ASSUME SortersOK, \A m \in Mover : SorterGoesOn(m)
  PROVE  SortersOK'
<1>1. \A m \in Mover : SorterOK(m)'
  BY SorterStays DEF SortersOK
<1>2. \A m \in Mover : Unfiled(m)' => Unfiled(m) /\ OwnLoot(m)' = OwnLoot(m)
  BY DEF SorterGoesOn, OwnLoot
<1>3. LootsApart'
  BY <1>2 DEF LootsApart, SortersOK
<1> QED
  BY <1>1, <1>3 DEF SortersOK

\* Rows that stay make a library that is in order as before.
LEMMA OrderIsSame ==
  ASSUME SameRows, UNCHANGED hands
  PROVE  Orderly' <=> Orderly
<1>1. \A l : RowsOf(l)' = RowsOf(l)
  BY DEF SameRows, RowsOf
<1>2. \A r : Single(r)' <=> Single(r)
  BY <1>1 DEF Single
<1> QED
  BY <1>2 DEF Orderly, SameRows

LEMMA ClerkStays ==
  ASSUME NEW n \in Mover, ClerkKnows(n), RunOK(n), task'[n] = task[n], SameRows
  PROVE  ClerkKnows(n)'
<1> SUFFICES ASSUME ~Adopting(n)' PROVE ClerkKnows(n)'
  BY DEF ClerkKnows
<1>1. ~Adopting(n) /\ Handles(n)' = Handles(n) /\ At(n, "file")' = At(n, "file")
      /\ At(n, "unlink")' = At(n, "unlink")
  BY DEF Adopting, Handles, At
<1>2. \A j \in task[n].jobs : JobFits(n, j) => JobFits(n, j)'
  BY DEF JobFits, RunOK, SameRows
<1>3. Handles(n) => (JobFits(n, task[n].job) => JobFits(n, task[n].job)')
  BY <1>1 DEF JobFits, RunOK, SameRows
<1> QED
  BY <1>1, <1>2, <1>3 DEF ClerkKnows

LEMMA OrderStays ==
  ASSUME StashTypeOK, OrderInv, SameRows, UNCHANGED <<disk, hands, crossed>>, NoNewHands,
         Orderly => \A m \in Mover : ClerkKnows(m)'
  PROVE  OrderInv'
<1> SUFFICES ASSUME Orderly
             PROVE  /\ ~crossed' /\ FilesThere' /\ RowsApart' /\ NotFiledYet' /\ LeftBehind' /\ Fetched'
                    /\ \A m \in Mover : ClerkKnows(m)'
  BY OrderIsSame DEF OrderInv
<1>0. /\ ~crossed /\ FilesThere /\ RowsApart /\ NotFiledYet /\ LeftBehind /\ Fetched
  BY DEF OrderInv
<1>1. \A m \in Mover : /\ Makes(m)' => Makes(m) /\ Dst(m)' = Dst(m)
                       /\ At(m, "unlink")' => At(m, "unlink") /\ Src(m)' = Src(m)
                       /\ At(m, "commit")' => At(m, "commit") /\ Dst(m)' = Dst(m)
  BY DEF NoNewHands, Uses, Makes, Src, Dst, At
<1>2. /\ LiveRows' = LiveRows
      /\ \A r \in LiveRows : PlaceOf(r)' = PlaceOf(r) /\ row'[r].of = row[r].of
  BY DEF SameRows
<1>3. FilesThere'
  BY <1>0, <1>2 DEF FilesThere
<1>4. RowsApart'
  BY <1>0, <1>2 DEF RowsApart
<1>5. NotFiledYet'
  BY <1>0, <1>1, <1>2 DEF NotFiledYet
<1>6. LeftBehind'
  BY <1>0, <1>1, <1>2 DEF LeftBehind
<1>7. Fetched'
  BY <1>0, <1>1 DEF Fetched
<1> QED
  BY <1>0, <1>3, <1>4, <1>5, <1>6, <1>7

\* What touches neither files nor runs, and of rows the hash at most.
LEMMA QuietKeeps ==
  ASSUME CoreInv, StashTypeOK', SameRows, UNCHANGED <<disk, coll, task, hands, crossed>>
  PROVE  CoreInv' /\ (OrderInv => OrderInv')
<1>1. \A m \in Mover : RunOK(m)'
  BY RunStays DEF CoreInv, SameRows
<1>3. ASSUME NEW m \in Mover PROVE SorterGoesOn(m)
  <2>1. Unfiled(m)' => Unfiled(m)
    BY DEF Unfiled, Adopting, Sorting, Handles, At
  <2>2. Unfiled(m) => RowsOf(OwnLoot(m)) = {}
    BY DEF CoreInv, SortersOK, SorterOK
  <2>3. RowsOf(OwnLoot(m))' = RowsOf(OwnLoot(m)) /\ coll'[OwnLoot(m)] = coll[OwnLoot(m)]
    BY DEF SameRows, RowsOf, OwnLoot
  <2> QED
    BY <2>1, <2>2, <2>3 DEF SorterGoesOn
<1>4. SortersOK'
  BY <1>3, SortersStay DEF CoreInv
<1>5. NoNewHands
  BY DEF NoNewHands
<1>6. CrossInv'
  BY <1>5, CrossStays DEF CoreInv, CrossInv
<1>7. ASSUME OrderInv PROVE OrderInv'
  <2>1. Orderly => \A m \in Mover : ClerkKnows(m)'
    BY <1>7, ClerkStays DEF OrderInv, CoreInv
  <2> QED
    BY <1>5, <1>7, <2>1, OrderStays DEF CoreInv
<1>8. InboxWhole'
  BY DEF CoreInv, InboxWhole
<1> QED
  BY <1>1, <1>4, <1>6, <1>7, <1>8 DEF CoreInv, CrossInv

-----------------------------------------------------------------------------
(* The reconciler, the watcher, mounts *)

LEMMA SameRowsIfSame ==
  ASSUME UNCHANGED <<row, coll>>
  PROVE  SameRows
BY DEF SameRows, LiveRows, PlaceOf, RootFor

LEMMA NotesAreTyped ==
  ASSUME StashTypeOK, NEW p \in Place, NEW what \in {"none", "unlink", "change"}
  PROVE  Notes(p, what) \in [Place -> {"none", "unlink", "change"}]
BY DEF StashTypeOK, Notes

LEMMA ListedIsScan ==
  ASSUME StashTypeOK, NEW left \in SUBSET Root, left # {}
  PROVE  Listed(left) \in Scanning
<1> DEFINE d == CHOOSE d \in left : TRUE
<1>1. d \in left
  OBVIOUS
<1>2. NoScan.seen \in UNION {[S -> Content] : S \in SUBSET Path}
  <2>1. <<>> \in [{} -> Content]
    OBVIOUS
  <2> QED
    BY <2>1 DEF NoScan
<1>3. NoScan \in Scanning
  BY <1>2 DEF NoScan, Scanning, Dir
<1>4. left \ {d} \in SUBSET Root /\ d \in Dir
  BY <1>1 DEF Dir
<1>5. {p \in Path : reach[d] /\ disk[<<d, p>>] # Nothing} \in SUBSET Path
  OBVIOUS
<1> QED
  BY <1>3, <1>4, <1>5 DEF Listed, Scanning

LEMMA NoScanIsScan == NoScan \in Scanning
<1>1. <<>> \in [{} -> Content]
  OBVIOUS
<1>2. NoScan.seen \in UNION {[S -> Content] : S \in SUBSET Path}
  BY <1>1 DEF NoScan
<1> QED
  BY <1>2 DEF NoScan, Scanning, Dir

\* A file that was read is seen.
LEMMA SeenGrows ==
  ASSUME NEW seen \in UNION {[S -> Content] : S \in SUBSET Path}, NEW p \in Path, NEW c \in Content
  PROVE  Seeing(seen, p, c) \in UNION {[S -> Content] : S \in SUBSET Path}
<1>1. PICK S \in SUBSET Path : seen \in [S -> Content]
  OBVIOUS
<1>2. Seeing(seen, p, c) \in [S \cup {p} -> Content]
  BY <1>1 DEF Seeing
<1> QED
  BY <1>2

LEMMA ScanMovesOn ==
  ASSUME StashTypeOK, ScanStarts \/ ScanWalks \/ ScanReads
  PROVE  StashTypeOK'
<1>1. scan' \in Scanning
  <2>1. CASE ScanStarts
    BY <2>1, ListedIsScan, StashAssumption DEF ScanStarts
  <2>2. CASE ScanWalks
    <3>1. scan.left \in SUBSET Root
      BY DEF StashTypeOK, Scanning
    <3> QED
      BY <2>2, <3>1, ListedIsScan, NoScanIsScan DEF ScanWalks
  <2>3. CASE ScanReads
    <3>1. PICK p \in scan.todo :
            scan' = [scan EXCEPT !.todo = @ \ {p},
                       !.seen = IF Has(<<scan.root, p>>) THEN Seeing(@, p, disk[<<scan.root, p>>])
                                ELSE @]
      BY <2>3 DEF ScanReads
    <3>2. /\ scan \in Scanning /\ scan.todo \in SUBSET Path /\ scan.root \in Dir
          /\ scan.seen \in UNION {[S -> Content] : S \in SUBSET Path}
      BY DEF StashTypeOK, Scanning
    <3>3. disk[<<scan.root, p>>] \in Content
      BY <3>2 DEF StashTypeOK, Place
    <3>4. PICK s \in UNION {[S -> Content] : S \in SUBSET Path} :
            s = IF Has(<<scan.root, p>>) THEN Seeing(scan.seen, p, disk[<<scan.root, p>>]) ELSE scan.seen
      BY <3>2, <3>3, SeenGrows
    <3>5. scan' = [scan EXCEPT !.todo = scan.todo \ {p}, !.seen = s]
      BY <3>1, <3>4
    <3> QED
      BY <3>2, <3>4, <3>5 DEF Scanning
  <2> QED
    BY <2>1, <2>2, <2>3
<1> QED
  BY <1>1 DEF StashTypeOK, ScanStarts, ScanWalks, ScanReads, libraryVars, past, LiveRows, NoEvent

LEMMA ScansKeep ==
  ASSUME CoreInv, ScanStarts \/ ScanWalks \/ ScanReads
  PROVE  CoreInv' /\ (OrderInv => OrderInv')
<1>1. UNCHANGED <<disk, row, coll, task, hands, crossed>>
  BY DEF ScanStarts, ScanWalks, ScanReads, libraryVars, past
<1> QED
  BY <1>1, ScanMovesOn, SameRowsIfSame, QuietKeeps DEF CoreInv

\* A new hash leaves a row its place and its bytes.
LEMMA RehashedRow ==
  ASSUME NEW x \in RowData, NEW h \in Content
  PROVE  /\ [x EXCEPT !.hash = h] \in RowData
         /\ [x EXCEPT !.hash = h].path = x.path /\ [x EXCEPT !.hash = h].of = x.of
         /\ [x EXCEPT !.hash = h].by = x.by
BY DEF RowData

Rehashed == \A r \in Row : \/ row'[r] = row[r]
                           \/ r \in LiveRows /\ \E h \in Content : row'[r] = [row[r] EXCEPT !.hash = h]

LEMMA RehashedKeep ==
  ASSUME StashTypeOK, row' \in [Row -> {row'[r] : r \in Row}], Rehashed, UNCHANGED coll
  PROVE  row' \in [Row -> {NoRow} \cup RowData] /\ SameRows
<1>1. ASSUME NEW r \in Row
      PROVE  /\ row'[r] \in {NoRow} \cup RowData
             /\ row'[r] = NoRow <=> row[r] = NoRow
             /\ r \in LiveRows => row'[r].path = row[r].path /\ row'[r].of = row[r].of
                                  /\ row'[r].by = row[r].by
  <2>1. CASE row'[r] = row[r]
    BY <2>1 DEF StashTypeOK
  <2>2. CASE r \in LiveRows /\ \E h \in Content : row'[r] = [row[r] EXCEPT !.hash = h]
    <3>1. PICK h \in Content : row'[r] = [row[r] EXCEPT !.hash = h]
      BY <2>2
    <3>2. row[r] \in RowData /\ row[r] # NoRow
      BY <2>2, RowFacts DEF LiveRows
    <3> QED
      BY <3>1, <3>2, RehashedRow, StashAssumption
  <2> QED
    BY <2>1, <2>2 DEF Rehashed
<1>2. row' \in [Row -> {NoRow} \cup RowData]
  BY <1>1
<1>3. LiveRows' = LiveRows
  BY <1>1 DEF LiveRows
<1>4. \A r \in LiveRows : PlaceOf(r)' = PlaceOf(r)
  BY <1>1 DEF PlaceOf, RootFor, LiveRows
<1> QED
  BY <1>1, <1>2, <1>3, <1>4 DEF SameRows, LiveRows

LEMMA ScanAppliesKeeps ==
  ASSUME CoreInv, ScanApplies
  PROVE  CoreInv' /\ (OrderInv => OrderInv')
<1>0. StashTypeOK
  BY DEF CoreInv
<1>1. PICK live \in SUBSET RowsIn(scan.root) :
        /\ missing' \in [Loot -> BOOLEAN]
        /\ row' = [r \in Row |-> IF r \in live /\ [q \in live |-> Verdict(q, scan.seen)][r] = "changed"
                                   THEN [row[r] EXCEPT !.hash = scan.seen[row[r].path]]
                                   ELSE row[r]]
  BY DEF ScanApplies
<1>2. Rehashed
  <2> SUFFICES ASSUME NEW r \in Row, row'[r] # row[r]
               PROVE  r \in LiveRows /\ \E h \in Content : row'[r] = [row[r] EXCEPT !.hash = h]
    BY DEF Rehashed
  <2>1. r \in live /\ Verdict(r, scan.seen) = "changed"
    BY <1>1
  <2>2. r \in LiveRows
    BY <2>1 DEF RowsIn
  <2>3. row[r].path \in DOMAIN scan.seen
    BY <2>1 DEF Verdict
  <2>4. PICK S \in SUBSET Path : scan.seen \in [S -> Content]
    BY <1>0 DEF StashTypeOK, Scanning
  <2>5. scan.seen[row[r].path] \in Content
    BY <2>3, <2>4
  <2>6. row'[r] = [row[r] EXCEPT !.hash = scan.seen[row[r].path]]
    BY <1>1, <2>1
  <2> QED
    BY <2>2, <2>5, <2>6
<1>3. UNCHANGED <<disk, coll, tpl, task, waiting, reach, noted, event, hands, crossed>>
  BY DEF ScanApplies, past
<1>4. row' \in [Row -> {row'[r] : r \in Row}]
  BY <1>1
<1>5. row' \in [Row -> {NoRow} \cup RowData] /\ SameRows
  BY <1>0, <1>2, <1>3, <1>4, RehashedKeep
<1>6. scan' \in Scanning
  <2>1. scan.left \in SUBSET Root
    BY <1>0 DEF StashTypeOK, Scanning
  <2>2. scan' = NoScan \/ scan' = [NoScan EXCEPT !.left = scan.left, !.at = "walk"]
    BY DEF ScanApplies
  <2> QED
    BY <2>1, <2>2, NoScanIsScan DEF Scanning
<1>7. StashTypeOK'
  BY <1>0, <1>1, <1>3, <1>5, <1>6 DEF StashTypeOK, SameRows, NoEvent
<1> QED
  BY <1>3, <1>5, <1>7, QuietKeeps

LEMMA EventsKeep ==
  ASSUME CoreInv, Events
  PROVE  CoreInv' /\ (OrderInv => OrderInv')
<1>0. StashTypeOK
  BY DEF CoreInv
<1>1. CASE EventUnlinks \/ EventReads
  <2>1. UNCHANGED <<disk, row, coll, tpl, task, waiting, reach, scan, hands, crossed>>
    BY <1>1 DEF EventUnlinks, EventReads, libraryVars, past
  <2>2. noted' \in [Place -> {"none", "unlink", "change"}]
    BY <1>0, <1>1 DEF EventUnlinks, EventReads, StashTypeOK
  <2>3. missing' \in [Loot -> BOOLEAN]
    BY <1>0, <1>1 DEF EventUnlinks, EventReads, StashTypeOK
  <2>4. event' \in {NoEvent} \cup [place : Place, saw : Content]
    BY <1>0, <1>1 DEF EventUnlinks, EventReads, StashTypeOK
  <2>5. StashTypeOK'
    BY <1>0, <2>1, <2>2, <2>3, <2>4 DEF StashTypeOK, LiveRows, NoEvent
  <2> QED
    BY <2>1, <2>5, SameRowsIfSame, QuietKeeps
<1>2. CASE EventApplies
  <2>1. UNCHANGED <<disk, coll, tpl, task, waiting, reach, missing, scan, noted, hands, crossed>>
        /\ event' = NoEvent
    BY <1>2 DEF EventApplies, past
  <2>2. event.saw \in Content
    BY <1>0, <1>2 DEF StashTypeOK, EventApplies
  <2>3. row' \in [Row -> {row'[r] : r \in Row}] /\ Rehashed
    <3>1. \/ row' = row
          \/ \E r \in LiveRows : row' = [row EXCEPT ![r] = [row[r] EXCEPT !.hash = event.saw]]
      BY <1>2 DEF EventApplies, RowsIn
    <3>2. CASE row' = row
      BY <1>0, <3>2 DEF StashTypeOK, Rehashed
    <3>3. CASE \E r \in LiveRows : row' = [row EXCEPT ![r] = [row[r] EXCEPT !.hash = event.saw]]
      <4>1. PICK r \in LiveRows : row' = [row EXCEPT ![r] = [row[r] EXCEPT !.hash = event.saw]]
        BY <3>3
      <4>2. r \in Row /\ DOMAIN row = Row
        BY <1>0, RowFacts DEF StashTypeOK
      <4> QED
        BY <2>2, <4>1, <4>2 DEF Rehashed
    <3> QED
      BY <3>1, <3>2, <3>3
  <2>4. row' \in [Row -> {NoRow} \cup RowData] /\ SameRows
    BY <1>0, <2>1, <2>3, RehashedKeep
  <2>5. StashTypeOK'
    BY <1>0, <2>1, <2>4 DEF StashTypeOK, SameRows, NoEvent
  <2> QED
    BY <2>1, <2>4, <2>5, QuietKeeps
<1> QED
  BY <1>1, <1>2 DEF Events

LEMMA MountsKeep ==
  ASSUME CoreInv, Dismiss \/ Unmounts \/ Mounts
  PROVE  CoreInv' /\ (OrderInv => OrderInv')
<1>0. StashTypeOK
  BY DEF CoreInv
<1>1. UNCHANGED <<disk, row, coll, tpl, task, missing, scan, noted, event, hands, crossed>>
  BY DEF Dismiss, Unmounts, Mounts, libraryVars, reconcilerVars, past
<1>2. waiting' \subseteq Path
  BY <1>0 DEF Dismiss, Unmounts, Mounts, StashTypeOK
<1>3. reach' \in [Dir -> BOOLEAN]
  BY <1>0 DEF Dismiss, Unmounts, Mounts, StashTypeOK
<1>4. StashTypeOK'
  BY <1>0, <1>1, <1>2, <1>3 DEF StashTypeOK, LiveRows, NoEvent
<1> QED
  BY <1>1, <1>4, SameRowsIfSame, QuietKeeps

-----------------------------------------------------------------------------
(* People, and a crash *)

\* Steps of people: one file changes, no row and no run does.
LEMMA HandsFacts ==
  ASSUME StashTypeOK, People
  PROVE  \E p \in Place : \E c \in Content :
           /\ disk' = [disk EXCEPT ![p] = c]
           /\ UNCHANGED <<row, coll, tpl, task, waiting, reach, missing, scan, event, crossed>>
           /\ hands \subseteq hands' /\ hands' \subseteq Bytes
           /\ noted' \in [Place -> {"none", "unlink", "change"}]
           /\ \/ /\ c = Nothing /\ \A m \in Mover : p \notin InMove(m)
                 /\ disk[p] \in Bytes => disk[p] \in hands'
              \/ c = Other /\ p \in Root \X Path /\ disk[p] \in Bytes /\ disk[p] \in hands'
              \/ /\ c # Nothing /\ p \in Root \X Path /\ disk[p] = Nothing
                 /\ (c \in hands \/ c = Other) /\ hands' = hands
<1>0. hands \subseteq Bytes /\ disk \in [Place -> Content] /\ Root \X Path \subseteq Place
  BY Geography DEF StashTypeOK
<1>1. CASE Removes
  <2>1. PICK p \in Place : /\ Has(p) /\ \A m \in Mover : p \notin InMove(m)
                           /\ Hands(p, Nothing) /\ Touches(p) /\ noted' = Notes(p, "unlink")
    BY <1>1 DEF Removes
  <2>2. Nothing \in Content /\ hands' = hands \cup ({disk[p]} \cap Bytes)
    BY <2>1 DEF Content, Touches
  <2>3. noted' \in [Place -> {"none", "unlink", "change"}]
    BY <2>1, NotesAreTyped
  <2> QED
    BY <1>0, <2>1, <2>2, <2>3 DEF Hands, libraryVars
<1>2. CASE Rewrites
  <2>1. PICK p \in Root \X Path : /\ disk[p] \in Bytes
                                  /\ Hands(p, Other) /\ Touches(p) /\ noted' = Notes(p, "change")
    BY <1>2 DEF Rewrites
  <2>2. Other \in Content /\ hands' = hands \cup ({disk[p]} \cap Bytes) /\ p \in Place
    BY <1>0, <2>1 DEF Content, Touches
  <2>3. noted' \in [Place -> {"none", "unlink", "change"}]
    BY <2>1, <2>2, NotesAreTyped
  <2> QED
    BY <1>0, <2>1, <2>2, <2>3 DEF Hands, libraryVars
<1>3. CASE Drops
  <2>1. PICK p \in Root \X Path, c \in hands \cup {Other} :
          disk[p] = Nothing /\ Hands(p, c) /\ UNCHANGED hands /\ noted' = Notes(p, "none")
    BY <1>3 DEF Drops
  <2>2. c \in Content /\ c # Nothing /\ p \in Place
    BY <1>0, StashAssumption DEF Content
  <2>3. noted' \in [Place -> {"none", "unlink", "change"}]
    BY <2>1, <2>2, NotesAreTyped
  <2> QED
    BY <1>0, <2>1, <2>2, <2>3 DEF Hands, libraryVars
<1> QED
  BY <1>1, <1>2, <1>3 DEF People

LEMMA PeopleKeep ==
  ASSUME CoreInv, People
  PROVE  CoreInv' /\ (OrderInv => OrderInv')
<1>0. StashTypeOK
  BY DEF CoreInv
<1>1. PICK p \in Place, c \in Content :
           /\ disk' = [disk EXCEPT ![p] = c]
           /\ UNCHANGED <<row, coll, tpl, task, waiting, reach, missing, scan, event, crossed>>
           /\ hands \subseteq hands' /\ hands' \subseteq Bytes
           /\ noted' \in [Place -> {"none", "unlink", "change"}]
           /\ \/ /\ c = Nothing /\ \A m \in Mover : p \notin InMove(m)
                 /\ disk[p] \in Bytes => disk[p] \in hands'
              \/ c = Other /\ p \in Root \X Path /\ disk[p] \in Bytes /\ disk[p] \in hands'
              \/ /\ c # Nothing /\ p \in Root \X Path /\ disk[p] = Nothing
                 /\ (c \in hands \/ c = Other) /\ hands' = hands
  BY <1>0, HandsFacts
<1>2. disk'[p] = c /\ \A q \in Place \ {p} : disk'[q] = disk[q]
  BY <1>0, <1>1 DEF StashTypeOK
<1>3. StashTypeOK'
  BY <1>0, <1>1 DEF StashTypeOK, LiveRows, NoEvent
<1>4. SameRows /\ \A m \in Mover : RunOK(m)' /\ SorterGoesOn(m)
  <2>1. SameRows
    BY <1>1, SameRowsIfSame
  <2>2. ASSUME NEW m \in Mover PROVE RunOK(m)'
    BY <1>1, <2>1, RunStays DEF CoreInv, SameRows
  <2>3. ASSUME NEW m \in Mover PROVE SorterGoesOn(m)
    <3>1. Unfiled(m)' => Unfiled(m)
      BY <1>1 DEF Unfiled, Adopting, Sorting, Handles, At
    <3>2. Unfiled(m) => RowsOf(OwnLoot(m)) = {}
      BY DEF CoreInv, SortersOK, SorterOK
    <3>3. RowsOf(OwnLoot(m))' = RowsOf(OwnLoot(m)) /\ coll'[OwnLoot(m)] = coll[OwnLoot(m)]
      BY <1>1, <2>1 DEF SameRows, RowsOf, OwnLoot
    <3> QED
      BY <1>1, <3>1, <3>2, <3>3 DEF SorterGoesOn
  <2> QED
    BY <2>1, <2>2, <2>3
<1>5. SortersOK'
  BY <1>4, SortersStay DEF CoreInv
<1>6. InboxWhole'
  <2>1. p \in Root \X Path \/ c = Nothing
    BY <1>1
  <2>2. \A q \in Path : <<Inbox, q>> \in Place /\ (p \in Root \X Path => <<Inbox, q>> # p)
    BY Geography
  <2> QED
    BY <1>2, <2>1, <2>2 DEF CoreInv, InboxWhole
<1>7. ASSUME NEW m \in Mover
      PROVE  /\ Uses(m)' = Uses(m) /\ Makes(m)' = Makes(m) /\ Src(m)' = Src(m) /\ Dst(m)' = Dst(m)
             /\ At(m, "unlink")' = At(m, "unlink") /\ At(m, "commit")' = At(m, "commit")
             /\ Uses(m) => /\ Src(m) \in Place /\ Dst(m) \in Root \X Path /\ Dst(m) \in Place
                           /\ Src(m) # Dst(m) /\ InMove(m) = {Src(m), Dst(m)}
             /\ Makes(m) => Uses(m)
             /\ At(m, "commit") => Makes(m) /\ Uses(m)
  <2>1. Uses(m) => Handles(m) /\ InMove(m) = {Src(m), Dst(m)}
    BY DEF Uses, Handles, InMove, Src, Dst
  <2>2. Handles(m) => /\ Src(m) \in Place /\ Dst(m) \in Root \X Path /\ Dst(m) \in Place
                      /\ Src(m) # Dst(m)
    BY Geography DEF CoreInv, RunOK
  <2>3. /\ Uses(m)' = Uses(m) /\ Makes(m)' = Makes(m) /\ Src(m)' = Src(m) /\ Dst(m)' = Dst(m)
        /\ At(m, "unlink")' = At(m, "unlink") /\ At(m, "commit")' = At(m, "commit")
    BY <1>1 DEF Uses, Makes, Src, Dst, At
  <2>4. (Makes(m) => Uses(m)) /\ (At(m, "commit") => Makes(m))
    BY DEF Makes, Uses, At
  <2> QED
    BY <2>1, <2>2, <2>3, <2>4
<1>8. CrossInv'
  <2> SUFFICES ASSUME ~crossed PROVE HandsApart' /\ HandsFull' /\ BytesSafe'
    BY <1>1 DEF CrossInv
  <2>0. HandsApart /\ HandsFull /\ BytesSafe
    BY DEF CoreInv
  <2>1. HandsApart'
    BY <1>7, <2>0 DEF HandsApart
  <2>2. ASSUME NEW m \in Mover
        PROVE  /\ Uses(m) /\ Src(m)[1] \in Root => disk'[Src(m)] # Nothing
               /\ Makes(m) => disk'[Dst(m)] # Nothing
               /\ At(m, "commit") /\ disk'[Src(m)] \in Bytes \ hands' => disk'[Dst(m)] = disk'[Src(m)]
    <3>1. Other # Nothing /\ Other \notin Bytes /\ Nothing \notin Bytes
      BY StashAssumption
    <3>2. /\ Uses(m) /\ Src(m)[1] \in Root => disk[Src(m)] # Nothing
          /\ Makes(m) => disk[Dst(m)] # Nothing
          /\ At(m, "commit") /\ disk[Src(m)] \in Bytes \ hands => disk[Dst(m)] = disk[Src(m)]
      BY <2>0 DEF HandsFull
    <3>3. CASE c = Nothing /\ \A n \in Mover : p \notin InMove(n)
      BY <1>1, <1>2, <1>7, <3>2, <3>3
    <3>4. CASE c = Other /\ p \in Root \X Path /\ disk[p] \in Bytes /\ disk[p] \in hands'
      BY <1>1, <1>2, <1>7, <3>1, <3>2, <3>4
    <3>5. CASE c # Nothing /\ p \in Root \X Path /\ disk[p] = Nothing /\ hands' = hands
      <4>1. p[1] \in Root
        BY <3>5, Geography
      <4>2. Uses(m) => p # Src(m)
        BY <3>2, <3>5, <4>1
      <4>3. Makes(m) => p # Dst(m)
        BY <3>2, <3>5
      <4> QED
        BY <1>2, <1>7, <3>2, <3>5, <4>2, <4>3
    <3> QED
      BY <1>1, <3>3, <3>4, <3>5
  <2>3. HandsFull'
    BY <1>7, <2>2 DEF HandsFull
  <2>4. BytesSafe'
    <3> SUFFICES ASSUME NEW b \in Bytes \ hands' PROVE \E q \in Place : disk'[q] = b /\ Safe(q)'
      BY DEF BytesSafe
    <3>1. PICK q \in Place : disk[q] = b /\ Safe(q)
      BY <1>1, <2>0 DEF BytesSafe
    <3>2. q # p
      BY <1>1, <3>1, StashAssumption
    <3>3. Safe(q)'
      BY <1>7, <3>1 DEF Safe
    <3> QED
      BY <1>2, <3>1, <3>2, <3>3
  <2> QED
    BY <2>1, <2>3, <2>4
<1>9. ASSUME OrderInv PROVE OrderInv'
  <2> SUFFICES ASSUME Orderly' PROVE OrderInv'
    BY DEF OrderInv
  <2>1. hands' = {} /\ hands = {} /\ disk[p] \notin Bytes
    BY <1>1, StashAssumption DEF Orderly
  <2>2. Orderly
    BY <1>4, <2>1, OrderIsSame
  <2>3. ~crossed /\ FilesThere /\ RowsApart /\ NotFiledYet /\ LeftBehind /\ Fetched
        /\ \A m \in Mover : ClerkKnows(m)
    BY <1>9, <2>2 DEF OrderInv
  <2>4. \A m \in Mover : ClerkKnows(m)'
    BY <1>1, <1>4, <2>3, ClerkStays DEF CoreInv
  <2>5. /\ LiveRows' = LiveRows
        /\ \A r \in LiveRows : /\ PlaceOf(r)' = PlaceOf(r) /\ row'[r].of = row[r].of
                               /\ PlaceOf(r) \in Place
    BY <1>0, <1>4, RowFacts, Geography DEF SameRows
  <2>6. FilesThere'
    BY <1>2, <2>1, <2>3, <2>5 DEF FilesThere
  <2>7. RowsApart' /\ NotFiledYet' /\ LeftBehind'
    BY <1>7, <2>3, <2>5 DEF RowsApart, NotFiledYet, LeftBehind
  <2>8. Fetched'
    BY <1>2, <1>7, <2>1, <2>3 DEF Fetched
  <2> QED
    BY <1>1, <2>3, <2>4, <2>6, <2>7, <2>8 DEF OrderInv
<1> QED
  BY <1>3, <1>4, <1>5, <1>6, <1>8, <1>9 DEF CoreInv, CrossInv

\* Of runs, the rescan and noted events nothing survives.
LEMMA CrashKeeps ==
  ASSUME CoreInv, Crash
  PROVE  CoreInv' /\ (OrderInv => OrderInv')
<1>0. StashTypeOK
  BY DEF CoreInv
<1>1. /\ task' = [m \in Mover |-> Idle] /\ scan' = NoScan /\ event' = NoEvent
      /\ noted' = [p \in Place |-> "none"]
      /\ UNCHANGED <<disk, row, coll, tpl, waiting, reach, missing, hands, crossed>>
  BY DEF Crash, libraryVars, past
<1>2. Idle \in Runs
  BY DEF Idle, NoMove, Runs, FileJobs, Steps, RunKinds, Content
<1>3. StashTypeOK'
  BY <1>0, <1>1, <1>2, NoScanIsScan DEF StashTypeOK, LiveRows, NoEvent
<1>4. \A m \in Mover : task'[m] = Idle
  BY <1>1
<1>5. \A m \in Mover : RunOK(m)' /\ ~Unfiled(m)' /\ ~Uses(m)' /\ ~Makes(m)' /\ ~Handles(m)'
  BY <1>4, IdleIsOK
<1>6. SortersOK'
  BY <1>5, SortersStay DEF CoreInv, SorterGoesOn
<1>7. NoNewHands
  BY <1>5 DEF NoNewHands
<1>8. CrossInv'
  BY <1>1, <1>7, CrossStays DEF CoreInv, CrossInv
<1>9. \A m \in Mover : ClerkKnows(m)'
  <2>1. \A m \in Mover : ~At(m, "file")'
    BY <1>4 DEF At, Idle
  <2> QED
    BY <1>5, <2>1 DEF ClerkKnows
<1>10. OrderInv => OrderInv'
  BY <1>0, <1>1, <1>7, <1>9, SameRowsIfSame, OrderStays
<1> QED
  BY <1>1, <1>3, <1>5, <1>6, <1>8, <1>10 DEF CoreInv, CrossInv, InboxWhole

-----------------------------------------------------------------------------
(* A run goes on, and neither files nor the places of rows change *)

LEMMA RunsAreTyped ==
  ASSUME StashTypeOK, NEW m \in Mover, NEW new \in Runs, task' = [task EXCEPT ![m] = new]
  PROVE  task' \in [Mover -> Runs] /\ task'[m] = new /\ OthersStay(m)
BY DEF StashTypeOK, OthersStay

\* Nobody else's loot changes its collection.
OthersFiled(m) ==
  \A n \in Mover \ {m} : Unfiled(n) => coll'[OwnLoot(n)] = coll[OwnLoot(n)]
\* The loot a run of the inbox works for is nobody else's.
OwnApart(m) ==
  Unfiled(m)' => \A n \in Mover \ {m} : Unfiled(n) => OwnLoot(n) # OwnLoot(m)'

LEMMA SortersGoOn ==
  ASSUME CoreInv, NEW m \in Mover, OthersStay(m), SorterOK(m)', OwnApart(m), OthersFiled(m),
         \A n \in Mover \ {m} : Unfiled(n) => RowsOf(OwnLoot(n))' = {}
  PROVE  SortersOK'
<1>1. ASSUME NEW n \in Mover \ {m}
      PROVE  SorterOK(n)' /\ (Unfiled(n)' <=> Unfiled(n)) /\ OwnLoot(n)' = OwnLoot(n)
  <2>1. task'[n] = task[n] /\ SorterOK(n)
    BY DEF OthersStay, CoreInv, SortersOK
  <2>2. (Unfiled(n)' <=> Unfiled(n)) /\ OwnLoot(n)' = OwnLoot(n)
    BY <2>1 DEF Unfiled, Adopting, Sorting, Handles, At, OwnLoot
  <2>3. SorterGoesOn(n)
    BY <2>1, <2>2 DEF SorterGoesOn, OthersFiled
  <2> QED
    BY <2>1, <2>2, <2>3, SorterStays
<1>2. \A n \in Mover : SorterOK(n)'
  BY <1>1
<1>3. LootsApart'
  <2>1. LootsApart
    BY DEF CoreInv, SortersOK
  <2>2. SUFFICES ASSUME NEW n \in Mover, NEW o \in Mover, n # o, Unfiled(n)', Unfiled(o)'
                 PROVE  OwnLoot(n)' # OwnLoot(o)'
    BY DEF LootsApart
  <2>3. CASE n # m /\ o # m
    BY <1>1, <2>1, <2>2, <2>3 DEF LootsApart
  <2>4. CASE n = m
    BY <1>1, <2>2, <2>4 DEF OwnApart
  <2>5. CASE o = m
    BY <1>1, <2>2, <2>5 DEF OwnApart
  <2> QED
    BY <2>3, <2>4, <2>5
<1> QED
  BY <1>2, <1>3 DEF SortersOK

LEMMA MoverKeeps ==
  ASSUME CoreInv, NEW m \in Mover, StashTypeOK', SameRows, OthersStay(m),
         UNCHANGED <<disk, hands, crossed>>, RunOK(m)',
         Uses(m)' => task'[m].at = task[m].at /\ task'[m].job = task[m].job,
         SorterOK(m)', OwnApart(m), OthersFiled(m),
         OrderInv /\ Orderly => ClerkKnows(m)'
  PROVE  CoreInv' /\ (OrderInv => OrderInv')
<1>1. ASSUME NEW n \in Mover PROVE RunOK(n)'
  <2>1. CASE n = m
    BY <2>1
  <2>2. CASE n # m
    BY <2>2, RunStays DEF CoreInv, SameRows, OthersStay
  <2> QED
    BY <2>1, <2>2
<1>2. SortersOK'
  <2>1. \A n \in Mover \ {m} : Unfiled(n) => RowsOf(OwnLoot(n)) = {}
    BY DEF CoreInv, SortersOK, SorterOK
  <2>2. \A n \in Mover \ {m} : OwnLoot(n)' = OwnLoot(n)
    BY DEF OwnLoot, OthersStay
  <2>3. \A n \in Mover \ {m} : RowsOf(OwnLoot(n))' = RowsOf(OwnLoot(n))
    BY <2>2 DEF RowsOf, SameRows
  <2> QED
    BY <2>1, <2>3, SortersGoOn
<1>3. NoNewHands
  <2>1. \A n \in Mover : n # m => task'[n] = task[n]
    BY DEF OthersStay
  <2> QED
    BY <2>1 DEF NoNewHands
<1>4. CrossInv'
  BY <1>3, CrossStays DEF CoreInv, CrossInv
<1>5. OrderInv => OrderInv'
  <2>1. OrderInv /\ Orderly => \A n \in Mover \ {m} : ClerkKnows(n)'
    BY ClerkStays DEF OrderInv, CoreInv, OthersStay
  <2> QED
    BY <1>3, <2>1, OrderStays DEF CoreInv
<1>6. InboxWhole'
  BY DEF CoreInv, InboxWhole
<1> QED
  BY <1>1, <1>2, <1>4, <1>5, <1>6 DEF CoreInv, CrossInv

\* A file that is done with, one way or the other.
LEMMA FileDone ==
  ASSUME CoreInv, NEW m \in Mover, Handles(m) \/ Sorting(m), NEW ok \in BOOLEAN,
         task' = AfterFile(m, ok), LiveRows \subseteq LiveRows'
  PROVE  /\ task' \in [Mover -> Runs] /\ OthersStay(m) /\ RunOK(m)'
         /\ ~Uses(m)' /\ ~Unfiled(m)'
         /\ ClerkKnows(m) => ClerkKnows(m)'
<1>0. StashTypeOK /\ RunOK(m)
  BY DEF CoreInv
<1>1. CASE Adopting(m)
  <2>1. Idle \in Runs
    BY DEF Idle, NoMove, Runs, FileJobs, Steps, RunKinds, Content
  <2>2. task' = [task EXCEPT ![m] = Idle]
    BY <1>1 DEF AfterFile, Adopting
  <2>3. task' \in [Mover -> Runs] /\ task'[m] = Idle /\ OthersStay(m)
    BY <1>0, <2>1, <2>2, RunsAreTyped
  <2>4. ~At(m, "file")'
    BY <2>3 DEF At, Idle
  <2> QED
    BY <2>3, <2>4, IdleIsOK DEF ClerkKnows
<1>2. CASE ~Adopting(m)
  <2>1. Handles(m)
    BY <1>0, <1>2 DEF RunOK
  <2>2. PICK new \in Runs : /\ task' = [task EXCEPT ![m] = new]
                            /\ new.at = IF task[m].jobs = {} THEN "batch" ELSE "file"
                            /\ new.kind = task[m].kind /\ new.jobs = task[m].jobs
                            /\ new.left = task[m].left /\ new.to = task[m].to /\ new.tpl = task[m].tpl
    <3> DEFINE t == task[m]
               n == [t EXCEPT !.at = IF t.jobs = {} THEN "batch" ELSE "file", !.job = NoMove,
                              !.flipped = @ \/ ok, !.moved = @ \/ ok]
    <3>1. task' = [task EXCEPT ![m] = n]
      BY <1>2 DEF AfterFile, Adopting
    <3>2. t \in Runs /\ NoMove \in FileJobs
      BY <1>0 DEF StashTypeOK, NoMove, FileJobs, Content
    <3>3. /\ n \in Runs /\ n.at = (IF t.jobs = {} THEN "batch" ELSE "file")
          /\ n.kind = t.kind /\ n.jobs = t.jobs
          /\ n.left = t.left /\ n.to = t.to /\ n.tpl = t.tpl
      BY <3>2 DEF Runs, Steps
    <3> QED
      BY <3>1, <3>3
  <2>3. task' \in [Mover -> Runs] /\ task'[m] = new /\ OthersStay(m)
    BY <1>0, <2>2, RunsAreTyped
  <2>4. new.kind \in RunKinds \ Adopts
    BY <1>0, <1>2, <2>1, <2>2, RunFacts DEF RunOK, Adopting
  <2>5. new.at \in {"batch", "file"}
    BY <2>2
  <2>6. m \in Clerk
    BY <1>0, <1>2, <2>1 DEF RunOK, Handles
  <2>7. RunOK(m)'
    BY <1>0, <2>2, <2>3, <2>4, <2>5, <2>6
       DEF RunOK, Handles, Sorting, Adopting, Adopts, OneLoot
  <2>8. ~Uses(m)' /\ ~Unfiled(m)' /\ ~Handles(m)'
    BY <2>3, <2>5 DEF Uses, Unfiled, Handles, Sorting
  <2>9. ClerkKnows(m) => ClerkKnows(m)'
    BY <1>2, <2>1, <2>2, <2>3, <2>8 DEF ClerkKnows, At
  <2> QED
    BY <2>3, <2>7, <2>8, <2>9
<1> QED
  BY <1>1, <1>2

LEMMA WaitsAreTyped ==
  ASSUME CoreInv, NEW m \in Mover, Handles(m) \/ Sorting(m), NEW failed \in BOOLEAN
  PROVE  WaitsIf(m, failed) \subseteq Path
<1>1. waiting \subseteq Path /\ InboxPath(m) \in Path
  BY Geography DEF CoreInv, StashTypeOK, RunOK, InboxPath, Src
<1> QED
  BY <1>1 DEF WaitsIf

\* A file that fails before anything was done about it.
LEMMA FailKeeps ==
  ASSUME CoreInv, NEW m \in Mover, Handles(m) \/ Sorting(m), FileFails(m),
         UNCHANGED <<disk, libraryVars, reach, reconcilerVars, past>>
  PROVE  CoreInv' /\ (OrderInv => OrderInv')
<1>0. StashTypeOK
  BY DEF CoreInv
<1>1. UNCHANGED <<disk, row, coll, tpl, reach, missing, scan, noted, event, hands, crossed>>
      /\ task' = AfterFile(m, FALSE) /\ waiting' = WaitsIf(m, TRUE)
  BY DEF FileFails, libraryVars, reconcilerVars, past
<1>2. LiveRows' = LiveRows /\ SameRows
  BY <1>1, SameRowsIfSame DEF LiveRows
<1>3. /\ task' \in [Mover -> Runs] /\ OthersStay(m) /\ RunOK(m)'
      /\ ~Uses(m)' /\ ~Unfiled(m)'
      /\ ClerkKnows(m) => ClerkKnows(m)'
  BY <1>1, <1>2, FileDone
<1>4. waiting' \subseteq Path
  BY <1>1, WaitsAreTyped
<1>5. StashTypeOK'
  BY <1>0, <1>1, <1>2, <1>3, <1>4 DEF StashTypeOK, NoEvent
<1>6. SorterOK(m)' /\ OwnApart(m) /\ OthersFiled(m)
  BY <1>1, <1>3 DEF SorterOK, OwnApart, OthersFiled
<1>7. OrderInv /\ Orderly => ClerkKnows(m)'
  BY <1>3 DEF OrderInv
<1> QED
  BY <1>1, <1>2, <1>3, <1>5, <1>6, <1>7, MoverKeeps

\* A step of a run that changes nothing but the run.
LEMMA RunGoesOn ==
  ASSUME CoreInv, NEW m \in Mover, NEW new \in Runs, task' = [task EXCEPT ![m] = new],
         UNCHANGED <<disk, row, coll, waiting, reach, reconcilerVars, past>>,
         tpl' \in [Collection -> Template],
         RunOK(m)', Uses(m)' => new.at = task[m].at /\ new.job = task[m].job,
         SorterOK(m)', OwnApart(m), OrderInv /\ Orderly => ClerkKnows(m)'
  PROVE  CoreInv' /\ (OrderInv => OrderInv')
<1>0. StashTypeOK
  BY DEF CoreInv
<1>1. UNCHANGED <<disk, row, coll, waiting, reach, missing, scan, noted, event, hands, crossed>>
  BY DEF reconcilerVars, past
<1>2. LiveRows' = LiveRows /\ SameRows
  BY <1>1, SameRowsIfSame DEF LiveRows
<1>3. task' \in [Mover -> Runs] /\ task'[m] = new /\ OthersStay(m)
  BY <1>0, RunsAreTyped
<1>4. StashTypeOK'
  BY <1>0, <1>1, <1>2, <1>3 DEF StashTypeOK, NoEvent
<1>5. OthersFiled(m)
  BY <1>1 DEF OthersFiled
<1> QED
  BY <1>1, <1>2, <1>3, <1>4, <1>5, MoverKeeps

\* A restructure begins: its batches are rows of one loot each.
LEMMA StartsKeep ==
  ASSUME CoreInv, NEW m \in Mover, m \in Clerk, NEW kind \in RunKinds \ Adopts,
         NEW c \in Collection \cup {NoColl}, NEW t \in Template \cup {NoStem}, NEW batches,
         \A b \in batches : b # {} /\ b \subseteq LiveRows /\ OneLoot(b),
         kind \in {"move", "migrate"} => c \in Collection,
         kind \in {"template", "migrate"} => t \in Template,
         Starts(m, kind, c, t, batches)
  PROVE  CoreInv' /\ (OrderInv => OrderInv')
<1>1. batches \in SUBSET SUBSET Row
  BY DEF LiveRows
<1>2. PICK new \in Runs : /\ task' = [task EXCEPT ![m] = new]
                          /\ new.at = "batch" /\ new.kind = kind /\ new.to = c /\ new.tpl = t
                          /\ new.left = batches /\ new.jobs = {}
  <2> DEFINE n == [Idle EXCEPT !.at = "batch", !.kind = kind, !.to = c, !.tpl = t, !.left = batches]
  <2>1. task' = [task EXCEPT ![m] = n]
    BY DEF Starts
  <2>2. Idle \in Runs /\ Idle.jobs = {}
    BY DEF Idle, NoMove, Runs, FileJobs, Steps, RunKinds, Content
  <2>3. /\ n \in Runs /\ n.at = "batch" /\ n.kind = kind /\ n.to = c /\ n.tpl = t
        /\ n.left = batches /\ n.jobs = Idle.jobs
    BY <1>1, <2>2 DEF Runs, Steps
  <2> QED
    BY <2>1, <2>2, <2>3
<1>3. task'[m] = new
  BY <1>2, RunsAreTyped DEF CoreInv
<1>4. RunOK(m)'
  <2>1. LiveRows' = LiveRows
    BY DEF Starts, libraryVars, LiveRows
  <2> QED
    BY <1>2, <1>3, <2>1 DEF RunOK, Handles, Sorting, Adopting, Adopts, OneLoot
<1>5. ~Uses(m)' /\ ~Unfiled(m)' /\ ClerkKnows(m)'
  BY <1>2, <1>3 DEF Uses, Unfiled, Adopting, Adopts, ClerkKnows, At, Handles
<1>6. SorterOK(m)' /\ OwnApart(m)
  BY <1>5 DEF SorterOK, OwnApart
<1>7. UNCHANGED <<disk, row, coll, waiting, reach, reconcilerVars, past>>
      /\ tpl' \in [Collection -> Template]
  BY DEF Starts, libraryVars, CoreInv, StashTypeOK
<1> QED
  BY <1>2, <1>4, <1>5, <1>6, <1>7, RunGoesOn

LEMMA BeginsKeep ==
  ASSUME CoreInv, NEW m \in Clerk, MoveStarts(m) \/ TemplateStarts(m) \/ MigrationStarts(m)
  PROVE  CoreInv' /\ (OrderInv => OrderInv')
<1>0. m \in Mover
  BY DEF Mover
<1>1. \A ls : (\A l \in ls : RowsOf(l) # {}) =>
        \A b \in Batches(ls) : b # {} /\ b \subseteq LiveRows /\ OneLoot(b)
  BY DEF Batches, RowsOf, OneLoot
<1>2. CASE MoveStarts(m)
  <2>1. PICK c \in Collection, ls \in SUBSET Filed :
          Starts(m, "move", c, NoStem, Batches(MoveReady(c, ls)))
    BY <1>2 DEF MoveStarts
  <2>2. \A l \in MoveReady(c, ls) : RowsOf(l) # {}
    BY DEF MoveReady, Ready
  <2>3. \A b \in Batches(MoveReady(c, ls)) : b # {} /\ b \subseteq LiveRows /\ OneLoot(b)
    BY <1>1, <2>2
  <2>4. "move" \in RunKinds \ Adopts
    BY DEF RunKinds, Adopts
  <2> QED
    BY <1>0, <2>1, <2>3, <2>4, StartsKeep
<1>3. CASE TemplateStarts(m)
  <2>1. PICK t \in Template, ls \in SUBSET Filed :
          Starts(m, "template", NoColl, t, Batches(TemplateReady(t, ls)))
    BY <1>3 DEF TemplateStarts
  <2>2. \A l \in TemplateReady(t, ls) : RowsOf(l) # {}
    BY DEF TemplateReady, Ready
  <2>3. \A b \in Batches(TemplateReady(t, ls)) : b # {} /\ b \subseteq LiveRows /\ OneLoot(b)
    BY <1>1, <2>2
  <2>4. "template" \in RunKinds \ Adopts
    BY DEF RunKinds, Adopts
  <2> QED
    BY <1>0, <2>1, <2>3, <2>4, StartsKeep
<1>4. CASE MigrationStarts(m)
  <2>1. PICK t \in Template, c \in Collection :
          Starts(m, "migrate", c, t, {{r} : r \in MigrationReady(t, c)})
    BY <1>4 DEF MigrationStarts
  <2>2. MigrationReady(t, c) \subseteq LiveRows
    BY DEF MigrationReady, Ready
  <2>3. \A b \in {{r} : r \in MigrationReady(t, c)} : b # {} /\ b \subseteq LiveRows /\ OneLoot(b)
    BY <2>2 DEF OneLoot
  <2>4. "migrate" \in RunKinds \ Adopts
    BY DEF RunKinds, Adopts
  <2> QED
    BY <1>0, <2>1, <2>3, <2>4, StartsKeep
<1> QED
  BY <1>2, <1>3, <1>4

LEMMA FinishKeeps ==
  ASSUME CoreInv, NEW m \in Mover, Finish(m)
  PROVE  CoreInv' /\ (OrderInv => OrderInv')
<1>0. StashTypeOK /\ RunOK(m)
  BY DEF CoreInv
<1>1. Idle \in Runs
  BY DEF Idle, NoMove, Runs, FileJobs, Steps, RunKinds, Content
<1>2. task' = [task EXCEPT ![m] = Idle] /\ UNCHANGED <<disk, row, coll, waiting, reach, reconcilerVars, past>>
  BY DEF Finish
<1>3. task'[m] = Idle
  BY <1>0, <1>1, <1>2, RunsAreTyped
<1>4. RunOK(m)' /\ ~Unfiled(m)' /\ ~Uses(m)' /\ ~Handles(m)'
  BY <1>3, IdleIsOK
<1>5. SorterOK(m)' /\ OwnApart(m) /\ ClerkKnows(m)'
  BY <1>3, <1>4 DEF SorterOK, OwnApart, ClerkKnows, At, Idle
<1>6. tpl' \in [Collection -> Template]
  <2>1. tpl \in [Collection -> Template]
    BY <1>0 DEF StashTypeOK
  <2>2. task[m].kind = "migrate" => task[m].tpl \in Template
    BY <1>0 DEF RunOK
  <2> QED
    BY <2>1, <2>2 DEF Finish
<1> QED
  BY <1>1, <1>2, <1>4, <1>5, <1>6, RunGoesOn

\* The run goes on with its work: what it may be in the middle of then.
LEMMA WorkGoesOn ==
  ASSUME NEW m \in Mover, RunOK(m), task[m].at # "idle", LiveRows \subseteq LiveRows',
         NEW new, task'[m] = new, new.at \in {"check", "link", "copy", "commit", "unlink"},
         new.kind = task[m].kind, new.to = task[m].to, new.tpl = task[m].tpl,
         new.left = task[m].left, new.jobs \subseteq task[m].jobs,
         new.kind # "none", new.job.row \in Row,
         new.job.src \in Place, new.job.dst \in Root \X Path, new.job.src # new.job.dst,
         Adopting(m) => new.job.src[1] = Inbox,
         ~Adopting(m) => new.job.src[1] \in Root /\ new.job.row \in LiveRows
  PROVE  RunOK(m)'
<1>1. Adopting(m)' <=> Adopting(m)
  BY DEF Adopting
<1>2. Handles(m)' => /\ task'[m].job.row \in Row /\ Src(m)' \in Place
                     /\ Dst(m)' \in Root \X Path /\ Src(m)' # Dst(m)'
                     /\ task'[m].kind # "none"
                     /\ IF Adopting(m)' THEN Src(m)'[1] = Inbox
                        ELSE Src(m)'[1] \in Root /\ task'[m].job.row \in LiveRows'
  BY <1>1 DEF Src, Dst
<1>3. ~Sorting(m)' /\ task'[m].at \notin {"place", "in place", "batch", "file"}
  BY DEF Sorting
<1>4. \A j \in task'[m].jobs : /\ j.row \in LiveRows' /\ j.src # j.dst
                               /\ {j.src, j.dst} \subseteq Root \X Path
  BY DEF RunOK
<1>5. \A b \in task'[m].left : b # {} /\ b \subseteq LiveRows' /\ OneLoot(b)
  BY DEF RunOK
<1>6. /\ task'[m].kind \in {"move", "migrate"} => task'[m].to \in Collection
      /\ task'[m].kind \in {"template", "migrate"} => task'[m].tpl \in Template
      /\ m \in IF Adopting(m)' THEN Sorter ELSE Clerk
  BY <1>1 DEF RunOK
<1> QED
  BY <1>2, <1>3, <1>4, <1>5, <1>6 DEF RunOK, OneLoot

LEMMA NextFileKeeps ==
  ASSUME CoreInv, NEW m \in Mover, NextFile(m)
  PROVE  CoreInv' /\ (OrderInv => OrderInv')
<1>0. StashTypeOK /\ RunOK(m) /\ task[m].at = "file" /\ task[m] \in Runs
  BY RunFacts DEF CoreInv, NextFile, At
<1>1. PICK j \in task[m].jobs :
        task' = [task EXCEPT ![m] = [task[m] EXCEPT !.jobs = task[m].jobs \ {j}, !.job = j,
                                                    !.at = "check"]]
  BY DEF NextFile
<1>2. PICK new \in Runs : /\ task' = [task EXCEPT ![m] = new]
                          /\ new.at = "check" /\ new.job = j /\ new.jobs = task[m].jobs \ {j}
                          /\ new.kind = task[m].kind /\ new.to = task[m].to
                          /\ new.tpl = task[m].tpl /\ new.left = task[m].left
                          /\ new.flipped = task[m].flipped
  <2> DEFINE n == [task[m] EXCEPT !.jobs = task[m].jobs \ {j}, !.job = j, !.at = "check"]
  <2>1. j \in FileJobs /\ task[m].jobs \ {j} \in SUBSET FileJobs
    BY <1>0, RunFacts
  <2>2. /\ n \in Runs /\ n.at = "check" /\ n.job = j /\ n.jobs = task[m].jobs \ {j}
        /\ n.kind = task[m].kind /\ n.to = task[m].to
        /\ n.tpl = task[m].tpl /\ n.left = task[m].left /\ n.flipped = task[m].flipped
    BY <1>0, <2>1 DEF Runs, Steps
  <2> QED
    BY <1>1, <2>2
<1>3. task'[m] = new
  BY <1>0, <1>2, RunsAreTyped
<1>4. UNCHANGED <<disk, row, coll, waiting, reach, reconcilerVars, past>>
      /\ tpl' \in [Collection -> Template]
  BY <1>0 DEF NextFile, libraryVars, StashTypeOK
<1>5. LiveRows' = LiveRows /\ \A r : PlaceOf(r)' = PlaceOf(r)
  BY <1>4 DEF LiveRows, PlaceOf, RootFor
<1>6. /\ ~Adopting(m) /\ task[m].kind \in RunKinds \ Adopts /\ m \in Clerk
      /\ j.row \in LiveRows /\ j.src # j.dst /\ {j.src, j.dst} \subseteq Root \X Path
  BY <1>0 DEF RunOK, Adopting
<1>7. RunOK(m)'
  <2>1. /\ j.row \in Row /\ j.src \in Place /\ j.dst \in Root \X Path /\ j.src[1] \in Root
    BY <1>6, Geography DEF LiveRows
  <2>2. new.kind # "none" /\ new.kind \notin Adopts
    BY <1>2, <1>6 DEF RunKinds
  <2> QED
    BY <1>0, <1>2, <1>3, <1>5, <1>6, <2>1, <2>2, WorkGoesOn DEF LiveRows
<1>8. ~Uses(m)' /\ ~Unfiled(m)'
  BY <1>2, <1>3, <1>6 DEF Uses, Unfiled, Adopting
<1>9. SorterOK(m)' /\ OwnApart(m)
  BY <1>8 DEF SorterOK, OwnApart
<1>10. OrderInv /\ Orderly => ClerkKnows(m)'
  <2> SUFFICES ASSUME ClerkKnows(m) PROVE ClerkKnows(m)'
    BY DEF OrderInv
  <2>1. /\ \A i \in task[m].jobs : JobFits(m, i)
        /\ \A i, k \in task[m].jobs : i = k
        /\ ~task[m].flipped
    BY <1>0, <1>6 DEF ClerkKnows, At
  <2>2. new.jobs = {} /\ ~new.flipped
    BY <1>2, <2>1
  <2>3. JobFits(m, task[m].job)'
    BY <1>2, <1>3, <1>4, <1>5, <2>1 DEF JobFits
  <2> QED
    BY <1>2, <1>3, <2>2, <2>3 DEF ClerkKnows, Handles, At
<1> QED
  BY <1>2, <1>4, <1>7, <1>8, <1>9, <1>10, RunGoesOn

\* What goes on with the file it has in hand.
LEMMA CheckKeeps ==
  ASSUME CoreInv, NEW m \in Mover, Check(m)
  PROVE  CoreInv' /\ (OrderInv => OrderInv')
<1>0. StashTypeOK /\ RunOK(m) /\ task[m].at = "check" /\ task[m] \in Runs /\ SorterOK(m) /\ Handles(m)
  BY RunFacts DEF CoreInv, Check, At, SortersOK, Handles
<1>1. CASE FileFails(m)
  BY <1>0, <1>1, FailKeeps DEF Check
<1>2. CASE Goes(m, "link") /\ UNCHANGED waiting
  <2>1. PICK new \in Runs : /\ task' = [task EXCEPT ![m] = new]
                            /\ new.at = "link" /\ new.job = task[m].job /\ new.jobs = task[m].jobs
                            /\ new.kind = task[m].kind /\ new.to = task[m].to
                            /\ new.tpl = task[m].tpl /\ new.left = task[m].left
                            /\ new.flipped = task[m].flipped
    <3> DEFINE n == [task[m] EXCEPT !.at = "link"]
    <3>1. task' = [task EXCEPT ![m] = n]
      BY <1>2 DEF Goes
    <3>2. /\ n \in Runs /\ n.at = "link" /\ n.job = task[m].job /\ n.jobs = task[m].jobs
          /\ n.kind = task[m].kind /\ n.to = task[m].to
          /\ n.tpl = task[m].tpl /\ n.left = task[m].left
          /\ n.flipped = task[m].flipped
      BY <1>0 DEF Runs, Steps
    <3> QED
      BY <3>1, <3>2
  <2>2. task'[m] = new
    BY <1>0, <2>1, RunsAreTyped
  <2>3. UNCHANGED <<disk, row, coll, waiting, reach, reconcilerVars, past>>
        /\ tpl' \in [Collection -> Template]
    BY <1>0, <1>2 DEF Check, libraryVars, StashTypeOK
  <2>4. LiveRows' = LiveRows /\ \A r : PlaceOf(r)' = PlaceOf(r)
    BY <2>3 DEF LiveRows, PlaceOf, RootFor
  <2>5. RunOK(m)'
    BY <1>0, <2>1, <2>2, <2>4, WorkGoesOn DEF RunOK, Src, Dst
  <2>6. ~Uses(m)' /\ (Unfiled(m)' <=> Unfiled(m)) /\ OwnLoot(m)' = OwnLoot(m)
    BY <1>0, <2>1, <2>2 DEF Uses, Unfiled, Adopting, Handles, Sorting, At, OwnLoot
  <2>7. SorterOK(m)'
    <3>1. RowsOf(OwnLoot(m))' = RowsOf(OwnLoot(m)) /\ coll'[OwnLoot(m)] = coll[OwnLoot(m)]
      BY <2>3, <2>4, <2>6 DEF RowsOf
    <3> QED
      BY <1>0, <2>1, <2>2, <2>6, <3>1 DEF SorterOK, Handles, At, Dst
  <2>8. OwnApart(m)
    BY <2>6 DEF OwnApart, CoreInv, SortersOK, LootsApart
  <2>9. ClerkKnows(m) => ClerkKnows(m)'
    BY <1>0, <2>1, <2>2, <2>3, <2>4 DEF ClerkKnows, Handles, Adopting, At, JobFits
  <2> QED
    BY <2>1, <2>3, <2>5, <2>6, <2>7, <2>8, <2>9, RunGoesOn DEF OrderInv
<1> QED
  BY <1>1, <1>2 DEF Check

-----------------------------------------------------------------------------
(* The inbox *)

\* A run of the inbox before it has a place to move its file to.
LEMMA SortIsOK ==
  ASSUME NEW m \in Mover, m \in Sorter,
         NEW new, task'[m] = new, new.at \in {"classify", "place", "in place"},
         new.kind \in Adopts,
         \A b \in new.left : b # {} /\ b \subseteq LiveRows' /\ OneLoot(b),
         \A j \in new.jobs : /\ j.row \in LiveRows' /\ j.src # j.dst
                             /\ {j.src, j.dst} \subseteq Root \X Path,
         new.at # "classify" => new.to \in Collection,
         new.job.row \in Row, new.job.src \in Place, new.job.src[1] = Inbox
  PROVE  RunOK(m)' /\ ~Uses(m)' /\ Unfiled(m)' /\ ~Handles(m)' /\ ClerkKnows(m)'
<1>1. Adopting(m)' /\ Sorting(m)' /\ ~Handles(m)' /\ ~Uses(m)'
  BY DEF Adopting, Sorting, Handles, Uses
<1>2. Unfiled(m)' /\ ClerkKnows(m)'
  BY <1>1 DEF Unfiled, ClerkKnows
<1>3. new.at \notin {"idle", "batch", "file"} /\ new.kind \notin {"move", "template", "migrate"}
  BY DEF Adopts
<1> QED
  BY <1>1, <1>2, <1>3 DEF RunOK, Src

LEMMA SortsKeep ==
  ASSUME CoreInv, NEW m \in Sorter, NEW kind \in Adopts, NEW p \in Path,
         NEW c \in Collection \cup {NoColl}, kind = "confirm" => c \in Collection,
         Sorts(m, kind, p, c)
  PROVE  CoreInv' /\ (OrderInv => OrderInv')
<1>0. StashTypeOK /\ m \in Mover
  BY DEF CoreInv, Mover
<1>1. PICK r \in Fresh : /\ r = CHOOSE q \in Fresh : TRUE
  BY DEF Sorts
<1>2. r \in Row /\ row[r] = NoRow /\ coll[LootOf[r]] = NoColl /\ ~InWork(LootOf[r])
  BY <1>1 DEF Fresh
<1>3. PICK new \in Runs : /\ task' = [task EXCEPT ![m] = new]
                          /\ new.at = IF kind = "triage" THEN "classify" ELSE "place"
                          /\ new.kind = kind /\ new.to = c /\ new.left = {} /\ new.jobs = {}
                          /\ new.job.row = r /\ new.job.src = <<Inbox, p>>
  <2> DEFINE j == [NoMove EXCEPT !.row = r, !.src = <<Inbox, p>>]
             n == [Idle EXCEPT !.at = IF kind = "triage" THEN "classify" ELSE "place",
                               !.kind = kind, !.to = c, !.job = j]
  <2>1. task' = [task EXCEPT ![m] = n]
    BY <1>1 DEF Sorts
  <2>2. Idle \in Runs /\ Idle.jobs = {} /\ Idle.left = {} /\ NoMove \in FileJobs
    BY DEF Idle, NoMove, Runs, FileJobs, Steps, RunKinds, Content
  <2>3. j \in FileJobs /\ j.row = r /\ j.src = <<Inbox, p>>
    BY <1>2, <2>2, Geography DEF FileJobs
  <2> HIDE DEF j
  <2>4. kind \in RunKinds
    BY DEF Adopts, RunKinds
  <2>5. /\ n \in Runs /\ n.at = (IF kind = "triage" THEN "classify" ELSE "place")
        /\ n.kind = kind /\ n.to = c /\ n.left = {} /\ n.jobs = {} /\ n.job = j
    BY <2>2, <2>3, <2>4 DEF Runs, Steps
  <2> QED
    BY <2>1, <2>3, <2>5
<1>4. task'[m] = new
  BY <1>0, <1>3, RunsAreTyped
<1>5. UNCHANGED <<disk, row, coll, waiting, reach, reconcilerVars, past>>
      /\ tpl' \in [Collection -> Template]
  BY <1>0 DEF Sorts, libraryVars, StashTypeOK
<1>6. new.at \in {"classify", "place"} /\ (new.at # "classify" => c \in Collection)
  BY <1>3 DEF Adopts
<1>7. <<Inbox, p>> \in Place /\ new.job.src[1] = Inbox
  BY <1>3, Geography
<1>8. RunOK(m)' /\ ~Uses(m)' /\ Unfiled(m)' /\ ~Handles(m)' /\ ClerkKnows(m)'
  BY <1>0, <1>2, <1>3, <1>4, <1>6, <1>7, SortIsOK
<1>9. OwnLoot(m)' = LootOf[r]
  BY <1>3, <1>4 DEF OwnLoot
<1>10. SorterOK(m)'
  <2>1. RowsOf(LootOf[r])' = {}
    BY <1>0, <1>2, <1>5 DEF RowsOf, LiveRows, StashTypeOK
  <2>2. RowsOf(OwnLoot(m))' = {} /\ coll'[OwnLoot(m)'] = NoColl
    BY <1>2, <1>5, <1>9, <2>1
  <2>3. ~At(m, "in place")'
    BY <1>4, <1>6 DEF At
  <2> QED
    BY <1>8, <2>2, <2>3 DEF SorterOK
<1>11. OwnApart(m)
  <2> SUFFICES ASSUME NEW n \in Mover, Unfiled(n) PROVE OwnLoot(n) # LootOf[r]
    BY <1>9 DEF OwnApart
  <2>1. RunOK(n)
    BY DEF CoreInv
  <2>2. Adopting(n) /\ task[n].at # "idle"
    BY DEF Unfiled, Sorting, Handles
  <2>3. n \in Sorter
    BY <2>1, <2>2 DEF RunOK
  <2>4. task[n].job.row \in Row
    BY <2>1 DEF RunOK, Unfiled
  <2> QED
    BY <1>2, <2>3, <2>4 DEF InWork, OwnLoot
<1> QED
  BY <1>0, <1>3, <1>5, <1>8, <1>10, <1>11, RunGoesOn

LEMMA ClassifyKeeps ==
  ASSUME CoreInv, NEW m \in Mover, Classify(m)
  PROVE  CoreInv' /\ (OrderInv => OrderInv')
<1>0. /\ StashTypeOK /\ RunOK(m) /\ task[m].at = "classify" /\ task[m] \in Runs /\ SorterOK(m)
      /\ Sorting(m)
  BY RunFacts DEF CoreInv, Classify, At, SortersOK, Sorting
<1>1. CASE FileFails(m)
  BY <1>0, <1>1, FailKeeps DEF Classify
<1>2. CASE UNCHANGED waiting /\ \E c \in Collection :
             task' = [task EXCEPT ![m] = [task[m] EXCEPT !.to = c, !.at = "place"]]
  <2>1. PICK c \in Collection :
               task' = [task EXCEPT ![m] = [task[m] EXCEPT !.to = c, !.at = "place"]]
    BY <1>2
  <2>2. PICK new \in Runs : /\ task' = [task EXCEPT ![m] = new]
                            /\ new.at = "place" /\ new.to = c /\ new.kind = task[m].kind
                            /\ new.job = task[m].job /\ new.jobs = task[m].jobs
                            /\ new.left = task[m].left
    <3> DEFINE n == [task[m] EXCEPT !.to = c, !.at = "place"]
    <3>1. /\ n \in Runs /\ n.at = "place" /\ n.to = c /\ n.kind = task[m].kind
          /\ n.job = task[m].job /\ n.jobs = task[m].jobs /\ n.left = task[m].left
      BY <1>0 DEF Runs, Steps
    <3> QED
      BY <2>1, <3>1
  <2>3. task'[m] = new
    BY <1>0, <2>2, RunsAreTyped
  <2>4. UNCHANGED <<disk, row, coll, waiting, reach, reconcilerVars, past>>
        /\ tpl' \in [Collection -> Template]
    BY <1>0, <1>2 DEF Classify, libraryVars, StashTypeOK
  <2>5. Adopting(m) /\ Unfiled(m) /\ m \in Sorter /\ ~Handles(m)
    BY <1>0 DEF RunOK, Unfiled, Handles
  <2>6. \A b \in new.left : b # {} /\ b \subseteq LiveRows' /\ OneLoot(b)
    BY <1>0, <2>2, <2>4 DEF RunOK, LiveRows
  <2>7. \A j \in new.jobs : /\ j.row \in LiveRows' /\ j.src # j.dst
                            /\ {j.src, j.dst} \subseteq Root \X Path
    BY <1>0, <2>2, <2>4 DEF RunOK, LiveRows
  <2>8. new.kind \in Adopts /\ new.job.row \in Row /\ new.job.src \in Place /\ new.job.src[1] = Inbox
    BY <1>0, <2>2, <2>5 DEF RunOK, Adopting, Src
  <2>9. RunOK(m)' /\ ~Uses(m)' /\ Unfiled(m)' /\ ~Handles(m)' /\ ClerkKnows(m)'
    BY <2>2, <2>3, <2>5, <2>6, <2>7, <2>8, SortIsOK
  <2>10. OwnLoot(m)' = OwnLoot(m)
    BY <2>2, <2>3 DEF OwnLoot
  <2>11. SorterOK(m)'
    <3>1. RowsOf(OwnLoot(m)) = {} /\ coll[OwnLoot(m)] = NoColl
      BY <1>0, <2>5 DEF SorterOK
    <3>2. RowsOf(OwnLoot(m))' = {} /\ coll'[OwnLoot(m)'] = NoColl
      BY <2>4, <2>10, <3>1 DEF RowsOf, LiveRows
    <3>3. ~At(m, "in place")'
      BY <2>2, <2>3 DEF At
    <3> QED
      BY <2>9, <3>2, <3>3 DEF SorterOK
  <2>12. OwnApart(m)
    BY <2>5, <2>10 DEF OwnApart, CoreInv, SortersOK, LootsApart
  <2> QED
    BY <2>2, <2>4, <2>9, <2>11, <2>12, RunGoesOn
<1> QED
  BY <1>1, <1>2 DEF Classify

\* A loot of its own gets its collection: no row is of it yet.
LEMMA LootIsFiled ==
  ASSUME CoreInv, NEW m \in Mover, Unfiled(m), NEW c \in Collection,
         coll' = [coll EXCEPT ![OwnLoot(m)] = c], UNCHANGED row
  PROVE  /\ coll' \in [Loot -> Collection \cup {NoColl}] /\ coll'[OwnLoot(m)] = c
         /\ SameRows /\ OthersFiled(m)
         /\ \A r \in LiveRows' : coll'[LootOf[r]] # NoColl
<1>0. StashTypeOK /\ RunOK(m) /\ SorterOK(m) /\ LootsApart
  BY DEF CoreInv, SortersOK
<1>1. OwnLoot(m) \in Loot
  BY <1>0, StashAssumption DEF RunOK, Unfiled, OwnLoot
<1>2. coll' \in [Loot -> Collection \cup {NoColl}] /\ coll'[OwnLoot(m)] = c
      /\ \A l \in Loot : l # OwnLoot(m) => coll'[l] = coll[l]
  BY <1>0, <1>1 DEF StashTypeOK
<1>3. LiveRows' = LiveRows
  BY DEF LiveRows
<1>4. \A r \in LiveRows : LootOf[r] \in Loot /\ LootOf[r] # OwnLoot(m)
  BY <1>0, RowFacts DEF SorterOK, RowsOf
<1>5. \A r \in LiveRows : coll'[LootOf[r]] = coll[LootOf[r]]
  BY <1>2, <1>4
<1>6. SameRows
  BY <1>3, <1>5 DEF SameRows, PlaceOf, RootFor
<1>7. \A n \in Mover \ {m} : Unfiled(n) => OwnLoot(n) \in Loot /\ OwnLoot(n) # OwnLoot(m)
  <2> SUFFICES ASSUME NEW n \in Mover \ {m}, Unfiled(n)
               PROVE  OwnLoot(n) \in Loot /\ OwnLoot(n) # OwnLoot(m)
    OBVIOUS
  <2>1. RunOK(n)
    BY DEF CoreInv
  <2>2. OwnLoot(n) \in Loot
    BY <2>1, StashAssumption DEF RunOK, Unfiled, OwnLoot
  <2> QED
    BY <1>0, <2>2 DEF LootsApart
<1> QED
  BY <1>0, <1>2, <1>3, <1>5, <1>6, <1>7 DEF StashTypeOK, OthersFiled

LEMMA AdoptKeeps ==
  ASSUME CoreInv, NEW m \in Mover, Adopt(m)
  PROVE  CoreInv' /\ (OrderInv => OrderInv')
<1>0. /\ StashTypeOK /\ RunOK(m) /\ task[m].at = "place" /\ task[m] \in Runs /\ SorterOK(m)
      /\ Sorting(m) /\ ~Handles(m) /\ task[m].to \in Collection
  BY RunFacts DEF CoreInv, Adopt, At, SortersOK, Sorting, Handles, RunOK
<1>1. /\ Adopting(m) /\ Unfiled(m) /\ m \in Sorter /\ task[m].job.row \in Row
      /\ Src(m) \in Place /\ Src(m)[1] = Inbox
  BY <1>0 DEF RunOK, Unfiled
<1> DEFINE l == LootOf[task[m].job.row]
           to == task[m].to
           stem == Stem[tpl[to]][l]
<1>2. CASE FileFails(m) /\ UNCHANGED coll
  BY <1>0, <1>2, FailKeeps DEF Adopt, libraryVars
<1>3. ASSUME coll' = [coll EXCEPT ![OwnLoot(m)] = to], UNCHANGED waiting,
             NEW new \in Runs, task' = [task EXCEPT ![m] = new],
             RunOK(m)', ~Uses(m)', Unfiled(m)', OwnLoot(m)' = OwnLoot(m), new.to = to,
             Handles(m)' => Dst(m)'[1] = RootOf[to],
             task'[m].at \notin {"classify", "place"}, ClerkKnows(m)'
      PROVE  CoreInv' /\ (OrderInv => OrderInv')
  <2>1. UNCHANGED <<disk, row, tpl, waiting, reach, missing, scan, noted, event, hands, crossed>>
    BY <1>3 DEF Adopt, reconcilerVars, past
  <2>2. /\ coll' \in [Loot -> Collection \cup {NoColl}] /\ coll'[OwnLoot(m)] = to
        /\ SameRows /\ OthersFiled(m)
        /\ \A r \in LiveRows' : coll'[LootOf[r]] # NoColl
    BY <1>0, <1>1, <1>3, <2>1, LootIsFiled
  <2>3. task' \in [Mover -> Runs] /\ task'[m] = new /\ OthersStay(m)
    BY <1>0, <1>3, RunsAreTyped
  <2>4. StashTypeOK'
    BY <1>0, <2>1, <2>2, <2>3 DEF StashTypeOK, NoEvent
  <2>5. SorterOK(m)'
    <3>1. RowsOf(OwnLoot(m)) = {}
      BY <1>0, <1>1 DEF SorterOK
    <3>2. RowsOf(OwnLoot(m))' = {}
      BY <1>3, <2>1, <3>1 DEF RowsOf, LiveRows
    <3>3. coll'[OwnLoot(m)'] = to /\ task'[m].to = to
      BY <1>3, <2>2, <2>3
    <3> QED
      BY <1>0, <1>3, <3>2, <3>3 DEF SorterOK
  <2>6. OwnApart(m)
    BY <1>1, <1>3 DEF OwnApart, CoreInv, SortersOK, LootsApart
  <2> QED
    BY <1>3, <2>1, <2>2, <2>3, <2>4, <2>5, <2>6, MoverKeeps
<1>4. CASE /\ coll' = [coll EXCEPT ![l] = to]
           /\ Goes(m, "in place") /\ UNCHANGED waiting
  <2>1. PICK new \in Runs : /\ task' = [task EXCEPT ![m] = new]
                            /\ new.at = "in place" /\ new.to = to /\ new.kind = task[m].kind
                            /\ new.job = task[m].job /\ new.jobs = task[m].jobs
                            /\ new.left = task[m].left
    <3> DEFINE n == [task[m] EXCEPT !.at = "in place"]
    <3>1. task' = [task EXCEPT ![m] = n]
      BY <1>4 DEF Goes
    <3>2. /\ n \in Runs /\ n.at = "in place" /\ n.to = to /\ n.kind = task[m].kind
          /\ n.job = task[m].job /\ n.jobs = task[m].jobs /\ n.left = task[m].left
      BY <1>0 DEF Runs, Steps
    <3> QED
      BY <3>1, <3>2
  <2>2. task'[m] = new
    BY <1>0, <2>1, RunsAreTyped
  <2>3. LiveRows' = LiveRows
    BY DEF Adopt, LiveRows
  <2>4. \A b \in new.left : b # {} /\ b \subseteq LiveRows' /\ OneLoot(b)
    BY <1>0, <2>1, <2>3 DEF RunOK
  <2>5. \A j \in new.jobs : /\ j.row \in LiveRows' /\ j.src # j.dst
                            /\ {j.src, j.dst} \subseteq Root \X Path
    BY <1>0, <2>1, <2>3 DEF RunOK
  <2>6. new.kind \in Adopts /\ new.job.row \in Row /\ new.job.src \in Place /\ new.job.src[1] = Inbox
    BY <1>1, <2>1 DEF Adopting, Src
  <2>7. RunOK(m)' /\ ~Uses(m)' /\ Unfiled(m)' /\ ~Handles(m)' /\ ClerkKnows(m)'
    BY <1>0, <1>1, <2>1, <2>2, <2>4, <2>5, <2>6, SortIsOK
  <2>8. OwnLoot(m)' = OwnLoot(m) /\ l = OwnLoot(m)
    BY <2>1, <2>2 DEF OwnLoot
  <2> QED
    BY <1>3, <1>4, <2>1, <2>2, <2>7, <2>8
<1>5. CASE /\ stem # NoStem
           /\ coll' = [coll EXCEPT ![l] = to]
           /\ task' = [task EXCEPT ![m].at = "check", ![m].job.dst =
                              <<RootOf[to], Under(tpl[to], l, task[m].job.src[2][2])>>]
           /\ UNCHANGED waiting
  <2>0. PICK d \in Root \X Path : d = <<RootOf[to], Under(tpl[to], l, task[m].job.src[2][2])>>
    <3>1. tpl[to] \in Template /\ l \in Loot /\ task[m].job.src[2] \in Path /\ RootOf[to] \in Root
      BY <1>0, <1>1, Geography, StashAssumption DEF StashTypeOK, Src
    <3>2. Under(tpl[to], l, task[m].job.src[2][2]) \in Path
      BY <1>5, <3>1, StashAssumption DEF Under
    <3> QED
      BY <3>1, <3>2
  <2>1. PICK new \in Runs : /\ task' = [task EXCEPT ![m] = new]
                            /\ new.at = "check" /\ new.to = to /\ new.kind = task[m].kind
                            /\ new.job.row = task[m].job.row /\ new.job.src = task[m].job.src
                            /\ new.job.dst = d /\ new.jobs = task[m].jobs
                            /\ new.left = task[m].left /\ new.tpl = task[m].tpl
    <3> DEFINE j == [task[m].job EXCEPT !.dst = d]
               n == [task[m] EXCEPT !.at = "check", !.job = j]
    <3>1. task' = [task EXCEPT ![m] = n]
      BY <1>0, <1>5, <2>0 DEF Runs, StashTypeOK
    <3>2. d \in Place /\ task[m].job \in FileJobs
      BY <1>0, Geography DEF Runs
    <3>3. j \in FileJobs /\ j.row = task[m].job.row /\ j.src = task[m].job.src /\ j.dst = d
      BY <3>2 DEF FileJobs
    <3> HIDE DEF j
    <3>4. /\ n \in Runs /\ n.at = "check" /\ n.to = to /\ n.kind = task[m].kind
          /\ n.job = j /\ n.jobs = task[m].jobs /\ n.left = task[m].left /\ n.tpl = task[m].tpl
      BY <1>0, <3>3 DEF Runs, Steps
    <3> QED
      BY <3>1, <3>3, <3>4
  <2>2. task'[m] = new
    BY <1>0, <2>1, RunsAreTyped
  <2>3. LiveRows' = LiveRows
    BY DEF Adopt, LiveRows
  <2>4. new.kind # "none" /\ Inbox \notin Root
    BY <1>1, <2>1, StashAssumption DEF Adopting, Adopts
  <2>5. d[1] \in Root /\ d # task[m].job.src /\ d[1] = RootOf[to]
    BY <1>1, <2>0, <2>4, Geography DEF Src
  <2>6. RunOK(m)'
    BY <1>0, <1>1, <2>1, <2>2, <2>3, <2>4, <2>5, WorkGoesOn DEF Src
  <2>7. /\ ~Uses(m)' /\ Unfiled(m)' /\ Dst(m)' = d /\ ClerkKnows(m)'
        /\ OwnLoot(m)' = OwnLoot(m) /\ l = OwnLoot(m)
    BY <1>1, <2>1, <2>2 DEF Uses, Unfiled, Adopting, Handles, At, Dst, ClerkKnows, OwnLoot
  <2> QED
    BY <1>3, <1>5, <2>1, <2>2, <2>5, <2>6, <2>7
<1> QED
  BY <1>2, <1>4, <1>5 DEF Adopt

\* The row of a file the inbox has placed: the first of its loot.
LEMMA RowArrives ==
  ASSUME CoreInv, NEW m \in Mover, Unfiled(m), At(m, "in place") \/ Handles(m),
         NEW new \in RowData, row' = [row EXCEPT ![task[m].job.row] = new],
         UNCHANGED coll, OthersStay(m), ~Unfiled(m)'
  PROVE  /\ row' \in [Row -> {NoRow} \cup RowData] /\ row'[task[m].job.row] = new
         /\ task[m].job.row \in Row
         /\ LiveRows' = LiveRows \cup {task[m].job.row} /\ task[m].job.row \notin LiveRows
         /\ \A r \in LiveRows' : coll'[LootOf[r]] # NoColl
         /\ \A r \in LiveRows : /\ row'[r] = row[r] /\ PlaceOf(r)' = PlaceOf(r)
                                /\ LootOf[r] # OwnLoot(m)
         /\ \A n \in Mover : n # m => RunOK(n)'
         /\ SortersOK'
<1> DEFINE x == task[m].job.row
<1>0. StashTypeOK /\ RunOK(m) /\ SorterOK(m) /\ LootsApart
  BY DEF CoreInv, SortersOK
<1>1. x \in Row /\ OwnLoot(m) = LootOf[x] /\ LootOf[x] \in Loot
  BY <1>0, StashAssumption DEF RunOK, Unfiled, OwnLoot
<1>2. RowsOf(OwnLoot(m)) = {}
  BY <1>0 DEF SorterOK
<1>3. coll[OwnLoot(m)] # NoColl
  BY <1>0, StashAssumption DEF SorterOK, RunOK, At
<1>4. /\ row' \in [Row -> {NoRow} \cup RowData] /\ row'[x] = new
      /\ \A r \in Row : r # x => row'[r] = row[r]
  BY <1>0, <1>1 DEF StashTypeOK
<1>5. new # NoRow
  BY StashAssumption
<1>6. x \notin LiveRows /\ \A r \in LiveRows : LootOf[r] # OwnLoot(m)
  BY <1>1, <1>2 DEF RowsOf
<1>7. LiveRows' = LiveRows \cup {x}
  BY <1>1, <1>4, <1>5 DEF LiveRows
<1>8. \A r \in LiveRows' : coll'[LootOf[r]] # NoColl
  BY <1>0, <1>1, <1>3, <1>7 DEF StashTypeOK
<1>9. \A r \in LiveRows : row'[r] = row[r] /\ PlaceOf(r)' = PlaceOf(r)
  <2>1. \A r \in LiveRows : row'[r] = row[r]
    BY <1>4, <1>6 DEF LiveRows
  <2> QED
    BY <2>1 DEF PlaceOf, RootFor
<1>10. \A n \in Mover : n # m => RunOK(n)'
  BY <1>7, RunStays DEF CoreInv, OthersStay
<1>11. SortersOK'
  <2>1. \A n \in Mover \ {m} : Unfiled(n) => RowsOf(OwnLoot(n))' = {}
    <3> SUFFICES ASSUME NEW n \in Mover \ {m}, Unfiled(n) PROVE RowsOf(OwnLoot(n))' = {}
      OBVIOUS
    <3>1. OwnLoot(n)' = OwnLoot(n) /\ OwnLoot(n) # LootOf[x] /\ RowsOf(OwnLoot(n)) = {}
      BY <1>0, <1>1 DEF OwnLoot, OthersStay, LootsApart, CoreInv, SortersOK, SorterOK
    <3> QED
      BY <1>7, <3>1 DEF RowsOf
  <2> QED
    BY <2>1, SortersGoOn DEF SorterOK, OwnApart, OthersFiled
<1> QED
  BY <1>1, <1>4, <1>6, <1>7, <1>8, <1>9, <1>10, <1>11

InboxWays == {"moved", "in place"}

LEMMA InboxRowIsTyped ==
  ASSUME StashTypeOK, NEW name \in Path, NEW p \in Place, NEW how \in InboxWays
  PROVE  \E x \in RowData : /\ x = InboxRow(name, p, how) /\ x.path = name /\ x.by = how
                            /\ Has(p) => x.of = disk[p]
                            /\ ~Has(p) => x.of = Other
<1>1. PICK c \in Content : c = IF Has(p) THEN disk[p] ELSE Other
  BY DEF StashTypeOK, Content
<1> DEFINE x == [path |-> name, hash |-> c, of |-> c, by |-> how]
<1>2. InboxRow(name, p, how) = x
  BY <1>1 DEF InboxRow
<1>3. x \in RowData /\ x.path = name /\ x.by = how /\ x.of = c
  BY DEF RowData, InboxWays
<1> HIDE DEF x
<1> QED
  BY <1>1, <1>2, <1>3

LEMMA AdoptInPlaceKeeps ==
  ASSUME CoreInv, NEW m \in Mover, AdoptInPlace(m)
  PROVE  CoreInv' /\ (OrderInv => OrderInv')
<1>0. StashTypeOK /\ RunOK(m) /\ At(m, "in place") /\ Sorting(m)
  BY DEF CoreInv, AdoptInPlace, At, Sorting
<1>1. Unfiled(m) /\ Src(m) \in Place /\ Src(m)[2] \in Path
  BY <1>0, Geography DEF RunOK, Unfiled
<1>2. PICK new \in RowData : row' = [row EXCEPT ![task[m].job.row] = new] /\ new.by = "in place"
  <2>1. PICK p \in Place : p = Src(m)
    BY <1>1
  <2>2. PICK how \in InboxWays : how = "in place"
    BY DEF InboxWays
  <2>3. StashTypeOK
    BY <1>0
  <2>4. p[2] \in Path
    BY <1>1, <2>1
  <2>5. PICK x \in RowData : x = InboxRow(p[2], p, how) /\ x.by = how
    BY <2>3, <2>4, InboxRowIsTyped
  <2>6. row' = [row EXCEPT ![task[m].job.row] = InboxRow(task[m].job.src[2], task[m].job.src, "in place")]
    BY DEF AdoptInPlace
  <2>7. InboxRow(task[m].job.src[2], task[m].job.src, "in place") = InboxRow(p[2], p, how)
    BY <2>1, <2>2 DEF Src
  <2> QED
    BY <2>2, <2>5, <2>6, <2>7
<1>3. Idle \in Runs
  BY DEF Idle, NoMove, Runs, FileJobs, Steps, RunKinds, Content
<1>4. task' \in [Mover -> Runs] /\ task'[m] = Idle /\ OthersStay(m)
  BY <1>0, <1>3, RunsAreTyped DEF AdoptInPlace
<1>5. RunOK(m)' /\ ~Unfiled(m)' /\ ~Uses(m)'
  BY <1>4, IdleIsOK
<1>6. UNCHANGED <<disk, coll, tpl, reach, missing, scan, noted, event, hands, crossed>>
  BY DEF AdoptInPlace, reconcilerVars, past
<1>7. /\ row' \in [Row -> {NoRow} \cup RowData] /\ row'[task[m].job.row] = new
      /\ LiveRows' = LiveRows \cup {task[m].job.row}
      /\ \A r \in LiveRows' : coll'[LootOf[r]] # NoColl
      /\ \A n \in Mover : n # m => RunOK(n)'
      /\ SortersOK'
  BY <1>0, <1>1, <1>2, <1>4, <1>5, <1>6, RowArrives
<1>8. waiting' \subseteq Path
  BY <1>0, WaitsAreTyped DEF AdoptInPlace
<1>9. StashTypeOK'
  BY <1>0, <1>4, <1>6, <1>7, <1>8 DEF StashTypeOK, NoEvent
<1>10. CrossInv'
  <2>1. NoNewHands
    BY <1>4, <1>5 DEF NoNewHands, OthersStay
  <2> QED
    BY <1>6, <2>1, CrossStays DEF CoreInv, CrossInv
<1>11. ~Orderly'
  BY <1>2, <1>7 DEF Orderly
<1>12. \A n \in Mover : RunOK(n)'
  BY <1>5, <1>7
<1> QED
  BY <1>6, <1>7, <1>9, <1>10, <1>11, <1>12 DEF CoreInv, CrossInv, OrderInv, InboxWhole

-----------------------------------------------------------------------------
(* The next loot of a restructure *)

\* The job of a row, when it goes to a root under a template.
JobOf(r, root, t) == [row |-> r, src |-> PlaceOf(r), dst |-> <<root, Proposed(t, r)>>,
                      saw |-> Nothing]

\* What Batch reads of the loot it takes up, the jobs it makes of it, and what it writes.
BatchIs(m, b, jobs, l, root, t) ==
  /\ b # {} /\ b \subseteq LiveRows /\ \A r \in b : LootOf[r] = l
  /\ root = IF task[m].kind = "move" THEN RootOf[task[m].to] ELSE RootFor(l)
  /\ \A j \in jobs : j.src # j.dst /\ \E r \in b : /\ j = JobOf(r, root, t)
                                                   /\ Proposed(t, r) \in Path
  /\ task' = [task EXCEPT ![m].left = @ \ {b}, ![m].jobs = jobs, ![m].flipped = FALSE,
                          ![m].at = IF jobs = {} THEN "batch" ELSE "file"]
  /\ \/ coll' = coll
     \/ /\ task[m].kind = "move" /\ coll' = [coll EXCEPT ![l] = task[m].to]
        /\ task[m].to \in Collection
        /\ \A r \in b : PlaceOf(r) = <<root, Proposed(t, r)>>

LEMMA BatchFacts ==
  ASSUME CoreInv, NEW m \in Mover, Batch(m)
  PROVE  \E b \in task[m].left, jobs \in SUBSET FileJobs, l \in Loot, root \in Root, t \in Template :
           BatchIs(m, b, jobs, l, root, t)
<1>0. StashTypeOK /\ RunOK(m) /\ task[m].at = "batch" /\ task[m] \in Runs
  BY RunFacts DEF CoreInv, Batch, At
<1>1. PICK b \in task[m].left :
       LET k    == task[m].kind
           rs   == b \cap LiveRows
           l    == LootOf[CHOOSE r \in b : TRUE]
           t    == IF k = "move" THEN tpl[task[m].to] ELSE task[m].tpl
           root == IF k = "move" THEN RootOf[task[m].to] ELSE RootFor(l)
           fit  == CASE k = "move"     -> MoveFits(l, task[m].to)
                     [] k = "template" -> TemplateFits(l, t)
                     [] k = "migrate"  -> MigrationFits(l, t, task[m].to)
           all  == {[row |-> r, src |-> PlaceOf(r), dst |-> <<root, Proposed(t, r)>>,
                     saw |-> Nothing] : r \in rs}
           jobs == IF fit THEN {j \in all : j.src # j.dst} ELSE {}
       IN /\ task' = [task EXCEPT ![m].left = @ \ {b}, ![m].jobs = jobs, ![m].flipped = FALSE,
                                  ![m].at = IF jobs = {} THEN "batch" ELSE "file"]
          /\ coll' = IF k = "move" /\ fit /\ jobs = {}
                       THEN [coll EXCEPT ![l] = task[m].to] ELSE coll
  BY DEF Batch
<1> DEFINE k    == task[m].kind
           l    == LootOf[CHOOSE r \in b : TRUE]
           t    == IF k = "move" THEN tpl[task[m].to] ELSE task[m].tpl
           root == IF k = "move" THEN RootOf[task[m].to] ELSE RootFor(l)
           fit  == CASE k = "move"     -> MoveFits(l, task[m].to)
                     [] k = "template" -> TemplateFits(l, t)
                     [] k = "migrate"  -> MigrationFits(l, t, task[m].to)
           all  == {JobOf(r, root, t) : r \in b}
           jobs == IF fit THEN {j \in all : j.src # j.dst} ELSE {}
<1>2. b # {} /\ b \subseteq LiveRows /\ OneLoot(b)
  BY <1>0 DEF RunOK
<1>3. b \cap LiveRows = b
  BY <1>2
<1>4. \A r \in b : LootOf[r] = l
  BY <1>2 DEF OneLoot
<1>5. l \in Loot /\ coll[l] \in Collection /\ RootFor(l) \in Root
  <2>1. PICK r \in b : TRUE
    BY <1>2
  <2> QED
    BY <1>0, <1>2, <1>4, <2>1, RowFacts
<1>6. k \in {"move", "template", "migrate"}
  BY <1>0 DEF RunOK, RunKinds, Adopts
<1>7. k = "move" => task[m].to \in Collection /\ RootOf[task[m].to] \in Root
                    /\ tpl[task[m].to] \in Template
  BY <1>0, StashAssumption DEF RunOK, StashTypeOK
<1>8. root \in Root
  BY <1>5, <1>7
<1>9. t \in Template
  BY <1>0, <1>6, <1>7 DEF RunOK
<1>10. fit => Stem[t][l] # NoStem
  BY <1>6 DEF MoveFits, TemplateFits, MigrationFits
<1>11. /\ task' = [task EXCEPT ![m].left = @ \ {b}, ![m].jobs = jobs, ![m].flipped = FALSE,
                               ![m].at = IF jobs = {} THEN "batch" ELSE "file"]
       /\ coll' = IF k = "move" /\ fit /\ jobs = {}
                    THEN [coll EXCEPT ![l] = task[m].to] ELSE coll
  BY <1>1, <1>3 DEF JobOf
<1>12. ASSUME fit, NEW r \in b
       PROVE  Proposed(t, r) \in Path /\ JobOf(r, root, t) \in FileJobs
  <2>1. Proposed(t, r) \in Path
    BY <1>0, <1>2, <1>4, <1>9, <1>10, <1>12, ProposedIsPath
  <2>2. r \in Row /\ PlaceOf(r) \in Place /\ <<root, Proposed(t, r)>> \in Place
    BY <1>0, <1>2, <1>8, <2>1, RowFacts, Geography
  <2> HIDE DEF root, t
  <2> QED
    BY <2>1, <2>2 DEF JobOf, FileJobs, Content
<1>13. jobs \in SUBSET FileJobs
  BY <1>12
<1>14. \A j \in jobs : j.src # j.dst /\ \E r \in b : /\ j = JobOf(r, root, t)
                                                     /\ Proposed(t, r) \in Path
  BY <1>12
<1>15. \/ coll' = coll
       \/ /\ task[m].kind = "move" /\ coll' = [coll EXCEPT ![l] = task[m].to]
          /\ task[m].to \in Collection
          /\ \A r \in b : PlaceOf(r) = <<root, Proposed(t, r)>>
  <2> SUFFICES ASSUME k = "move" /\ fit /\ jobs = {}
               PROVE  \A r \in b : PlaceOf(r) = <<root, Proposed(t, r)>>
    BY <1>7, <1>11
  <2>1. \A r \in b : JobOf(r, root, t).src = JobOf(r, root, t).dst
    OBVIOUS
  <2> QED
    BY <2>1 DEF JobOf
<1> HIDE DEF k, l, t, root, fit, all, jobs
<1>16. root = IF task[m].kind = "move" THEN RootOf[task[m].to] ELSE RootFor(l)
  BY DEF root, k
<1>17. task' = [task EXCEPT ![m].left = @ \ {b}, ![m].jobs = jobs, ![m].flipped = FALSE,
                            ![m].at = IF jobs = {} THEN "batch" ELSE "file"]
  BY <1>11
<1>18. BatchIs(m, b, jobs, l, root, t)
  BY <1>2, <1>4, <1>14, <1>15, <1>16, <1>17 DEF BatchIs
<1> QED
  BY <1>5, <1>8, <1>9, <1>13, <1>18

LEMMA BatchKeeps ==
  ASSUME CoreInv, NEW m \in Mover, Batch(m)
  PROVE  CoreInv' /\ (OrderInv => OrderInv')
<1>0. StashTypeOK /\ RunOK(m) /\ task[m].at = "batch" /\ task[m] \in Runs
  BY RunFacts DEF CoreInv, Batch, At
<1>1. PICK b \in task[m].left, jobs \in SUBSET FileJobs, l \in Loot, root \in Root, t \in Template :
        BatchIs(m, b, jobs, l, root, t)
  BY BatchFacts
<1>2. /\ b # {} /\ b \subseteq LiveRows /\ \A r \in b : LootOf[r] = l
      /\ root = IF task[m].kind = "move" THEN RootOf[task[m].to] ELSE RootFor(l)
      /\ \A j \in jobs : j.src # j.dst /\ \E r \in b : /\ j = JobOf(r, root, t)
                                                       /\ Proposed(t, r) \in Path
  BY <1>1 DEF BatchIs
<1>3. PICK new \in Runs : /\ task' = [task EXCEPT ![m] = new]
                          /\ new.at = IF jobs = {} THEN "batch" ELSE "file"
                          /\ new.left = task[m].left \ {b} /\ new.jobs = jobs
                          /\ new.kind = task[m].kind /\ new.to = task[m].to
                          /\ new.tpl = task[m].tpl /\ ~new.flipped
  <2> DEFINE n == [task[m] EXCEPT !.left = @ \ {b}, !.jobs = jobs, !.flipped = FALSE,
                                  !.at = IF jobs = {} THEN "batch" ELSE "file"]
  <2>1. task' = [task EXCEPT ![m] = n]
    BY <1>0, <1>1 DEF BatchIs, StashTypeOK
  <2>2. task[m].left \ {b} \in SUBSET SUBSET Row
    BY <1>0, RunFacts
  <2>3. /\ n \in Runs /\ n.at = (IF jobs = {} THEN "batch" ELSE "file")
        /\ n.left = task[m].left \ {b} /\ n.jobs = jobs
        /\ n.kind = task[m].kind /\ n.to = task[m].to
        /\ n.tpl = task[m].tpl /\ ~n.flipped
    BY <1>0, <2>2 DEF Runs, Steps
  <2> QED
    BY <2>1, <2>3
<1>4. task' \in [Mover -> Runs] /\ task'[m] = new /\ OthersStay(m)
  BY <1>0, <1>3, RunsAreTyped
<1>5. UNCHANGED <<disk, row, tpl, waiting, reach, missing, scan, noted, event, hands, crossed>>
  BY DEF Batch, reconcilerVars, past
<1>6. LiveRows' = LiveRows
  BY <1>5 DEF LiveRows
<1>7. /\ task[m].kind \in RunKinds \ Adopts /\ m \in Clerk /\ ~Adopting(m)
      /\ new.kind \notin Adopts
  BY <1>0, <1>3 DEF RunOK, Adopting
<1>8. \A j \in jobs : /\ j.row \in b /\ j.src = PlaceOf(j.row) /\ j.dst[1] = root
                      /\ j.row \in LiveRows /\ j.src # j.dst
                      /\ {j.src, j.dst} \subseteq Root \X Path
  <2> SUFFICES ASSUME NEW j \in jobs
               PROVE  /\ j.row \in b /\ j.src = PlaceOf(j.row) /\ j.dst[1] = root
                      /\ j.row \in LiveRows /\ j.src # j.dst
                      /\ {j.src, j.dst} \subseteq Root \X Path
    OBVIOUS
  <2>1. PICK r \in b : j = JobOf(r, root, t) /\ Proposed(t, r) \in Path
    BY <1>2
  <2>2. j.row = r /\ j.src = PlaceOf(r) /\ j.dst = <<root, Proposed(t, r)>>
    BY <2>1 DEF JobOf
  <2>3. PlaceOf(r) \in Root \X Path
    BY <1>0, <1>2, RowFacts
  <2> QED
    BY <1>2, <2>1, <2>2, <2>3
<1>9. RunOK(m)'
  <2>1. ~Handles(m)' /\ ~Sorting(m)' /\ task'[m].at \notin {"place", "in place", "idle"}
    BY <1>3, <1>4 DEF Handles, Sorting
  <2>2. \A j \in task'[m].jobs : /\ j.row \in LiveRows' /\ j.src # j.dst
                                 /\ {j.src, j.dst} \subseteq Root \X Path
    BY <1>3, <1>4, <1>6, <1>8
  <2>3. \A c \in task'[m].left : c # {} /\ c \subseteq LiveRows' /\ OneLoot(c)
    BY <1>0, <1>3, <1>4, <1>6 DEF RunOK
  <2> QED
    BY <1>0, <1>3, <1>4, <1>7, <2>1, <2>2, <2>3 DEF RunOK, Adopting, OneLoot
<1>10. ~Uses(m)' /\ ~Unfiled(m)'
  BY <1>3, <1>4, <1>7 DEF Uses, Unfiled, Adopting
<1>11. \A r \in LiveRows : LootOf[r] = l => LootOf[r] \in Loot /\ RootFor(l) = PlaceOf(r)[1]
  BY DEF PlaceOf
<1>12. /\ coll' \in [Loot -> Collection \cup {NoColl}]
       /\ \A r \in LiveRows : /\ coll'[LootOf[r]] # NoColl
                              /\ RootOf[coll'[LootOf[r]]] = RootOf[coll[LootOf[r]]]
       /\ \A k \in Loot : coll'[k] # coll[k] => RowsOf(k) # {}
  <2>1. CASE coll' = coll
    BY <1>0, <2>1 DEF StashTypeOK
  <2>2. CASE /\ task[m].kind = "move" /\ coll' = [coll EXCEPT ![l] = task[m].to]
             /\ task[m].to \in Collection
             /\ \A r \in b : PlaceOf(r) = <<root, Proposed(t, r)>>
    <3>1. PICK q \in b : TRUE
      BY <1>2
    <3>2. q \in LiveRows /\ LootOf[q] = l /\ PlaceOf(q)[1] = RootOf[task[m].to]
      BY <1>2, <2>2, <3>1
    <3>3. RootOf[coll[l]] = RootOf[task[m].to] /\ q \in RowsOf(l)
      BY <3>2 DEF PlaceOf, RootFor, RowsOf
    <3>4. /\ coll' \in [Loot -> Collection \cup {NoColl}] /\ coll'[l] = task[m].to
          /\ \A k \in Loot : k # l => coll'[k] = coll[k]
      BY <1>0, <2>2 DEF StashTypeOK
    <3>5. task[m].to # NoColl
      BY <2>2, StashAssumption
    <3>6. \A r \in LiveRows : LootOf[r] \in Loot /\ coll[LootOf[r]] # NoColl
      BY <1>0, RowFacts DEF StashTypeOK
    <3> QED
      BY <3>3, <3>4, <3>5, <3>6
  <2> QED
    BY <1>1, <2>1, <2>2 DEF BatchIs
<1>13. SameRows
  BY <1>5, <1>6, <1>12 DEF SameRows, PlaceOf, RootFor
<1>14. StashTypeOK'
  BY <1>0, <1>4, <1>5, <1>6, <1>12 DEF StashTypeOK, NoEvent
<1>15. OthersFiled(m)
  <2> SUFFICES ASSUME NEW n \in Mover, Unfiled(n) PROVE coll'[OwnLoot(n)] = coll[OwnLoot(n)]
    BY DEF OthersFiled
  <2>1. OwnLoot(n) \in Loot /\ RowsOf(OwnLoot(n)) = {}
    BY StashAssumption DEF CoreInv, RunOK, SortersOK, SorterOK, Unfiled, OwnLoot
  <2> QED
    BY <1>12, <2>1
<1>16. SorterOK(m)' /\ OwnApart(m)
  BY <1>10 DEF SorterOK, OwnApart
<1>17. Orderly => ClerkKnows(m)'
  <2> SUFFICES ASSUME Orderly, At(m, "file")'
               PROVE  /\ \A j \in task'[m].jobs : JobFits(m, j)'
                      /\ \A i, j \in task'[m].jobs : i = j
                      /\ ~task'[m].flipped
    BY <1>3, <1>4 DEF ClerkKnows, Handles, At
  <2>1. \A j \in jobs : JobFits(m, j)'
    <3> SUFFICES ASSUME NEW j \in jobs PROVE JobFits(m, j)'
      OBVIOUS
    <3>1. j.src = PlaceOf(j.row)'
      BY <1>8, <1>13 DEF SameRows
    <3>2. j.src[1] = RootFor(l)
      BY <1>2, <1>8, <1>11
    <3> QED
      BY <1>2, <1>3, <1>4, <1>8, <3>1, <3>2 DEF JobFits
  <2>2. \A q, r \in b : q = r
    <3>1. \A r \in b : b \subseteq RowsOf(l) /\ RowsOf(l) = {r}
      BY <1>2 DEF Orderly, Single, RowsOf
    <3> QED
      BY <3>1
  <2>3. \A i, j \in jobs : i = j
    BY <1>2, <2>2
  <2> QED
    BY <1>3, <1>4, <2>1, <2>3
<1> QED
  BY <1>4, <1>5, <1>9, <1>10, <1>13, <1>14, <1>15, <1>16, <1>17, MoverKeeps

-----------------------------------------------------------------------------
(* The steps that have a file in hand *)

LEMMA InHandFacts ==
  ASSUME CoreInv, NEW n \in Mover
  PROVE  /\ Uses(n) => Handles(n)
         /\ Makes(n) => Uses(n)
         /\ At(n, "commit") => Makes(n)
         /\ At(n, "unlink") => Uses(n) /\ ~Makes(n)
         /\ Handles(n) => /\ Src(n) \in Place /\ Dst(n) \in Place /\ Src(n) # Dst(n)
                          /\ Dst(n)[1] \in Root /\ Dst(n) \in Root \X Path /\ task[n].job.row \in Row
         /\ Handles(n) /\ Adopting(n) => Src(n)[1] = Inbox /\ Src(n)[1] \notin Root
         /\ Handles(n) /\ ~Adopting(n) => n \in Clerk /\ task[n].job.row \in LiveRows
<1>1. RunOK(n)
  BY DEF CoreInv
<1>2. /\ Uses(n) => Handles(n)
      /\ Makes(n) => Uses(n)
      /\ At(n, "commit") => Makes(n)
      /\ At(n, "unlink") => Uses(n) /\ ~Makes(n)
  BY DEF Uses, Handles, Makes, At
<1>3. Handles(n) => /\ Src(n) \in Place /\ Dst(n) \in Place /\ Src(n) # Dst(n)
                    /\ Dst(n)[1] \in Root /\ Dst(n) \in Root \X Path /\ task[n].job.row \in Row
  BY <1>1, Geography DEF RunOK
<1>4. Handles(n) /\ Adopting(n) => Src(n)[1] = Inbox /\ Src(n)[1] \notin Root
  BY <1>1, StashAssumption DEF RunOK
<1>5. Handles(n) /\ ~Adopting(n) => n \in Clerk /\ task[n].job.row \in LiveRows
  BY <1>1 DEF RunOK, Handles
<1> QED
  BY <1>2, <1>3, <1>4, <1>5

LEMMA OthersHold ==
  ASSUME NEW m \in Mover, OthersStay(m), NEW n \in Mover, n # m
  PROVE  /\ Uses(n)' <=> Uses(n)
         /\ Makes(n)' <=> Makes(n)
         /\ At(n, "commit")' <=> At(n, "commit")
         /\ At(n, "unlink")' <=> At(n, "unlink")
         /\ Src(n)' = Src(n) /\ Dst(n)' = Dst(n) /\ task'[n] = task[n]
BY DEF OthersStay, Uses, Makes, At, Src, Dst

\* One restructure at a time: where a run that is not m is taken up with a row, the row
\* is where it was.
LEMMA DeedKeeps ==
  ASSUME CoreInv, NEW m \in Mover, StashTypeOK', SameRows, OthersStay(m),
         UNCHANGED <<coll, hands>>, RunOK(m)', SorterOK(m)', OwnApart(m), InboxWhole', CrossInv',
         OneRestructure /\ OrderInv /\ Orderly =>
           ~crossed' /\ FilesThere' /\ NotFiledYet' /\ LeftBehind' /\ Fetched' /\ ClerkKnows(m)'
  PROVE  CoreInv' /\ (OneRestructure /\ OrderInv => OrderInv')
<1>1. \A n \in Mover : n # m => RunOK(n)'
  BY RunStays DEF CoreInv, SameRows, OthersStay
<1>2. SortersOK'
  <2>1. \A n \in Mover \ {m} : Unfiled(n) => RowsOf(OwnLoot(n)) = {}
    BY DEF CoreInv, SortersOK, SorterOK
  <2>2. \A n \in Mover \ {m} : OwnLoot(n)' = OwnLoot(n)
    BY DEF OwnLoot, OthersStay
  <2>3. \A n \in Mover \ {m} : RowsOf(OwnLoot(n))' = RowsOf(OwnLoot(n))
    BY <2>2 DEF RowsOf, SameRows
  <2> QED
    BY <2>1, <2>3, SortersGoOn DEF OthersFiled
<1>3. OneRestructure /\ OrderInv => OrderInv'
  <2> SUFFICES ASSUME OneRestructure, OrderInv, Orderly'
               PROVE  /\ ~crossed' /\ FilesThere' /\ RowsApart' /\ NotFiledYet' /\ LeftBehind'
                      /\ Fetched' /\ \A n \in Mover : ClerkKnows(n)'
    BY DEF OrderInv
  <2>1. Orderly
    BY OrderIsSame
  <2>2. RowsApart /\ \A n \in Mover : ClerkKnows(n)
    BY <2>1 DEF OrderInv
  <2>3. RowsApart'
    BY <2>2 DEF RowsApart, SameRows
  <2>4. \A n \in Mover : n # m => ClerkKnows(n)'
    BY <2>2, ClerkStays DEF CoreInv, OthersStay
  <2> QED
    BY <2>1, <2>3, <2>4
<1> QED
  BY <1>1, <1>2, <1>3 DEF CoreInv, CrossInv

\* A file that a run made, and has no row for, changes or goes; who does not make it
\* does not see it.
LEMMA MadeChanges ==
  ASSUME CoreInv, NEW m \in Mover, Makes(m), NEW c \in Content,
         disk' = [disk EXCEPT ![Dst(m)] = c],
         UNCHANGED <<hands, crossed>>, OthersStay(m),
         \/ ~Uses(m)'
         \/ /\ At(m, "commit")' /\ Src(m)' = Src(m) /\ Dst(m)' = Dst(m)
            /\ c = disk[Src(m)] /\ c # Nothing
  PROVE  InboxWhole' /\ CrossInv'
<1>0. StashTypeOK /\ InboxWhole
  BY DEF CoreInv
<1>1. /\ Uses(m) /\ Handles(m) /\ Src(m) \in Place /\ Dst(m) \in Place /\ Src(m) # Dst(m)
      /\ Dst(m) \in Root \X Path
  BY InHandFacts
<1>2. disk'[Dst(m)] = c /\ \A p \in Place : p # Dst(m) => disk'[p] = disk[p]
  BY <1>0, <1>1 DEF StashTypeOK
<1>3. InboxWhole'
  BY <1>0, <1>1, <1>2, Geography DEF InboxWhole
<1>4. CrossInv'
  <2> SUFFICES ASSUME ~crossed PROVE HandsApart' /\ HandsFull' /\ BytesSafe'
    BY DEF CrossInv
  <2>0. HandsApart /\ HandsFull /\ BytesSafe
    BY DEF CoreInv
  <2>1. /\ Uses(m)' => Src(m)' = Src(m) /\ Dst(m)' = Dst(m)
        /\ Makes(m)' => Uses(m)' /\ Dst(m)' = Dst(m)
        /\ ~At(m, "unlink")'
    BY DEF Uses, Makes, At
  <2>2. HandsApart'
    <3> SUFFICES ASSUME NEW n \in Mover, NEW o \in Mover, n # o
                 PROVE  /\ Uses(n)' /\ Uses(o)' /\ Src(n)'[1] \in Root => Src(n)' # Src(o)'
                        /\ Uses(n)' /\ Makes(o)' => Src(n)' # Dst(o)'
                        /\ Makes(n)' /\ Makes(o)' => Dst(n)' # Dst(o)'
      BY DEF HandsApart
    <3>1. CASE n # m /\ o # m
      BY <2>0, <3>1, OthersHold DEF HandsApart
    <3>2. CASE n = m
      BY <1>1, <2>0, <2>1, <3>2, OthersHold DEF HandsApart
    <3>3. CASE o = m
      BY <1>1, <2>0, <2>1, <3>3, OthersHold DEF HandsApart
    <3> QED
      BY <3>1, <3>2, <3>3
  <2>3. HandsFull'
    <3> SUFFICES ASSUME NEW n \in Mover
                 PROVE  /\ Uses(n)' /\ Src(n)'[1] \in Root => disk'[Src(n)'] # Nothing
                        /\ Makes(n)' => disk'[Dst(n)'] # Nothing
                        /\ At(n, "commit")' /\ disk'[Src(n)'] \in Bytes \ hands
                             => disk'[Dst(n)'] = disk'[Src(n)']
      BY DEF HandsFull
    <3>1. CASE n = m
      BY <1>1, <1>2, <2>1, <3>1 DEF Makes, Uses, At
    <3>2. CASE n # m
      <4>1. /\ Uses(n) => Src(n) # Dst(m) /\ Src(n) \in Place
            /\ Makes(n) => Dst(n) # Dst(m) /\ Dst(n) \in Place
            /\ At(n, "commit") => Makes(n) /\ Uses(n)
        BY <2>0, <3>2, InHandFacts DEF HandsApart
      <4> QED
        BY <1>2, <2>0, <3>2, <4>1, OthersHold DEF HandsFull
    <3> QED
      BY <3>1, <3>2
  <2>4. BytesSafe'
    <3> SUFFICES ASSUME NEW b \in Bytes \ hands PROVE \E q \in Place : disk'[q] = b /\ Safe(q)'
      BY DEF BytesSafe
    <3>1. PICK q \in Place : disk[q] = b /\ Safe(q)
      BY <2>0 DEF BytesSafe
    <3>2. q # Dst(m)
      BY <3>1 DEF Safe
    <3>3. Safe(q)'
      BY <2>1, <3>1, <3>2, OthersHold DEF Safe
    <3> QED
      BY <1>2, <3>1, <3>2, <3>3
  <2> QED
    BY <2>2, <2>3, <2>4
<1> QED
  BY <1>3, <1>4

\* What a run takes up is a file somebody cares for: one of the inbox, or one of a row.
LEMMA SourceIsKept ==
  ASSUME CoreInv, OrderInv, Orderly, NEW m \in Mover, Handles(m), ~At(m, "unlink"),
         disk[Src(m)] # Nothing
  PROVE  disk[Src(m)] \in Bytes
<1>1. CASE Adopting(m)
  <2>1. Src(m)[1] = Inbox /\ Src(m) \in Place
    BY <1>1, InHandFacts
  <2>2. Src(m) = <<Inbox, Src(m)[2]>> /\ Src(m)[2] \in Path
    BY <2>1, Geography
  <2> QED
    BY <2>2 DEF CoreInv, InboxWhole
<1>2. CASE ~Adopting(m)
  <2>1. Src(m) = PlaceOf(task[m].job.row) /\ task[m].job.row \in LiveRows
    BY <1>2, InHandFacts DEF OrderInv, ClerkKnows, JobFits, Src
  <2> QED
    BY <2>1 DEF OrderInv, FilesThere
<1> QED
  BY <1>1, <1>2

LEMMA MadeInOrder ==
  ASSUME CoreInv, OrderInv, Orderly, NEW m \in Mover, Makes(m), NEW c \in Content,
         disk' = [disk EXCEPT ![Dst(m)] = c], SameRows,
         UNCHANGED <<hands, crossed>>, OthersStay(m),
         \/ ~Uses(m)'
         \/ /\ At(m, "commit")' /\ Src(m)' = Src(m) /\ Dst(m)' = Dst(m)
            /\ c = disk[Src(m)] /\ c # Nothing
  PROVE  ~crossed' /\ FilesThere' /\ NotFiledYet' /\ LeftBehind' /\ Fetched'
<1>0. StashTypeOK /\ ~crossed /\ FilesThere /\ NotFiledYet /\ LeftBehind /\ Fetched /\ HandsApart
  BY DEF CoreInv, OrderInv
<1>1. Uses(m) /\ Handles(m) /\ ~At(m, "unlink") /\ Dst(m) \in Place /\ Dst(m) # Src(m)
  BY InHandFacts DEF Makes, At
<1>2. disk'[Dst(m)] = c /\ \A p \in Place : p # Dst(m) => disk'[p] = disk[p]
  BY <1>0, <1>1 DEF StashTypeOK
<1>3. \A r \in LiveRows : PlaceOf(r) # Dst(m) /\ PlaceOf(r) \in Place
  BY <1>0, RowFacts, Geography DEF NotFiledYet
<1>4. FilesThere'
  BY <1>0, <1>2, <1>3 DEF FilesThere, SameRows
<1>5. Makes(m)' => Dst(m)' = Dst(m)
  BY DEF Makes, Uses, At
<1>6. NotFiledYet'
  BY <1>0, <1>5, OthersHold DEF NotFiledYet, SameRows
<1>7. LeftBehind'
  <2>1. ~At(m, "unlink")'
    BY DEF At, Uses
  <2> QED
    BY <1>0, <2>1, OthersHold DEF LeftBehind, SameRows
<1>8. Fetched'
  <2> SUFFICES ASSUME NEW n \in Mover, At(n, "commit")' PROVE disk'[Dst(n)'] \in Bytes
    BY DEF Fetched
  <2>1. CASE n = m
    <3>1. Dst(m)' = Dst(m) /\ c = disk[Src(m)] /\ c # Nothing
      BY <2>1 DEF At, Uses
    <3> QED
      BY <1>1, <1>2, <2>1, <3>1, SourceIsKept
  <2>2. CASE n # m
    <3>1. At(n, "commit") /\ Makes(n) /\ Dst(n)' = Dst(n) /\ Dst(n) \in Place
      BY <2>2, OthersHold, InHandFacts
    <3>2. Dst(n) # Dst(m)
      BY <1>0, <2>2, <3>1 DEF HandsApart
    <3> QED
      BY <1>0, <1>2, <3>1, <3>2 DEF Fetched
  <2> QED
    BY <2>1, <2>2
<1> QED
  BY <1>0, <1>4, <1>6, <1>7, <1>8

\* What a run goes on with, in hand.
LEMMA GoesOn ==
  ASSUME CoreInv, NEW m \in Mover, Handles(m),
         NEW where \in {"link", "copy", "commit", "unlink"}, NEW new \in Runs,
         task' = [task EXCEPT ![m] = new], new.at = where,
         new.kind = task[m].kind, new.to = task[m].to, new.tpl = task[m].tpl,
         new.left = task[m].left, new.jobs = task[m].jobs, new.flipped = task[m].flipped,
         new.job.row = task[m].job.row, new.job.src = task[m].job.src,
         new.job.dst = task[m].job.dst, LiveRows \subseteq LiveRows'
  PROVE  /\ task' \in [Mover -> Runs] /\ task'[m] = new /\ OthersStay(m) /\ RunOK(m)'
         /\ Src(m)' = Src(m) /\ Dst(m)' = Dst(m) /\ Handles(m)'
         /\ Adopting(m)' <=> Adopting(m)
         /\ OwnLoot(m)' = OwnLoot(m)
<1>0. StashTypeOK /\ RunOK(m)
  BY DEF CoreInv
<1>1. task' \in [Mover -> Runs] /\ task'[m] = new /\ OthersStay(m)
  BY <1>0, RunsAreTyped
<1>2. /\ Src(m)' = Src(m) /\ Dst(m)' = Dst(m) /\ Handles(m)'
      /\ Adopting(m)' <=> Adopting(m)
      /\ OwnLoot(m)' = OwnLoot(m)
  BY <1>1 DEF Src, Dst, Handles, Adopting, OwnLoot
<1>3. task[m].at # "idle" /\ new.kind # "none" /\ new.job.row \in Row
      /\ new.job.src \in Place /\ new.job.dst \in Root \X Path /\ new.job.src # new.job.dst
      /\ (Adopting(m) => new.job.src[1] = Inbox)
      /\ (~Adopting(m) => new.job.src[1] \in Root /\ new.job.row \in LiveRows)
  BY <1>0 DEF RunOK, Handles, Src, Dst
<1>4. RunOK(m)'
  BY <1>0, <1>1, <1>3, WorkGoesOn
<1> QED
  BY <1>1, <1>2, <1>4

LEMMA SorterHolds ==
  ASSUME CoreInv, NEW m \in Mover, Handles(m), ~At(m, "unlink"), Handles(m)',
         task'[m].kind = task[m].kind, task'[m].to = task[m].to,
         Dst(m)' = Dst(m), OwnLoot(m)' = OwnLoot(m), SameRows, UNCHANGED coll
  PROVE  SorterOK(m)' /\ OwnApart(m)
<1>1. (Unfiled(m)' => Unfiled(m)) /\ SorterOK(m) /\ LootsApart
  BY DEF Unfiled, Adopting, CoreInv, SortersOK
<1>2. RowsOf(OwnLoot(m))' = RowsOf(OwnLoot(m)) /\ coll'[OwnLoot(m)'] = coll[OwnLoot(m)]
  BY DEF RowsOf, SameRows
<1>3. task'[m].at \notin {"classify", "place", "in place"}
  BY DEF Handles
<1>4. SorterOK(m)'
  BY <1>1, <1>2, <1>3 DEF SorterOK, At
<1>5. OwnApart(m)
  BY <1>1 DEF OwnApart, LootsApart
<1> QED
  BY <1>4, <1>5

LEMMA ClerkHolds ==
  ASSUME CoreInv, NEW m \in Mover, Handles(m), ~At(m, "unlink"), Handles(m)', ClerkKnows(m),
         task'[m].kind = task[m].kind, task'[m].to = task[m].to,
         task'[m].jobs = task[m].jobs, task'[m].flipped = task[m].flipped,
         task'[m].job.row = task[m].job.row, Src(m)' = Src(m), Dst(m)' = Dst(m), SameRows
  PROVE  ClerkKnows(m)'
<1> SUFFICES ASSUME ~Adopting(m)' PROVE ClerkKnows(m)'
  BY DEF ClerkKnows
<1>1. ~Adopting(m) /\ ~At(m, "file")'
  BY DEF Adopting, Handles, At
<1>2. task[m].jobs = {} /\ JobFits(m, task[m].job) /\ ~task[m].flipped /\ task[m].job.row \in LiveRows
  BY <1>1, InHandFacts DEF ClerkKnows
<1>3. JobFits(m, task[m].job)'
  BY <1>2 DEF JobFits, Src, Dst, SameRows
<1> QED
  BY <1>1, <1>2, <1>3 DEF ClerkKnows

\* What a run made is removed again, or cannot be: it fails.
LEMMA UndoKeeps ==
  ASSUME CoreInv, NEW m \in Mover, Makes(m), FileFails(m),
         \/ disk' = disk
         \/ disk' = [disk EXCEPT ![Dst(m)] = Nothing],
         noted' \in [Place -> {"none", "unlink", "change"}],
         UNCHANGED <<libraryVars, reach, missing, scan, event, past>>
  PROVE  CoreInv' /\ (OneRestructure /\ OrderInv => OrderInv')
<1>0. StashTypeOK /\ Handles(m) /\ Dst(m) \in Place
  BY InHandFacts DEF CoreInv
<1>1. UNCHANGED <<row, coll, tpl, reach, missing, scan, event, hands, crossed>>
      /\ task' = AfterFile(m, FALSE) /\ waiting' = WaitsIf(m, TRUE)
  BY DEF FileFails, libraryVars, past
<1>2. LiveRows' = LiveRows /\ SameRows
  BY <1>1, SameRowsIfSame DEF LiveRows
<1>3. /\ task' \in [Mover -> Runs] /\ OthersStay(m) /\ RunOK(m)'
      /\ ~Uses(m)' /\ ~Unfiled(m)'
      /\ ClerkKnows(m) => ClerkKnows(m)'
  BY <1>0, <1>1, <1>2, FileDone
<1>4. PICK c \in Content : disk' = [disk EXCEPT ![Dst(m)] = c]
  <2>1. disk \in [Place -> Content] /\ Nothing \in Content /\ disk[Dst(m)] \in Content
    BY <1>0 DEF StashTypeOK, Content
  <2>2. disk = [disk EXCEPT ![Dst(m)] = disk[Dst(m)]]
    BY <1>0, <2>1
  <2> QED
    BY <2>1, <2>2
<1>5. StashTypeOK'
  <2>1. waiting' \subseteq Path
    BY <1>0, <1>1, WaitsAreTyped
  <2>2. disk' \in [Place -> Content]
    BY <1>0, <1>4 DEF StashTypeOK
  <2> QED
    BY <1>0, <1>1, <1>2, <1>3, <2>1, <2>2 DEF StashTypeOK, NoEvent
<1>6. InboxWhole' /\ CrossInv'
  BY <1>1, <1>3, <1>4, MadeChanges
<1>7. SorterOK(m)' /\ OwnApart(m)
  BY <1>3 DEF SorterOK, OwnApart
<1>8. OrderInv /\ Orderly =>
        ~crossed' /\ FilesThere' /\ NotFiledYet' /\ LeftBehind' /\ Fetched' /\ ClerkKnows(m)'
  BY <1>1, <1>2, <1>3, <1>4, MadeInOrder DEF OrderInv
<1> QED
  BY <1>1, <1>2, <1>3, <1>5, <1>6, <1>7, <1>8, DeedKeeps

LEMMA CommitFailsKeeps ==
  ASSUME CoreInv, NEW m \in Mover, CommitFails(m)
  PROVE  CoreInv' /\ (OneRestructure /\ OrderInv => OrderInv')
<1>1. Makes(m) /\ Dst(m) \in Place
  <2>1. Makes(m)
    BY DEF CommitFails, Makes, At
  <2> QED
    BY <2>1, InHandFacts
<1>2. \/ disk' = disk
      \/ disk' = [disk EXCEPT ![Dst(m)] = Nothing]
  BY DEF CommitFails, Dst
<1>3. noted' = noted \/ noted' = Notes(Dst(m), "unlink")
  BY DEF CommitFails, Dst
<1>4. noted' \in [Place -> {"none", "unlink", "change"}]
  BY <1>1, <1>3, NotesAreTyped DEF CoreInv, StashTypeOK
<1>5. FileFails(m) /\ UNCHANGED <<libraryVars, reach, missing, scan, event, past>>
  BY DEF CommitFails
<1> QED
  BY <1>1, <1>2, <1>4, <1>5, UndoKeeps

LEMMA CopyKeeps ==
  ASSUME CoreInv, NEW m \in Mover, Copy(m)
  PROVE  CoreInv' /\ (OneRestructure /\ OrderInv => OrderInv')
<1>0. /\ StashTypeOK /\ Makes(m) /\ Handles(m) /\ ~At(m, "unlink") /\ task[m] \in Runs
      /\ Src(m) \in Place /\ Dst(m) \in Place
  <2>1. Makes(m) /\ ~At(m, "unlink")
    BY DEF Copy, Makes, At
  <2> QED
    BY <2>1, InHandFacts, RunFacts DEF CoreInv
<1>1. CASE /\ FileFails(m)
           /\ disk' = disk \/ disk' = [disk EXCEPT ![Dst(m)] = Nothing]
  BY <1>0, <1>1, UndoKeeps DEF Copy, reconcilerVars, CoreInv, StashTypeOK
<1>2. CASE /\ Has(Src(m)) /\ disk' = [disk EXCEPT ![Dst(m)] = disk[Src(m)]]
           /\ Goes(m, "commit") /\ UNCHANGED waiting
  <2>1. PICK new \in Runs : /\ task' = [task EXCEPT ![m] = new] /\ new.at = "commit"
                            /\ new.kind = task[m].kind /\ new.to = task[m].to
                            /\ new.tpl = task[m].tpl /\ new.left = task[m].left
                            /\ new.jobs = task[m].jobs /\ new.flipped = task[m].flipped
                            /\ new.job = task[m].job
    <3> DEFINE n == [task[m] EXCEPT !.at = "commit"]
    <3>1. task' = [task EXCEPT ![m] = n]
      BY <1>2 DEF Goes
    <3>2. /\ n \in Runs /\ n.at = "commit"
          /\ n.kind = task[m].kind /\ n.to = task[m].to
          /\ n.tpl = task[m].tpl /\ n.left = task[m].left
          /\ n.jobs = task[m].jobs /\ n.flipped = task[m].flipped
          /\ n.job = task[m].job
      BY <1>0 DEF Runs, Steps
    <3> QED
      BY <3>1, <3>2
  <2>2. UNCHANGED <<row, coll, tpl, waiting, reach, missing, scan, noted, event, hands, crossed>>
    BY <1>2 DEF Copy, libraryVars, reconcilerVars, past
  <2>3. LiveRows' = LiveRows /\ SameRows
    BY <2>2, SameRowsIfSame DEF LiveRows
  <2>4. /\ task' \in [Mover -> Runs] /\ task'[m] = new /\ OthersStay(m) /\ RunOK(m)'
        /\ Src(m)' = Src(m) /\ Dst(m)' = Dst(m) /\ Handles(m)'
        /\ OwnLoot(m)' = OwnLoot(m)
    BY <1>0, <2>1, <2>3, GoesOn
  <2>5. SorterOK(m)' /\ OwnApart(m)
    BY <1>0, <2>1, <2>2, <2>3, <2>4, SorterHolds
  <2>6. disk[Src(m)] \in Content /\ disk[Src(m)] # Nothing /\ At(m, "commit")'
    BY <1>0, <1>2, <2>1, <2>4 DEF StashTypeOK, Has, At
  <2>7. StashTypeOK'
    <3>1. disk' \in [Place -> Content]
      BY <1>0, <1>2, <2>6 DEF StashTypeOK
    <3> QED
      BY <1>0, <2>2, <2>3, <2>4, <3>1 DEF StashTypeOK, NoEvent
  <2>8. InboxWhole' /\ CrossInv'
    BY <1>0, <1>2, <2>2, <2>4, <2>6, MadeChanges
  <2>9. OrderInv /\ Orderly =>
          ~crossed' /\ FilesThere' /\ NotFiledYet' /\ LeftBehind' /\ Fetched' /\ ClerkKnows(m)'
    <3> SUFFICES ASSUME OrderInv, Orderly
                 PROVE  /\ ~crossed' /\ FilesThere' /\ NotFiledYet' /\ LeftBehind' /\ Fetched'
                        /\ ClerkKnows(m)'
      OBVIOUS
    <3>1. ~crossed' /\ FilesThere' /\ NotFiledYet' /\ LeftBehind' /\ Fetched'
      BY <1>0, <1>2, <2>2, <2>3, <2>4, <2>6, MadeInOrder
    <3>2. ClerkKnows(m)'
      BY <1>0, <2>1, <2>3, <2>4, ClerkHolds DEF OrderInv
    <3> QED
      BY <3>1, <3>2
  <2> QED
    BY <2>2, <2>3, <2>4, <2>5, <2>7, <2>8, <2>9, DeedKeeps
<1> QED
  BY <1>1, <1>2 DEF Copy, Src, Dst

\* The source goes: by then nothing counts on it.
LEMMA UnlinkKeeps ==
  ASSUME CoreInv, NEW m \in Mover, Unlink(m)
  PROVE  CoreInv' /\ (OneRestructure /\ OrderInv => OrderInv')
<1>0. StashTypeOK /\ At(m, "unlink") /\ Uses(m) /\ ~Makes(m) /\ Handles(m) /\ Src(m) \in Place
  BY InHandFacts DEF CoreInv, Unlink
<1>1. CASE FileFails(m) /\ UNCHANGED <<disk, noted>>
  BY <1>0, <1>1, FailKeeps DEF Unlink, libraryVars, reconcilerVars, past
<1>2. CASE /\ disk' = [disk EXCEPT ![Src(m)] = Nothing]
           /\ noted' = Notes(Src(m), "unlink")
           /\ task' = AfterFile(m, TRUE) /\ waiting' = WaitsIf(m, FALSE)
  <2>1. UNCHANGED <<row, coll, tpl, reach, missing, scan, event, hands, crossed>>
    BY DEF Unlink, libraryVars, past
  <2>2. LiveRows' = LiveRows /\ SameRows
    BY <2>1, SameRowsIfSame DEF LiveRows
  <2>3. /\ task' \in [Mover -> Runs] /\ OthersStay(m) /\ RunOK(m)'
        /\ ~Uses(m)' /\ ~Unfiled(m)'
        /\ ClerkKnows(m) => ClerkKnows(m)'
    BY <1>0, <1>2, <2>2, FileDone
  <2>4. disk'[Src(m)] = Nothing /\ \A p \in Place : p # Src(m) => disk'[p] = disk[p]
    BY <1>0, <1>2 DEF StashTypeOK
  <2>5. StashTypeOK'
    <3>1. waiting' \subseteq Path
      BY <1>0, <1>2, WaitsAreTyped
    <3>2. Nothing \in Content
      BY DEF Content
    <3>3. disk' \in [Place -> Content]
      BY <1>0, <1>2, <3>2 DEF StashTypeOK
    <3>4. noted' \in [Place -> {"none", "unlink", "change"}]
      BY <1>0, <1>2, NotesAreTyped
    <3> QED
      BY <1>0, <2>1, <2>2, <2>3, <3>1, <3>3, <3>4 DEF StashTypeOK, NoEvent
  <2>6. InboxWhole'
    <3>1. \A p \in Path : <<Inbox, p>> \in Place
      BY Geography
    <3> QED
      BY <2>4, <3>1 DEF CoreInv, InboxWhole
  <2>7. ~Makes(m)' /\ ~At(m, "commit")' /\ ~At(m, "unlink")'
    BY <2>3 DEF Uses, Makes, At
  <2>8. CrossInv'
    <3> SUFFICES ASSUME ~crossed PROVE HandsApart' /\ HandsFull' /\ BytesSafe'
      BY <2>1 DEF CrossInv
    <3>0. HandsApart /\ HandsFull /\ BytesSafe
      BY DEF CoreInv
    <3>1. HandsApart'
      <4> SUFFICES ASSUME NEW n \in Mover, NEW o \in Mover, n # o
                   PROVE  /\ Uses(n)' /\ Uses(o)' /\ Src(n)'[1] \in Root => Src(n)' # Src(o)'
                          /\ Uses(n)' /\ Makes(o)' => Src(n)' # Dst(o)'
                          /\ Makes(n)' /\ Makes(o)' => Dst(n)' # Dst(o)'
        BY DEF HandsApart
      <4>1. CASE n # m /\ o # m
        BY <2>3, <3>0, <4>1, OthersHold DEF HandsApart
      <4>2. CASE n = m \/ o = m
        BY <2>3, <2>7, <4>2
      <4> QED
        BY <4>1, <4>2
    <3>2. HandsFull'
      <4> SUFFICES ASSUME NEW n \in Mover
                   PROVE  /\ Uses(n)' /\ Src(n)'[1] \in Root => disk'[Src(n)'] # Nothing
                          /\ Makes(n)' => disk'[Dst(n)'] # Nothing
                          /\ At(n, "commit")' /\ disk'[Src(n)'] \in Bytes \ hands
                               => disk'[Dst(n)'] = disk'[Src(n)']
        BY <2>1 DEF HandsFull
      <4>1. CASE n = m
        BY <2>3, <2>7, <4>1
      <4>2. CASE n # m
        <5>1. /\ Uses(n)' <=> Uses(n)
              /\ Makes(n)' <=> Makes(n)
              /\ At(n, "commit")' <=> At(n, "commit")
              /\ Src(n)' = Src(n) /\ Dst(n)' = Dst(n)
          BY <2>3, <4>2, OthersHold
        <5>2. /\ Uses(n) /\ Src(n)[1] \in Root => Src(n) # Src(m) /\ Src(n) \in Place
              /\ Makes(n) => Dst(n) # Src(m) /\ Dst(n) \in Place
              /\ At(n, "commit") => Makes(n) /\ Uses(n) /\ Src(n) \in Place
          BY <1>0, <3>0, <4>2, InHandFacts DEF HandsApart
        <5>3. At(n, "commit") /\ disk'[Src(n)] \in Bytes => Src(n) # Src(m)
          BY <2>4, StashAssumption
        <5> QED
          BY <2>4, <3>0, <5>1, <5>2, <5>3 DEF HandsFull
      <4> QED
        BY <4>1, <4>2
    <3>3. BytesSafe'
      <4> SUFFICES ASSUME NEW b \in Bytes \ hands PROVE \E q \in Place : disk'[q] = b /\ Safe(q)'
        BY <2>1 DEF BytesSafe
      <4>1. PICK q \in Place : disk[q] = b /\ Safe(q)
        BY <3>0 DEF BytesSafe
      <4>2. q # Src(m)
        BY <1>0, <4>1 DEF Safe
      <4>3. Safe(q)'
        BY <2>3, <2>7, <4>1, OthersHold DEF Safe
      <4> QED
        BY <2>4, <4>1, <4>2, <4>3
    <3> QED
      BY <3>1, <3>2, <3>3
  <2>9. SorterOK(m)' /\ OwnApart(m)
    BY <2>3 DEF SorterOK, OwnApart
  <2>10. OrderInv /\ Orderly =>
           ~crossed' /\ FilesThere' /\ NotFiledYet' /\ LeftBehind' /\ Fetched' /\ ClerkKnows(m)'
    <3> SUFFICES ASSUME OrderInv, Orderly
                 PROVE  /\ ~crossed' /\ FilesThere' /\ NotFiledYet' /\ LeftBehind' /\ Fetched'
                        /\ ClerkKnows(m)'
      OBVIOUS
    <3>0. ~crossed /\ FilesThere /\ NotFiledYet /\ LeftBehind /\ Fetched /\ ClerkKnows(m) /\ HandsApart
      BY DEF OrderInv, CoreInv
    <3>1. \A r \in LiveRows : PlaceOf(r) # Src(m) /\ PlaceOf(r) \in Place
      BY <1>0, <3>0, RowFacts, Geography DEF LeftBehind
    <3>2. FilesThere'
      BY <2>2, <2>4, <3>0, <3>1 DEF FilesThere, SameRows
    <3>3. NotFiledYet' /\ LeftBehind'
      BY <2>2, <2>3, <2>7, <3>0, OthersHold DEF NotFiledYet, LeftBehind, SameRows
    <3>4. Fetched'
      <4> SUFFICES ASSUME NEW n \in Mover, At(n, "commit")' PROVE disk'[Dst(n)'] \in Bytes
        BY DEF Fetched
      <4>1. n # m
        BY <2>7
      <4>2. At(n, "commit") /\ Makes(n) /\ Dst(n)' = Dst(n) /\ Dst(n) \in Place
        BY <2>3, <4>1, OthersHold, InHandFacts
      <4>3. Dst(n) # Src(m)
        BY <1>0, <3>0, <4>1, <4>2 DEF HandsApart
      <4> QED
        BY <2>4, <3>0, <4>2, <4>3 DEF Fetched
    <3> QED
      BY <2>1, <2>3, <3>0, <3>2, <3>3, <3>4
  <2> QED
    BY <2>1, <2>2, <2>3, <2>5, <2>6, <2>8, <2>9, <2>10, DeedKeeps
<1> QED
  BY <1>1, <1>2 DEF Unlink, Src

\* A destination that was free is taken up, and a source that no other run has in hand,
\* unless the library is crossed from then on.
LEMMA LinkKeeps ==
  ASSUME CoreInv, NEW m \in Mover, Link(m)
  PROVE  CoreInv' /\ (OneRestructure /\ OrderInv => OrderInv')
<1>0. /\ StashTypeOK /\ At(m, "link") /\ Handles(m) /\ ~At(m, "unlink") /\ task[m] \in Runs
      /\ Src(m) \in Place /\ Dst(m) \in Place /\ Src(m) # Dst(m) /\ Dst(m)[1] \in Root
      /\ Dst(m) \in Root \X Path
  <2>1. At(m, "link") /\ Handles(m) /\ ~At(m, "unlink")
    BY DEF Link, Handles, At
  <2> QED
    BY <2>1, InHandFacts, RunFacts DEF CoreInv
<1> DEFINE same == Device[Src(m)[1]] = Device[Dst(m)[1]]
           taken == Src(m)[1] \in Root /\ \E n \in Mover \ {m} : Src(m) \in InHand(n)
<1>1. CASE FileFails(m) /\ UNCHANGED <<disk, noted, crossed>>
  BY <1>0, <1>1, FailKeeps DEF Link, libraryVars, reconcilerVars, past
<1>2. CASE /\ Has(Src(m)) /\ disk[Dst(m)] = Nothing
           /\ disk' = [disk EXCEPT ![Dst(m)] = IF same THEN disk[Src(m)] ELSE Half]
           /\ task' = [task EXCEPT ![m].at = IF same THEN "commit" ELSE "copy",
                                   ![m].job.saw = disk[Src(m)]]
           /\ noted' = Notes(Dst(m), "none")
           /\ crossed' = (crossed \/ taken)
           /\ UNCHANGED waiting
  <2>1. PICK where \in {"link", "copy", "commit", "unlink"} :
               where = IF same THEN "commit" ELSE "copy"
    OBVIOUS
  <2>2. PICK c \in Content : /\ c = IF same THEN disk[Src(m)] ELSE Half
                             /\ c # Nothing /\ (where = "commit" => c = disk[Src(m)])
    <3>1. disk[Src(m)] # Nothing /\ disk[Src(m)] \in Content /\ Half \in Content /\ Half # Nothing
      BY <1>0, <1>2, StashAssumption DEF Has, StashTypeOK, Content
    <3> QED
      BY <2>1, <3>1
  <2>3. PICK new \in Runs : /\ task' = [task EXCEPT ![m] = new] /\ new.at = where
                            /\ new.kind = task[m].kind /\ new.to = task[m].to
                            /\ new.tpl = task[m].tpl /\ new.left = task[m].left
                            /\ new.jobs = task[m].jobs /\ new.flipped = task[m].flipped
                            /\ new.job.row = task[m].job.row /\ new.job.src = task[m].job.src
                            /\ new.job.dst = task[m].job.dst
    <3> DEFINE j == [task[m].job EXCEPT !.saw = disk[Src(m)]]
               n == [task[m] EXCEPT !.at = where, !.job = j]
    <3>1. task' = [task EXCEPT ![m] = n]
      <4>1. task' = [task EXCEPT ![m].at = where, ![m].job.saw = disk[Src(m)]]
        BY <1>2, <2>1
      <4>2. task \in [Mover -> Runs]
        BY <1>0 DEF StashTypeOK
      <4> QED
        BY <4>1, <4>2 DEF Runs
    <3>2. task[m].job \in FileJobs /\ disk[Src(m)] \in Content
      BY <1>0, RunFacts DEF StashTypeOK
    <3>3. j \in FileJobs /\ j.row = task[m].job.row /\ j.src = task[m].job.src /\ j.dst = task[m].job.dst
      BY <3>2 DEF FileJobs
    <3> HIDE DEF j
    <3>4. where \in Steps
      BY DEF Steps
    <3>5. /\ n \in Runs /\ n.at = where
          /\ n.kind = task[m].kind /\ n.to = task[m].to
          /\ n.tpl = task[m].tpl /\ n.left = task[m].left
          /\ n.jobs = task[m].jobs /\ n.flipped = task[m].flipped
          /\ n.job = j
      BY <1>0, <3>3, <3>4 DEF Runs
    <3> QED
      BY <3>1, <3>3, <3>5
  <2>4. UNCHANGED <<row, coll, tpl, waiting, reach, missing, scan, event, hands>>
    BY <1>2 DEF Link, libraryVars
  <2>5. LiveRows' = LiveRows /\ SameRows
    BY <2>4, SameRowsIfSame DEF LiveRows
  <2>6. /\ task' \in [Mover -> Runs] /\ task'[m] = new /\ OthersStay(m) /\ RunOK(m)'
        /\ Src(m)' = Src(m) /\ Dst(m)' = Dst(m) /\ Handles(m)'
        /\ OwnLoot(m)' = OwnLoot(m)
    BY <1>0, <2>3, <2>5, GoesOn
  <2>7. SorterOK(m)' /\ OwnApart(m)
    BY <1>0, <2>3, <2>4, <2>5, <2>6, SorterHolds
  <2>8. /\ Uses(m)' /\ Makes(m)' /\ ~At(m, "unlink")'
        /\ At(m, "commit")' => c = disk[Src(m)]
    BY <2>1, <2>2, <2>3, <2>6 DEF Uses, Makes, At
  <2>9. /\ disk'[Dst(m)] = c /\ \A p \in Place : p # Dst(m) => disk'[p] = disk[p]
        /\ disk' \in [Place -> Content]
    BY <1>0, <1>2, <2>2 DEF StashTypeOK
  <2>10. StashTypeOK'
    <3>1. noted' \in [Place -> {"none", "unlink", "change"}]
      BY <1>0, <1>2, NotesAreTyped
    <3>2. crossed' \in BOOLEAN
      BY <1>2
    <3> QED
      BY <1>0, <2>4, <2>5, <2>6, <2>9, <3>1, <3>2 DEF StashTypeOK, NoEvent
  <2>11. InboxWhole'
    <3>1. \A p \in Path : <<Inbox, p>> \in Place /\ <<Inbox, p>> # Dst(m)
      BY <1>0, Geography
    <3> QED
      BY <2>9, <3>1 DEF CoreInv, InboxWhole
  <2>12. \A n \in Mover : n # m => /\ Uses(n) \/ Makes(n) => Src(n) \in InHand(n)
                                   /\ Makes(n) => Dst(n) \in InHand(n)
    BY DEF InHand, Uses, Makes, At, Src, Dst
  <2>13. CrossInv'
    <3> SUFFICES ASSUME ~crossed, ~taken PROVE HandsApart' /\ HandsFull' /\ BytesSafe'
      BY <1>2 DEF CrossInv
    <3>0. HandsApart /\ HandsFull /\ BytesSafe
      BY DEF CoreInv
    <3>1. ASSUME NEW n \in Mover, n # m
          PROVE  /\ Uses(n)' <=> Uses(n)
                 /\ Makes(n)' <=> Makes(n)
                 /\ At(n, "commit")' <=> At(n, "commit")
                 /\ At(n, "unlink")' <=> At(n, "unlink")
                 /\ Src(n)' = Src(n) /\ Dst(n)' = Dst(n)
                 /\ Uses(n) => /\ Src(n) # Dst(m) /\ Src(n) \in Place
                               /\ Src(m)[1] \in Root => Src(m) # Src(n)
                               /\ Src(n)[1] \in Root => Src(n) # Src(m)
                 /\ Makes(n) => /\ Dst(n) # Dst(m) /\ Dst(n) # Src(m) /\ Dst(n) \in Place
                                /\ Uses(n)
                 /\ At(n, "commit") => Makes(n)
      <4>1. /\ Uses(n) => Src(n) \in Place
            /\ Makes(n) => Dst(n) \in Place /\ Dst(n)[1] \in Root /\ Uses(n)
            /\ At(n, "commit") => Makes(n)
        BY InHandFacts
      <4>2. Uses(n) => Src(n) # Dst(m)
        BY <1>0, <1>2, <3>0 DEF HandsFull
      <4>3. Makes(n) => Dst(n) # Dst(m)
        BY <1>2, <3>0 DEF HandsFull
      <4>4. Uses(n) /\ Src(m)[1] \in Root => Src(m) # Src(n)
        BY <2>12, <3>1
      <4>5. Makes(n) => Dst(n) # Src(m)
        BY <2>12, <3>1, <4>1
      <4> QED
        BY <2>6, <3>1, <4>1, <4>2, <4>3, <4>4, <4>5, OthersHold
    <3>2. HandsApart'
      <4> SUFFICES ASSUME NEW n \in Mover, NEW o \in Mover, n # o
                   PROVE  /\ Uses(n)' /\ Uses(o)' /\ Src(n)'[1] \in Root => Src(n)' # Src(o)'
                          /\ Uses(n)' /\ Makes(o)' => Src(n)' # Dst(o)'
                          /\ Makes(n)' /\ Makes(o)' => Dst(n)' # Dst(o)'
        BY DEF HandsApart
      <4>1. CASE n # m /\ o # m
        BY <3>0, <3>1, <4>1 DEF HandsApart
      <4>2. CASE n = m
        BY <2>6, <3>1, <4>2
      <4>3. CASE o = m
        BY <2>6, <3>1, <4>3
      <4> QED
        BY <4>1, <4>2, <4>3
    <3>3. HandsFull'
      <4> SUFFICES ASSUME NEW n \in Mover
                   PROVE  /\ Uses(n)' /\ Src(n)'[1] \in Root => disk'[Src(n)'] # Nothing
                          /\ Makes(n)' => disk'[Dst(n)'] # Nothing
                          /\ At(n, "commit")' /\ disk'[Src(n)'] \in Bytes \ hands
                               => disk'[Dst(n)'] = disk'[Src(n)']
        BY <2>4 DEF HandsFull
      <4>1. CASE n = m
        <5>1. disk'[Src(m)] = disk[Src(m)] /\ disk[Src(m)] # Nothing
          BY <1>0, <1>2, <2>9 DEF Has
        <5> QED
          BY <2>2, <2>6, <2>8, <2>9, <4>1, <5>1
      <4>2. CASE n # m
        <5>1. /\ Uses(n) => disk'[Src(n)] = disk[Src(n)]
              /\ Makes(n) => disk'[Dst(n)] = disk[Dst(n)]
          BY <2>9, <3>1, <4>2
        <5> QED
          BY <3>0, <3>1, <4>2, <5>1 DEF HandsFull
      <4> QED
        BY <4>1, <4>2
    <3>4. BytesSafe'
      <4> SUFFICES ASSUME NEW b \in Bytes \ hands PROVE \E q \in Place : disk'[q] = b /\ Safe(q)'
        BY <2>4 DEF BytesSafe
      <4>1. PICK q \in Place : disk[q] = b /\ Safe(q)
        BY <3>0 DEF BytesSafe
      <4>2. q # Dst(m)
        BY <1>2, <4>1, StashAssumption
      <4>3. Safe(q)'
        BY <2>6, <2>8, <3>1, <4>1, <4>2 DEF Safe
      <4> QED
        BY <2>9, <4>1, <4>2, <4>3
    <3> QED
      BY <3>2, <3>3, <3>4
  <2>14. OneRestructure /\ OrderInv /\ Orderly =>
           ~crossed' /\ FilesThere' /\ NotFiledYet' /\ LeftBehind' /\ Fetched' /\ ClerkKnows(m)'
    <3> SUFFICES ASSUME OneRestructure, OrderInv, Orderly
                 PROVE  /\ ~crossed' /\ FilesThere' /\ NotFiledYet' /\ LeftBehind' /\ Fetched'
                        /\ ClerkKnows(m)'
      OBVIOUS
    <3>0. ~crossed /\ FilesThere /\ NotFiledYet /\ LeftBehind /\ Fetched /\ ClerkKnows(m)
          /\ HandsFull
      BY DEF OrderInv, CoreInv
    <3>1. ~taken
      <4> SUFFICES ASSUME Src(m)[1] \in Root, NEW n \in Mover \ {m}, Src(m) \in InHand(n)
                   PROVE  FALSE
        OBVIOUS
      <4>1. ~Adopting(m) /\ m \in Clerk /\ task[m].job.row \in LiveRows
        BY <1>0, InHandFacts
      <4>2. Src(m) = PlaceOf(task[m].job.row)
        BY <1>0, <3>0, <4>1 DEF ClerkKnows, JobFits, Src
      <4>3. (Makes(n) /\ (Src(m) = Src(n) \/ Src(m) = Dst(n))) \/ (At(n, "unlink") /\ Src(m) = Src(n))
        BY DEF InHand, Makes, Src, Dst
      <4>4. ~(Makes(n) /\ Src(m) = Dst(n)) /\ ~(At(n, "unlink") /\ Src(m) = Src(n))
        BY <3>0, <4>1, <4>2 DEF NotFiledYet, LeftBehind
      <4>5. Makes(n) /\ Src(m) = Src(n) /\ Handles(n)
        BY <4>3, <4>4, InHandFacts
      <4>6. ~Adopting(n) /\ n \in Clerk
        BY <4>5, InHandFacts
      <4> QED
        BY <4>1, <4>6 DEF OneRestructure
    <3>2. \A r \in LiveRows : PlaceOf(r) # Dst(m) /\ PlaceOf(r) \in Place
      BY <1>0, <1>2, <3>0, RowFacts, Geography, StashAssumption DEF FilesThere
    <3>3. FilesThere'
      BY <2>5, <2>9, <3>0, <3>2 DEF FilesThere, SameRows
    <3>4. NotFiledYet' /\ LeftBehind'
      BY <2>5, <2>6, <2>8, <3>0, <3>2, OthersHold DEF NotFiledYet, LeftBehind, SameRows
    <3>5. Fetched'
      <4> SUFFICES ASSUME NEW n \in Mover, At(n, "commit")' PROVE disk'[Dst(n)'] \in Bytes
        BY DEF Fetched
      <4>1. CASE n = m
        <5>1. disk[Src(m)] \in Bytes
          BY <1>0, <1>2, SourceIsKept DEF Has
        <5> QED
          BY <2>6, <2>8, <2>9, <4>1, <5>1
      <4>2. CASE n # m
        <5>1. At(n, "commit") /\ Makes(n) /\ Dst(n)' = Dst(n) /\ Dst(n) \in Place
          BY <2>6, <4>2, OthersHold, InHandFacts
        <5>2. Dst(n) # Dst(m)
          BY <1>2, <3>0, <5>1 DEF HandsFull
        <5> QED
          BY <2>9, <3>0, <5>1, <5>2 DEF Fetched
      <4> QED
        BY <4>1, <4>2
    <3>6. ClerkKnows(m)'
      BY <1>0, <2>3, <2>5, <2>6, <3>0, ClerkHolds
    <3>7. ~crossed'
      BY <1>2, <3>0, <3>1
    <3> QED
      BY <3>3, <3>4, <3>5, <3>6, <3>7
  <2> QED
    BY <2>4, <2>5, <2>6, <2>7, <2>10, <2>11, <2>13, <2>14, DeedKeeps
<1>3. \/ FileFails(m) /\ UNCHANGED <<disk, noted, crossed>>
      \/ /\ Has(Src(m)) /\ disk[Dst(m)] = Nothing
         /\ disk' = [disk EXCEPT ![Dst(m)] = IF same THEN disk[Src(m)] ELSE Half]
         /\ task' = [task EXCEPT ![m].at = IF same THEN "commit" ELSE "copy",
                                 ![m].job.saw = disk[Src(m)]]
         /\ noted' = Notes(Dst(m), "none")
         /\ crossed' = (crossed \/ taken)
         /\ UNCHANGED waiting
  <2>1. crossed \in BOOLEAN
    BY <1>0 DEF StashTypeOK
  <2> DEFINE free == Has(Src(m)) /\ Mounted(Dst(m)[1]) /\ disk[Dst(m)] = Nothing
  <2>2. CASE free
    BY <2>2 DEF Link, Src, Dst
  <2>3. CASE ~free
    BY <2>1, <2>3 DEF Link, Src, Dst
  <2> QED
    BY <2>2, <2>3
<1> QED
  BY <1>1, <1>2, <1>3

\* The row has moved: the source is what the run counts on from now on, and the copy is
\* there for whoever else cares for the bytes.
LEMMA CommitIsSafe ==
  ASSUME CoreInv, NEW m \in Mover, At(m, "commit"), UNCHANGED <<disk, hands, crossed>>,
         OthersStay(m), At(m, "unlink")', Src(m)' = Src(m)
  PROVE  InboxWhole' /\ CrossInv'
<1>0. /\ Makes(m) /\ Uses(m) /\ Dst(m) \in Place /\ Src(m) # Dst(m)
  BY InHandFacts
<1>1. ~Makes(m)' /\ ~At(m, "commit")' /\ Uses(m)'
  BY DEF Makes, At, Uses
<1>2. InboxWhole'
  BY DEF CoreInv, InboxWhole
<1>3. CrossInv'
  <2> SUFFICES ASSUME ~crossed PROVE HandsApart' /\ HandsFull' /\ BytesSafe'
    BY DEF CrossInv
  <2>0. HandsApart /\ HandsFull /\ BytesSafe
    BY DEF CoreInv
  <2>1. \A n \in Mover : /\ Uses(n)' <=> Uses(n)
                         /\ Makes(n)' => Makes(n) /\ Dst(n)' = Dst(n)
                         /\ At(n, "commit")' => At(n, "commit") /\ Dst(n)' = Dst(n)
                         /\ Src(n)' = Src(n)
    BY <1>0, <1>1, OthersHold
  <2>2. HandsApart'
    BY <2>0, <2>1 DEF HandsApart
  <2>3. HandsFull'
    BY <2>0, <2>1 DEF HandsFull
  <2>4. BytesSafe'
    <3> SUFFICES ASSUME NEW b \in Bytes \ hands PROVE \E q \in Place : disk[q] = b /\ Safe(q)'
      BY DEF BytesSafe
    <3>1. PICK p \in Place : disk[p] = b /\ Safe(p)
      BY <2>0 DEF BytesSafe
    <3>2. CASE p # Src(m)
      <4>1. Safe(p)'
        BY <1>1, <3>1, <3>2, OthersHold DEF Safe
      <4> QED
        BY <3>1, <4>1
    <3>3. CASE p = Src(m)
      <4>0. PICK d \in Place : d = Dst(m)
        BY <1>0
      <4>1. disk[d] = b
        BY <2>0, <3>1, <3>3, <4>0 DEF HandsFull
      <4>2. \A n \in Mover : n # m => /\ At(n, "unlink") => Src(n) # d
                                      /\ Makes(n) => Dst(n) # d
        BY <1>0, <2>0, <4>0, InHandFacts DEF HandsApart
      <4>3. Safe(d)'
        <5> SUFFICES ASSUME NEW n \in Mover
                     PROVE  /\ At(n, "unlink")' => Src(n)' # d
                            /\ Makes(n)' => Dst(n)' # d
          BY DEF Safe
        <5>1. CASE n = m
          BY <1>0, <1>1, <4>0, <5>1
        <5>2. CASE n # m
          BY <4>2, <5>2, OthersHold
        <5> QED
          BY <5>1, <5>2
      <4> QED
        BY <4>1, <4>3
    <3> QED
      BY <3>2, <3>3
  <2> QED
    BY <2>2, <2>3, <2>4
<1> QED
  BY <1>2, <1>3

\* In an orderly library the row of the file is at the new place then, and all others
\* are where they were.
LEMMA CommitInOrder ==
  ASSUME CoreInv, OrderInv, Orderly, NEW m \in Mover, At(m, "commit"),
         UNCHANGED <<disk, crossed>>, OthersStay(m), At(m, "unlink")',
         Src(m)' = Src(m), \A n \in Mover : ClerkKnows(n)',
         NEW r0 \in Row, LiveRows' = LiveRows \cup {r0},
         r0 \in LiveRows => Src(m) = PlaceOf(r0),
         r0 \notin LiveRows => Src(m)[1] = Inbox,
         PlaceOf(r0)' = Dst(m),
         \A r \in LiveRows : r # r0 => PlaceOf(r)' = PlaceOf(r) /\ row'[r].of = row[r].of,
         row'[r0].of \in Bytes => disk[Dst(m)] = row'[r0].of
  PROVE  OrderInv'
<1>0. /\ StashTypeOK /\ ~crossed /\ FilesThere /\ RowsApart /\ NotFiledYet /\ LeftBehind
      /\ Fetched /\ HandsApart
  BY DEF CoreInv, OrderInv
<1>1. Makes(m) /\ Uses(m) /\ Dst(m) # Src(m) /\ ~Makes(m)' /\ ~At(m, "commit")'
  <2>1. ~Makes(m)' /\ ~At(m, "commit")'
    BY DEF Makes, At
  <2> QED
    BY <2>1, InHandFacts
<1>2. \A r \in LiveRows : PlaceOf(r) # Dst(m) /\ PlaceOf(r) \in Root \X Path
  BY <1>0, <1>1, RowFacts DEF NotFiledYet
<1>3. FilesThere'
  <2> SUFFICES ASSUME NEW r \in LiveRows'
               PROVE  /\ disk[PlaceOf(r)'] \in Bytes
                      /\ row'[r].of \in Bytes => disk[PlaceOf(r)'] = row'[r].of
    BY DEF FilesThere
  <2>1. CASE r = r0
    BY <1>0, <2>1 DEF Fetched
  <2>2. CASE r # r0
    BY <1>0, <2>2 DEF FilesThere
  <2> QED
    BY <2>1, <2>2
<1>4. RowsApart'
  <2> SUFFICES ASSUME NEW q \in LiveRows', NEW r \in LiveRows', q # r
               PROVE  PlaceOf(q)' # PlaceOf(r)'
    BY DEF RowsApart
  <2>1. CASE q = r0
    BY <1>2, <2>1
  <2>2. CASE r = r0
    BY <1>2, <2>2
  <2>3. CASE q # r0 /\ r # r0
    BY <1>0, <2>3 DEF RowsApart
  <2> QED
    BY <2>1, <2>2, <2>3
<1>5. NotFiledYet'
  <2> SUFFICES ASSUME NEW r \in LiveRows', NEW n \in Mover, Makes(n)' PROVE PlaceOf(r)' # Dst(n)'
    BY DEF NotFiledYet
  <2>1. n # m /\ Makes(n) /\ Dst(n)' = Dst(n)
    BY <1>1, OthersHold
  <2>2. Dst(n) # Dst(m)
    BY <1>0, <1>1, <2>1 DEF HandsApart
  <2> QED
    BY <1>0, <2>1, <2>2 DEF NotFiledYet
<1>6. LeftBehind'
  <2> SUFFICES ASSUME NEW r \in LiveRows', NEW n \in Mover, At(n, "unlink")'
               PROVE  PlaceOf(r)' # Src(n)'
    BY DEF LeftBehind
  <2>1. CASE n = m
    <3>1. CASE r = r0
      BY <1>1, <2>1, <3>1
    <3>2. CASE r # r0 /\ r0 \in LiveRows
      BY <1>0, <2>1, <3>2 DEF RowsApart
    <3>3. CASE r # r0 /\ r0 \notin LiveRows
      <4>1. PlaceOf(r)[1] # Inbox
        BY <1>2, <3>3, Geography
      <4> QED
        BY <2>1, <3>3, <4>1
    <3> QED
      BY <3>1, <3>2, <3>3
  <2>2. CASE n # m
    <3>1. At(n, "unlink") /\ Uses(n) /\ Src(n)' = Src(n)
      BY <2>2, OthersHold, InHandFacts
    <3>2. Src(n) # Dst(m)
      BY <1>0, <1>1, <2>2, <3>1 DEF HandsApart
    <3> QED
      BY <1>0, <3>1, <3>2 DEF LeftBehind
  <2> QED
    BY <2>1, <2>2
<1>7. Fetched'
  BY <1>0, <1>1, OthersHold DEF Fetched
<1> QED
  BY <1>0, <1>3, <1>4, <1>5, <1>6, <1>7 DEF OrderInv

LEMMA ClerkStaysBy ==
  ASSUME NEW n \in Mover, ClerkKnows(n), RunOK(n), task'[n] = task[n],
         \A r \in LiveRows : PlaceOf(r)' = PlaceOf(r)
  PROVE  ClerkKnows(n)'
<1> SUFFICES ASSUME ~Adopting(n)' PROVE ClerkKnows(n)'
  BY DEF ClerkKnows
<1>1. ~Adopting(n) /\ Handles(n)' = Handles(n) /\ At(n, "file")' = At(n, "file")
      /\ At(n, "unlink")' = At(n, "unlink")
  BY DEF Adopting, Handles, At
<1>2. \A j \in task[n].jobs : JobFits(n, j) => JobFits(n, j)'
  BY DEF JobFits, RunOK
<1>3. Handles(n) => (JobFits(n, task[n].job) => JobFits(n, task[n].job)')
  BY <1>1 DEF JobFits, RunOK
<1> QED
  BY <1>1, <1>2, <1>3 DEF ClerkKnows

LEMMA CommitKeeps ==
  ASSUME CoreInv, NEW m \in Mover, Commit(m)
  PROVE  CoreInv' /\ (OneRestructure /\ OrderInv => OrderInv')
<1>a. PICK r0 \in Row : r0 = task[m].job.row
  BY InHandFacts DEF Commit
<1>0. /\ StashTypeOK /\ At(m, "commit") /\ Makes(m) /\ Handles(m) /\ ~At(m, "unlink")
      /\ task[m] \in Runs /\ Src(m) \in Place /\ Dst(m) \in Place /\ Dst(m) \in Root \X Path
      /\ r0 = task[m].job.row /\ r0 \in Row /\ LootOf[r0] = OwnLoot(m)
      /\ RunOK(m) /\ Dst(m) = <<Dst(m)[1], Dst(m)[2]>> /\ Dst(m)[2] \in Path
  <2>1. At(m, "commit") /\ Makes(m) /\ Handles(m) /\ ~At(m, "unlink")
    BY DEF Commit, Handles, Makes, At
  <2> QED
    BY <1>a, <2>1, InHandFacts, RunFacts, Geography DEF CoreInv, OwnLoot
<1>1. PICK new \in Runs : /\ task' = [task EXCEPT ![m] = new] /\ new.at = "unlink"
                          /\ new.kind = task[m].kind /\ new.to = task[m].to
                          /\ new.tpl = task[m].tpl /\ new.left = task[m].left
                          /\ new.jobs = task[m].jobs /\ new.flipped = task[m].flipped
                          /\ new.job = task[m].job
  <2> DEFINE n == [task[m] EXCEPT !.at = "unlink"]
  <2>1. task' = [task EXCEPT ![m] = n]
    BY DEF Commit, Goes
  <2>2. /\ n \in Runs /\ n.at = "unlink"
        /\ n.kind = task[m].kind /\ n.to = task[m].to
        /\ n.tpl = task[m].tpl /\ n.left = task[m].left
        /\ n.jobs = task[m].jobs /\ n.flipped = task[m].flipped
        /\ n.job = task[m].job
    BY <1>0 DEF Runs, Steps
  <2> QED
    BY <2>1, <2>2
<1>2. UNCHANGED <<disk, tpl, waiting, reach, missing, scan, noted, event, hands, crossed>>
  BY DEF Commit, reconcilerVars, past
<1>3. LiveRows \subseteq LiveRows' =>
        /\ task' \in [Mover -> Runs] /\ task'[m] = new /\ OthersStay(m) /\ RunOK(m)'
        /\ Src(m)' = Src(m) /\ Dst(m)' = Dst(m) /\ Handles(m)'
        /\ Adopting(m)' <=> Adopting(m)
  BY <1>0, <1>1, GoesOn
<1>4. task' \in [Mover -> Runs] /\ task'[m] = new /\ OthersStay(m) /\ At(m, "unlink")' /\ Src(m)' = Src(m)
  BY <1>0, <1>1, RunsAreTyped DEF At, Src
<1>5. ~Unfiled(m)'
  BY <1>1, <1>4 DEF Unfiled, Sorting, At
<1>6. InboxWhole' /\ CrossInv'
  BY <1>0, <1>2, <1>4, CommitIsSafe
<1>7. ClerkKnows(m) => ClerkKnows(m)'
  BY <1>0, <1>1, <1>4 DEF ClerkKnows, Handles, At, Adopting
<1>8. CASE Adopting(m)
  <2>1. Unfiled(m) /\ task[m].kind # "move"
    BY <1>0, <1>8 DEF Unfiled, Adopting, Adopts
  <2>2. UNCHANGED coll
    BY <2>1 DEF Commit
  <2>3. PICK x \in RowData : /\ row' = [row EXCEPT ![r0] = x] /\ x.path = Dst(m)[2]
                             /\ x.of \in Bytes => x.of = disk[Dst(m)]
    <3>1. PICK p \in Place : p = Dst(m)
      BY <1>0
    <3>2. PICK how \in InboxWays : how = "moved"
      BY DEF InboxWays
    <3>3. StashTypeOK
      BY <1>0
    <3>4. p[2] \in Path
      BY <1>0, <3>1
    <3>5. PICK x \in RowData : /\ x = InboxRow(p[2], p, how) /\ x.path = p[2]
                               /\ Has(p) => x.of = disk[p]
                               /\ ~Has(p) => x.of = Other
      BY <3>3, <3>4, InboxRowIsTyped
    <3>6. row' = [row EXCEPT ![r0] = InboxRow(task[m].job.dst[2], task[m].job.dst, "moved")]
      BY <1>0, <1>8 DEF Commit, Adopting
    <3>7. InboxRow(task[m].job.dst[2], task[m].job.dst, "moved") = InboxRow(p[2], p, how)
      BY <3>1, <3>2 DEF Dst
    <3>8. x.of \in Bytes => x.of = disk[p]
      BY <3>5, StashAssumption
    <3> QED
      BY <3>1, <3>5, <3>6, <3>7, <3>8
  <2>4. /\ row' \in [Row -> {NoRow} \cup RowData] /\ row'[r0] = x
        /\ LiveRows' = LiveRows \cup {r0} /\ r0 \notin LiveRows
        /\ \A r \in LiveRows' : coll'[LootOf[r]] # NoColl
        /\ \A r \in LiveRows : /\ row'[r] = row[r] /\ PlaceOf(r)' = PlaceOf(r)
                               /\ LootOf[r] # OwnLoot(m)
        /\ \A n \in Mover : n # m => RunOK(n)'
        /\ SortersOK'
    BY <1>0, <1>4, <1>5, <2>1, <2>2, <2>3, RowArrives
  <2>5. RunOK(m)'
    BY <1>3, <2>4
  <2>6. StashTypeOK'
    BY <1>0, <1>2, <1>4, <2>2, <2>4 DEF StashTypeOK, NoEvent
  <2>7. OneRestructure /\ OrderInv => OrderInv'
    <3> SUFFICES ASSUME OrderInv, Orderly' PROVE OrderInv'
      BY DEF OrderInv
    <3>1. Orderly
      <4>1. \A r \in LiveRows : RowsOf(LootOf[r])' = RowsOf(LootOf[r])
        BY <1>0, <2>4 DEF RowsOf
      <4> QED
        BY <1>2, <2>4, <4>1 DEF Orderly, Single
    <3>2. \A n \in Mover : ClerkKnows(n)
      BY <3>1 DEF OrderInv
    <3>3. ASSUME NEW n \in Mover, n # m PROVE ClerkKnows(n)'
      <4>1. ClerkKnows(n) /\ RunOK(n) /\ task'[n] = task[n]
        BY <1>4, <3>2, <3>3 DEF CoreInv, OthersStay
      <4>2. \A r \in LiveRows : PlaceOf(r)' = PlaceOf(r)
        BY <2>4
      <4> QED
        BY <4>1, <4>2, ClerkStaysBy
    <3>4. PlaceOf(r0)' = Dst(m)
      <4>1. coll[OwnLoot(m)] = task[m].to /\ Dst(m)[1] = RootOf[task[m].to]
        BY <1>0, <2>1 DEF CoreInv, SortersOK, SorterOK
      <4>2. row'[r0].path = x.path
        BY <2>4
      <4>3. PlaceOf(r0)' = <<RootOf[coll[LootOf[r0]]], x.path>>
        BY <2>2, <4>2 DEF PlaceOf, RootFor
      <4> QED
        BY <1>0, <2>3, <4>1, <4>3 DEF OwnLoot
    <3>5. Src(m)[1] = Inbox
      BY <1>0, <1>8, InHandFacts
    <3> QED
      BY <1>0, <1>2, <1>4, <1>7, <2>3, <2>4, <3>1, <3>2, <3>3, <3>4, <3>5, CommitInOrder
  <2>8. \A n \in Mover : RunOK(n)'
    BY <2>4, <2>5
  <2> QED
    BY <1>6, <2>4, <2>6, <2>7, <2>8 DEF CoreInv, CrossInv
<1>9. CASE ~Adopting(m)
  <2>0. r0 \in LiveRows /\ m \in Clerk
    BY <1>0, <1>9, InHandFacts
  <2> DEFINE l0 == LootOf[r0]
             turns == task[m].kind = "move" /\ ~task[m].flipped
  <2>1. PICK x \in RowData : /\ row' = [row EXCEPT ![r0] = x] /\ x.path = Dst(m)[2]
                             /\ x.of = row[r0].of /\ x.by = row[r0].by
    <3> DEFINE n == [row[r0] EXCEPT !.path = Dst(m)[2]]
    <3>1. row' = [row EXCEPT ![r0] = n]
      BY <1>0, <1>9 DEF Commit, Adopting, Dst
    <3>2. row[r0] \in RowData
      BY <1>0, <2>0, RowFacts
    <3>3. n \in RowData /\ n.path = Dst(m)[2] /\ n.of = row[r0].of /\ n.by = row[r0].by
      BY <1>0, <3>2 DEF RowData
    <3> QED
      BY <3>1, <3>3
  <2>2. /\ row' \in [Row -> {NoRow} \cup RowData] /\ row'[r0] = x
        /\ \A r \in Row : r # r0 => row'[r] = row[r]
        /\ LiveRows' = LiveRows
    <3>1. /\ row' \in [Row -> {NoRow} \cup RowData] /\ row'[r0] = x
          /\ \A r \in Row : r # r0 => row'[r] = row[r]
      BY <1>0, <2>1 DEF StashTypeOK
    <3>2. x # NoRow /\ row[r0] # NoRow
      BY <2>0, StashAssumption DEF LiveRows
    <3> QED
      BY <3>1, <3>2 DEF LiveRows
  <2>3. /\ coll' \in [Loot -> Collection \cup {NoColl}]
        /\ \A l \in Loot : l # l0 => coll'[l] = coll[l]
        /\ coll'[l0] \in Collection
        /\ coll'[l0] = IF turns THEN task[m].to ELSE coll[l0]
    <3>1. l0 \in Loot /\ coll[l0] \in Collection
      BY <1>0, <2>0, RowFacts
    <3>2. turns => task[m].to \in Collection
      BY <1>0 DEF RunOK
    <3>3. coll' = IF turns THEN [coll EXCEPT ![l0] = task[m].to] ELSE coll
      BY <1>0 DEF Commit
    <3>4. coll \in [Loot -> Collection \cup {NoColl}]
      BY <1>0 DEF StashTypeOK
    <3> HIDE DEF l0, turns
    <3>5. CASE turns
      BY <3>1, <3>2, <3>3, <3>4, <3>5
    <3>6. CASE ~turns
      BY <3>1, <3>3, <3>4, <3>6
    <3> QED
      BY <3>5, <3>6
  <2>4. \A r \in LiveRows' : coll'[LootOf[r]] # NoColl
    <3> SUFFICES ASSUME NEW r \in LiveRows PROVE coll'[LootOf[r]] # NoColl
      BY <2>2
    <3>1. LootOf[r] \in Loot /\ coll[LootOf[r]] \in Collection
      BY <1>0, RowFacts
    <3> QED
      BY <2>3, <3>1, StashAssumption
  <2>5. StashTypeOK'
    BY <1>0, <1>2, <1>4, <2>2, <2>3, <2>4 DEF StashTypeOK, NoEvent
  <2>6. \A n \in Mover : RunOK(n)'
    <3> SUFFICES ASSUME NEW n \in Mover PROVE RunOK(n)'
      OBVIOUS
    <3>1. CASE n = m
      BY <1>3, <2>2, <3>1
    <3>2. CASE n # m
      <4>1. task'[n] = task[n] /\ RunOK(n) /\ LiveRows \subseteq LiveRows'
        BY <1>4, <2>2, <3>2 DEF CoreInv, OthersStay
      <4> QED
        BY <4>1, RunStays
    <3> QED
      BY <3>1, <3>2
  <2>7. \A l : RowsOf(l)' = RowsOf(l)
    BY <2>2 DEF RowsOf
  <2>8. SortersOK'
    <3>1. ASSUME NEW n \in Mover \ {m}, Unfiled(n)
          PROVE  /\ RowsOf(OwnLoot(n)) = {} /\ coll'[OwnLoot(n)] = coll[OwnLoot(n)]
      <4>1. SorterOK(n) /\ RunOK(n)
        BY DEF CoreInv, SortersOK
      <4>2. RowsOf(OwnLoot(n)) = {} /\ task[n].job.row \in Row
        BY <3>1, <4>1 DEF SorterOK, RunOK, Unfiled
      <4>3. OwnLoot(n) \in Loot
        BY <4>2, StashAssumption DEF OwnLoot
      <4>4. OwnLoot(n) # l0
        BY <2>0, <4>2 DEF RowsOf
      <4> QED
        BY <2>3, <4>2, <4>3, <4>4
    <3>2. SorterOK(m)' /\ OwnApart(m) /\ OthersFiled(m)
      BY <1>5, <3>1 DEF SorterOK, OwnApart, OthersFiled
    <3>3. \A n \in Mover \ {m} : Unfiled(n) => RowsOf(OwnLoot(n))' = {}
      <4> SUFFICES ASSUME NEW n \in Mover \ {m}, Unfiled(n) PROVE RowsOf(OwnLoot(n))' = {}
        OBVIOUS
      <4>1. OwnLoot(n)' = OwnLoot(n)
        BY <1>4 DEF OthersStay, OwnLoot
      <4> QED
        BY <2>7, <3>1, <4>1
    <3> QED
      BY <1>4, <3>2, <3>3, SortersGoOn
  <2>9. OneRestructure /\ OrderInv => OrderInv'
    <3> SUFFICES ASSUME OneRestructure, OrderInv, Orderly' PROVE OrderInv'
      BY DEF OrderInv
    <3>1. Orderly
      <4>1. \A r : Single(r)' <=> Single(r)
        BY <2>7 DEF Single
      <4>2. \A r \in LiveRows : row'[r].by = row[r].by
        BY <2>1, <2>2 DEF LiveRows
      <4> QED
        BY <1>2, <2>2, <4>1, <4>2 DEF Orderly
    <3>2. /\ ~crossed /\ FilesThere /\ HandsFull /\ hands = {} /\ \A n \in Mover : ClerkKnows(n)
          /\ \A r \in LiveRows : Single(r)
      BY <3>1 DEF OrderInv, CoreInv, Orderly
    <3>3. Src(m) = PlaceOf(r0) /\ ~task[m].flipped
          /\ Dst(m)[1] = IF task[m].kind = "move" THEN RootOf[task[m].to] ELSE Src(m)[1]
      BY <1>0, <1>9, <3>2 DEF ClerkKnows, JobFits, Src, Dst
    <3>4. PlaceOf(r0)' = Dst(m)
      <4>1. row'[r0].path = Dst(m)[2]
        BY <2>1, <2>2
      <4>2. RootOf[coll'[l0]] = Dst(m)[1]
        BY <2>3, <3>3 DEF PlaceOf, RootFor
      <4>3. PlaceOf(r0)' = <<Dst(m)[1], Dst(m)[2]>>
        BY <4>1, <4>2 DEF PlaceOf, RootFor
      <4> QED
        BY <1>0, <4>3
    <3>5. ASSUME NEW r \in LiveRows, r # r0
          PROVE  PlaceOf(r)' = PlaceOf(r) /\ row'[r].of = row[r].of
      <4>1. r \in Row /\ LootOf[r] \in Loot
        BY <1>0, RowFacts
      <4>2. LootOf[r] # l0
        BY <2>0, <3>2, <3>5 DEF Single, RowsOf
      <4>3. row'[r] = row[r] /\ coll'[LootOf[r]] = coll[LootOf[r]]
        BY <2>2, <2>3, <3>5, <4>1, <4>2
      <4> QED
        BY <4>3 DEF PlaceOf, RootFor
    <3>6. ASSUME NEW n \in Mover PROVE ClerkKnows(n)'
      <4>1. CASE n = m
        BY <1>7, <3>2, <4>1
      <4>2. CASE n # m
        <5>1. task'[n] = task[n] /\ RunOK(n)
          BY <1>4, <4>2 DEF CoreInv, OthersStay
        <5>2. Adopting(n) \/ ~(At(n, "file") \/ Handles(n))
          BY <2>0, <4>2, <5>1 DEF OneRestructure, RunOK, At, Handles
        <5> QED
          BY <5>1, <5>2 DEF ClerkKnows, Adopting, At, Handles
      <4> QED
        BY <4>1, <4>2
    <3>7. row'[r0].of \in Bytes => disk[Dst(m)] = row'[r0].of
      <4>1. row'[r0].of = row[r0].of
        BY <2>1, <2>2
      <4>2. row[r0].of \in Bytes => disk[Src(m)] = row[r0].of
        BY <2>0, <3>2, <3>3 DEF FilesThere
      <4>3. disk[Src(m)] \in Bytes => disk[Dst(m)] = disk[Src(m)]
        BY <1>0, <3>2 DEF HandsFull
      <4> QED
        BY <4>1, <4>2, <4>3
    <3>8. LiveRows' = LiveRows \cup {r0}
      BY <2>0, <2>2
    <3>9. /\ \A r \in LiveRows : r # r0 => PlaceOf(r)' = PlaceOf(r) /\ row'[r].of = row[r].of
          /\ \A n \in Mover : ClerkKnows(n)'
      BY <3>5, <3>6
    <3>10. At(m, "commit") /\ UNCHANGED <<disk, crossed>>
      BY <1>0, <1>2
    <3> QED
      BY <1>4, <2>0, <3>1, <3>3, <3>4, <3>7, <3>8, <3>9, <3>10, CommitInOrder
  <2> QED
    BY <1>6, <2>5, <2>6, <2>8, <2>9 DEF CoreInv, CrossInv
<1> QED
  BY <1>8, <1>9

LEMMA SortersBegin ==
  ASSUME CoreInv, NEW m \in Sorter, TriageStarts(m) \/ ConfirmStarts(m)
  PROVE  CoreInv' /\ (OrderInv => OrderInv')
<1>1. PICK triage \in Adopts, confirm \in Adopts : triage = "triage" /\ confirm = "confirm"
  BY DEF Adopts
<1>2. triage # "confirm"
  BY <1>1
<1>3. CASE TriageStarts(m)
  <2>1. PICK p \in Path : Sorts(m, triage, p, NoColl)
    BY <1>1, <1>3 DEF TriageStarts
  <2> QED
    BY <1>2, <2>1, SortsKeep
<1>4. CASE ConfirmStarts(m)
  <2>1. PICK p \in waiting, c \in Collection : Sorts(m, confirm, p, c)
    BY <1>1, <1>4 DEF ConfirmStarts
  <2>2. p \in Path
    BY DEF CoreInv, StashTypeOK
  <2> QED
    BY <2>1, <2>2, SortsKeep
<1> QED
  BY <1>3, <1>4

-----------------------------------------------------------------------------
(* Stash: theorems *)

LEMMA StashStarts == StashInit => CoreInv /\ OrderInv
<1> SUFFICES ASSUME StashInit PROVE CoreInv /\ OrderInv
  OBVIOUS
<1>0. /\ disk = FirstDisk /\ row = FirstRow /\ coll = FirstColl /\ tpl = FirstTpl
      /\ task = [m \in Mover |-> Idle] /\ hands = {} /\ crossed = FALSE
  BY DEF StashInit
<1>1. Idle \in Runs
  BY DEF Idle, NoMove, Runs, FileJobs, Steps, RunKinds, Content
<1>2. StashTypeOK
  <2>1. disk \in [Place -> Content] /\ row \in [Row -> {NoRow} \cup RowData]
    BY <1>0, FirstAssumption DEF Content
  <2>2. /\ coll \in [Loot -> Collection \cup {NoColl}] /\ tpl \in [Collection -> Template]
        /\ \A r \in LiveRows : coll[LootOf[r]] # NoColl
    BY <1>0, FirstAssumption DEF LiveRows
  <2>3. task \in [Mover -> Runs]
    BY <1>0, <1>1
  <2>4. /\ waiting \subseteq Path /\ reach \in [Dir -> BOOLEAN] /\ missing \in [Loot -> BOOLEAN]
        /\ noted \in [Place -> {"none", "unlink", "change"}]
        /\ scan \in Scanning /\ event = NoEvent
    BY NoScanIsScan DEF StashInit
  <2> QED
    BY <1>0, <2>1, <2>2, <2>3, <2>4 DEF StashTypeOK
<1>3. ASSUME NEW m \in Mover
      PROVE  /\ RunOK(m) /\ ~Unfiled(m) /\ ~Uses(m) /\ ~Makes(m) /\ ~Handles(m)
             /\ ~At(m, "commit") /\ ~At(m, "unlink") /\ ~At(m, "file")
  <2>1. /\ task[m].at = "idle" /\ task[m].kind = "none" /\ task[m].left = {}
        /\ task[m].jobs = {}
    BY <1>0 DEF Idle
  <2> QED
    BY <2>1 DEF RunOK, Handles, Sorting, Uses, Makes, Unfiled, Adopting, RunKinds, Adopts, At
<1>4. SortersOK
  BY <1>3 DEF SortersOK, SorterOK, LootsApart
<1>5. InboxWhole
  BY <1>0, FirstAssumption, Geography DEF InboxWhole
<1>6. HandsApart /\ HandsFull
  BY <1>3 DEF HandsApart, HandsFull
<1>7. BytesSafe
  BY <1>0, <1>3, FirstAssumption DEF BytesSafe, Safe
<1>8. FilesThere /\ RowsApart
  <2>1. \A r \in LiveRows : /\ r \in {x \in Row : FirstRow[x] # NoRow}
                            /\ PlaceOf(r) = <<RootOf[FirstColl[LootOf[r]]], FirstRow[r].path>>
    BY <1>0 DEF LiveRows, PlaceOf, RootFor
  <2>2. FilesThere
    BY <1>0, <2>1, FirstAssumption DEF FilesThere
  <2>3. RowsApart
    BY <2>1, FirstAssumption DEF RowsApart
  <2> QED
    BY <2>2, <2>3
<1>9. NotFiledYet /\ LeftBehind /\ Fetched
  BY <1>3 DEF NotFiledYet, LeftBehind, Fetched
<1>10. \A m \in Mover : ClerkKnows(m)
  BY <1>3 DEF ClerkKnows
<1> QED
  BY <1>0, <1>2, <1>3, <1>4, <1>5, <1>6, <1>7, <1>8, <1>9, <1>10 DEF CoreInv, OrderInv

LEMMA StashStep ==
  ASSUME CoreInv, [StashNext]_stashVars
  PROVE  CoreInv' /\ (OneRestructure /\ OrderInv => OrderInv')
<1>1. CASE \E m \in Mover : Moves(m)
  <2>1. PICK m \in Mover : Moves(m)
    BY <1>1
  <2>2. CASE Batch(m)
    BY <2>2, BatchKeeps
  <2>3. CASE Finish(m)
    BY <2>3, FinishKeeps
  <2>4. CASE NextFile(m)
    BY <2>4, NextFileKeeps
  <2>5. CASE Check(m)
    BY <2>5, CheckKeeps
  <2>6. CASE Link(m)
    BY <2>6, LinkKeeps
  <2>7. CASE Copy(m)
    BY <2>7, CopyKeeps
  <2>8. CASE Commit(m)
    BY <2>8, CommitKeeps
  <2>9. CASE Unlink(m)
    BY <2>9, UnlinkKeeps
  <2>10. CASE Classify(m)
    BY <2>10, ClassifyKeeps
  <2>11. CASE Adopt(m)
    BY <2>11, AdoptKeeps
  <2>12. CASE AdoptInPlace(m)
    BY <2>12, AdoptInPlaceKeeps
  <2> QED
    BY <2>1, <2>2, <2>3, <2>4, <2>5, <2>6, <2>7, <2>8, <2>9, <2>10, <2>11, <2>12 DEF Moves
<1>2. CASE \E m \in Mover : Begins(m)
  BY <1>2, BeginsKeep, SortersBegin DEF Begins
<1>3. CASE Dismiss \/ Mounts \/ Unmounts
  BY <1>3, MountsKeep
<1>4. CASE Scans
  BY <1>4, ScansKeep, ScanAppliesKeeps DEF Scans
<1>5. CASE Events
  BY <1>5, EventsKeep
<1>6. CASE People
  BY <1>6, PeopleKeep
<1>7. CASE Crash
  BY <1>7, CrashKeeps
<1>8. CASE \E m \in Mover : CommitFails(m)
  BY <1>8, CommitFailsKeeps
<1>9. CASE UNCHANGED stashVars
  <2>1. UNCHANGED <<disk, row, coll, tpl, task, waiting, reach, missing, scan, noted, event,
                    hands, crossed>>
    BY <1>9 DEF stashVars, libraryVars, reconcilerVars, past
  <2>2. StashTypeOK'
    BY <2>1 DEF CoreInv, StashTypeOK, LiveRows
  <2> QED
    BY <2>1, <2>2, SameRowsIfSame, QuietKeeps
<1> QED
  BY <1>1, <1>2, <1>3, <1>4, <1>5, <1>6, <1>7, <1>8, <1>9 DEF StashNext, Troubles

\* The runs of the library keep to what each is in the middle of, whatever else goes on
\* (bulk-restructure.ts, template-migration.ts, inbox-triage.ts).
THEOREM StashInvariant == StashSpec => []CoreInv
<1>1. CoreInv /\ [StashNext]_stashVars => CoreInv'
  BY StashStep
<1> QED
  BY <1>1, StashStarts, PTL DEF StashSpec

\* Every variable of the library has its type, and a row belongs to a loot that is filed.
THEOREM StashTypes == StashSpec => []StashTypeOK
<1>1. CoreInv => StashTypeOK
  BY DEF CoreInv
<1> QED
  BY <1>1, StashInvariant, PTL

\* Bytes nobody took away by hand are in some file, whatever is linked, copied, refused by
\* the database or cut short by a crash, until a restructure takes up a file another run
\* has in hand (filesystem-adapter.ts, linkOrCopy: commit before unlink).
THEOREM BytesAreKept == StashSpec => []BytesKept
<1>1. CoreInv => BytesKept
  BY DEF CoreInv, BytesSafe, BytesKept
<1> QED
  BY <1>1, StashInvariant, PTL

\* While restructures come one at a time, the collection and the path of a row lead to its
\* bytes and to no other row (bulk-restructure.ts, inbox-triage.ts), in a library where
\* nobody removed files, nothing was adopted in place and each loot has one file.
THEOREM FilesAreFound == ASSUME OneRestructure PROVE StashSpec => []FoundWhereFiled
<1>1. StashInit => CoreInv /\ OrderInv
  BY StashStarts
<1>2. CoreInv /\ OrderInv /\ [StashNext]_stashVars => (CoreInv /\ OrderInv)'
  BY StashStep
<1>3. CoreInv /\ OrderInv => FoundWhereFiled
  BY DEF OrderInv, FilesThere, RowsApart, FoundWhereFiled
<1> QED
  BY <1>1, <1>2, <1>3, PTL DEF StashSpec

===============================================================================
