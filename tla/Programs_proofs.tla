--------------------------- MODULE Programs_proofs ---------------------------
(***************************************************************************)
(* Proofs about two programs of the live code, for every value of the       *)
(* constants: the treasury (Treasury, the bank alone, and TreasuryService,  *)
(* the bank behind its service with any number of brokers and in every      *)
(* interleaving), and pulse (CandleStream, for every cut of a file into     *)
(* batches, and Pulse, for every budget and every unreadable batch).        *)
(***************************************************************************)
EXTENDS TreasuryService, Pulse, SequenceTheorems, SumLemmas

-----------------------------------------------------------------------------
(* Arithmetic of positions *)

\* Fees and units of natural amounts are natural; a fee never exceeds what it
\* is taken from (helpers of issue-paper and issue-real).
LEMMA FeeBound ==
    ASSUME NEW v \in Nat, NEW r \in Nat, r <= 10000
    PROVE  Fee(v, r) \in Nat /\ Fee(v, r) <= v
<1> DEFINE w == v * r
<1>1. w \in Nat
  OBVIOUS
<1>2. w <= v * 10000
  OBVIOUS
<1> HIDE DEF w
<1>3. w \div 10000 \in Nat /\ w \div 10000 <= v
  BY <1>1, <1>2
<1> QED
  BY <1>3 DEF Fee, w

LEMMA OpenedType ==
    ASSUME NEW o \in Owner, NEW a \in Asset, NEW n \in Nat,
           NEW p \in Price, NEW c \in Candle, NEW t \in Term
    PROVE  Opened(o, a, n, p, c, t) \in Position
<1>1. p \in Nat \ {0} /\ c \in Nat /\ t \in Nat
  BY InputsAssumption DEF InputsAssumption
<1>0. EntryFee \in Nat /\ EntryFee <= 10000
  BY RatesAssumption DEF RatesAssumption
<1>2. Fee(n, EntryFee) \in Nat /\ Fee(n, EntryFee) <= n
  BY FeeBound, <1>0
<1>3. UnitsAt(n, p) \in Nat
  <2> DEFINE net == n - Fee(n, EntryFee)
  <2>1. net \in Nat
    BY <1>2
  <2>2. net * UnitScale \in Nat
    BY <2>1 DEF UnitScale
  <2> HIDE DEF net
  <2>3. (net * UnitScale) \div p \in Nat
    BY <1>1, <2>2
  <2> QED
    BY <2>3 DEF UnitsAt, net
<1>4. Active \in PositionState
  BY DEF Active, PositionState
<1> QED
  BY <1>1, <1>3, <1>4 DEF Opened, Position

LEMMA RealSizeType ==
    ASSUME NEW b \in Nat
    PROVE  RealSize(b) \in Nat /\ RealSize(b) <= b
BY RatesAssumption DEF RealSize, RatesAssumption

-----------------------------------------------------------------------------
(* Type correctness, one lemma per operation *)

LEMMA RecordOfType ==
    ASSUME TypeOK, NEW o
    PROVE  RecordOf(o) \in ProposerRecord
BY DEF TypeOK, RecordOf, FreshRecord, ProposerRecord

LEMMA SurvivedType ==
    ASSUME NEW r \in ProposerRecord, NEW n \in Nat
    PROVE  [r EXCEPT !.paperSurvived = @ + 1, !.paperGraceResidue = @ + n]
             \in ProposerRecord
<1>1. r.paperSurvived + 1 \in Nat /\ r.paperGraceResidue + n \in Nat
  BY DEF ProposerRecord
<1> QED
  BY <1>1 DEF ProposerRecord

LEMMA AppendIds ==
    ASSUME NEW n \in Nat, NEW S, NEW m \in [0..(n - 1) -> S], NEW v \in S
    PROVE  Assoc(m, n, v) \in [0..((n + 1) - 1) -> S]
<1>1. DOMAIN m \cup {n} = 0..((n + 1) - 1)
  OBVIOUS
<1> QED
  BY <1>1 DEF Assoc

LEMMA RecordsType ==
    ASSUME TypeOK, NEW o \in Owner, NEW r \in ProposerRecord
    PROVE  /\ DOMAIN Assoc(proposerRecords, o, r) \subseteq Owner
           /\ Assoc(proposerRecords, o, r) \in
                [DOMAIN Assoc(proposerRecords, o, r) -> ProposerRecord]
BY DEF TypeOK, Assoc

LEMMA IssuePaperType ==
    ASSUME TypeOK, NEW o \in Owner, NEW a \in Asset, NEW p \in Price,
           NEW c \in Candle, NEW t \in Term, IssuePaper(o, a, p, c, t)
    PROVE  TypeOK'
<1>1. Opened(o, a, PaperAmount, p, c, t) \in Position
  BY OpenedType, RatesAssumption DEF RatesAssumption
<1>2. nextPaperId' \in Nat /\ nextPaperId' = nextPaperId + 1
  BY DEF IssuePaper, TypeOK
<1>3. papers' \in [0..(nextPaperId' - 1) -> Position]
  BY <1>1, <1>2, AppendIds DEF IssuePaper, TypeOK
<1>4. [RecordOf(o) EXCEPT !.paperSubmitted = @ + 1] \in ProposerRecord
  BY RecordOfType DEF ProposerRecord
<1>5. /\ DOMAIN proposerRecords' \subseteq Owner
      /\ proposerRecords' \in [DOMAIN proposerRecords' -> ProposerRecord]
  BY <1>4, RecordsType DEF IssuePaper
<1> QED
  BY <1>2, <1>3, <1>5 DEF IssuePaper, TypeOK

LEMMA IssueRealType ==
    ASSUME TypeOK, NEW o \in Owner, NEW a \in Asset, NEW p \in Price,
           NEW c \in Candle, NEW t \in Term, IssueReal(o, a, p, c, t)
    PROVE  TypeOK'
<1> DEFINE amount == RealSize(balances[a])
<1>1. a \in DOMAIN InitialBalances /\ balances[a] \in Nat
  BY DEF IssueReal, RealAllowed, TypeOK
<1>2. amount \in Nat /\ amount <= balances[a]
  BY <1>1, RealSizeType
<1>3. Opened(o, a, amount, p, c, t) \in Position
  BY <1>2, OpenedType
<1> HIDE DEF amount
<1>4. nextRealId' \in Nat /\ nextRealId' = nextRealId + 1
  BY DEF IssueReal, TypeOK
<1>5. reals' = Assoc(reals, nextRealId, Opened(o, a, amount, p, c, t))
  BY DEF IssueReal, amount
<1>6. reals' \in [0..(nextRealId' - 1) -> Position]
  BY <1>3, <1>4, <1>5, AppendIds DEF TypeOK
<1>7. balances' = [balances EXCEPT ![a] = @ - amount]
  BY DEF IssueReal, amount
<1>8. balances' \in [DOMAIN InitialBalances -> Nat]
  BY <1>1, <1>2, <1>7 DEF TypeOK
<1> QED
  BY <1>4, <1>6, <1>8 DEF IssueReal, TypeOK

LEMMA ResidueType ==
    ASSUME NEW q \in Position, NEW p \in Price
    PROVE  ResidueAt(q, p) \in Int
<1> DEFINE value == (q.units * p) \div UnitScale
<1>1. q.units * p \in Nat
  BY InputsAssumption DEF InputsAssumption, Position
<1>2. value \in Nat
  BY <1>1 DEF UnitScale
<1> HIDE DEF value
<1>0. ExitFee \in Nat /\ ExitFee <= 10000
  BY RatesAssumption DEF RatesAssumption
<1>3. Fee(value, ExitFee) \in Nat
  BY <1>0, <1>2, FeeBound
<1>4. q.amount \in Nat
  BY DEF Position
<1>5. value - q.amount - Fee(value, ExitFee) \in Int
  BY <1>2, <1>3, <1>4
<1> QED
  BY <1>5 DEF ResidueAt, value

LEMMA ResolveGraceType ==
    ASSUME TypeOK, NEW id, NEW p \in Price, ResolveGrace(id, p)
    PROVE  TypeOK'
<1> DEFINE residue == ResidueAt(papers[id], p)
           owner == papers[id].owner
           record == [RecordOf(owner) EXCEPT !.paperSurvived = @ + 1,
                                             !.paperGraceResidue = @ + residue]
<1>1. id \in 0..(nextPaperId - 1) /\ papers[id] \in Position
  BY DEF ResolveGrace, ValidExit, TypeOK
<1>2. residue \in Nat /\ residue > 0
  BY <1>1, ResidueType DEF ResolveGrace, ValidExit
<1>3. owner \in Owner
  BY <1>1 DEF Position
<1>4. papers' = [papers EXCEPT ![id].state = Grace(residue)]
  BY DEF ResolveGrace
<1>5. proposerRecords' = Assoc(proposerRecords, owner, record)
  BY DEF ResolveGrace
<1> HIDE DEF residue, owner
<1>6. Grace(residue) \in PositionState
  BY <1>2 DEF Grace, PositionState
<1>7. papers' \in [0..(nextPaperId - 1) -> Position]
  BY <1>1, <1>4, <1>6 DEF TypeOK, Position
<1>8. record \in ProposerRecord
  <2>1. RecordOf(owner) \in ProposerRecord
    BY RecordOfType
  <2> QED
    BY <1>2, <2>1, SurvivedType
<1> HIDE DEF record
<1>9. /\ DOMAIN proposerRecords' \subseteq Owner
      /\ proposerRecords' \in [DOMAIN proposerRecords' -> ProposerRecord]
  BY <1>3, <1>5, <1>8, RecordsType
<1> QED
  BY <1>7, <1>9 DEF ResolveGrace, TypeOK

\* The papers a tick kills, and the part of them one owner loses, are finite.
LEMMA ExpiredFinite ==
    ASSUME TypeOK, NEW c, NEW o
    PROVE  /\ IsFiniteSet(DOMAIN papers)
           /\ IsFiniteSet({id \in Expired(c) : papers[id].owner = o})
           /\ Cardinality({id \in Expired(c) : papers[id].owner = o}) \in Nat
<1>1. IsFiniteSet(DOMAIN papers)
  <2>1. DOMAIN papers = 0..(nextPaperId - 1) /\ nextPaperId - 1 \in Int
    BY DEF TypeOK
  <2> QED
    BY <2>1, FS_Interval
<1>2. {id \in Expired(c) : papers[id].owner = o} \subseteq DOMAIN papers
  BY DEF Expired
<1> QED
  BY <1>1, <1>2, FS_Subset, FS_CardinalityType

LEMMA CheckDeadlinesType ==
    ASSUME TypeOK, NEW c \in Candle, CheckDeadlines(c)
    PROVE  TypeOK'
<1> DEFINE dead == Expired(c)
           lost(o) == Cardinality({id \in dead : papers[id].owner = o})
<1>1. papers' = [id \in DOMAIN papers |->
                   IF id \in dead THEN [papers[id] EXCEPT !.state = Violence]
                                  ELSE papers[id]]
  BY DEF CheckDeadlines
<1>2. Violence \in PositionState
  BY DEF Violence, PositionState
<1>3. papers' \in [0..(nextPaperId - 1) -> Position]
  <2> HIDE DEF dead
  <2> QED
    BY <1>1, <1>2 DEF TypeOK, Position
<1>4. \A o : lost(o) \in Nat
  BY ExpiredFinite
<1> HIDE DEF lost
<1>5. \A o : [RecordOf(o) EXCEPT !.paperFailed = @ + lost(o)] \in ProposerRecord
  BY <1>4, RecordOfType DEF ProposerRecord
<1>6. \A id \in dead : papers[id].owner \in Owner
  BY DEF Expired, TypeOK, Position
<1>7. proposerRecords' =
        [o \in DOMAIN proposerRecords \cup {papers[id].owner : id \in dead} |->
           [RecordOf(o) EXCEPT !.paperFailed = @ + lost(o)]]
  BY DEF CheckDeadlines, lost
<1> HIDE DEF dead
<1>8. /\ DOMAIN proposerRecords' \subseteq Owner
      /\ proposerRecords' \in [DOMAIN proposerRecords' -> ProposerRecord]
  BY <1>5, <1>6, <1>7 DEF TypeOK
<1> QED
  BY <1>3, <1>8 DEF CheckDeadlines, TypeOK

LEMMA InitType == Init => TypeOK
<1> SUFFICES ASSUME Init PROVE TypeOK
  OBVIOUS
<1>1. papers \in [0..(nextPaperId - 1) -> Position]
  BY DEF Init
<1>2. reals \in [0..(nextRealId - 1) -> Position]
  BY DEF Init
<1> QED
  BY <1>1, <1>2, LedgerAssumption DEF Init, TypeOK, LedgerAssumption

\* A step that changes nothing of the Treasury.
LEMMA StutterType == TypeOK /\ UNCHANGED vars => TypeOK'
BY DEF TypeOK, vars

LEMMA NextType == TypeOK /\ [Next]_vars => TypeOK'
<1> SUFFICES ASSUME TypeOK, [Next]_vars PROVE TypeOK'
  OBVIOUS
<1>1. ASSUME NEW o \in Owner, NEW a \in Asset, NEW p \in Price,
             NEW c \in Candle, NEW t \in Term, IssuePaper(o, a, p, c, t)
      PROVE  TypeOK'
  BY <1>1, IssuePaperType
<1>2. ASSUME NEW o \in Owner, NEW a \in Asset, NEW p \in Price,
             NEW c \in Candle, NEW t \in Term, IssueReal(o, a, p, c, t)
      PROVE  TypeOK'
  BY <1>2, IssueRealType
<1>3. ASSUME NEW o \in Owner, NEW a \in Asset, DenyReal(o, a)
      PROVE  TypeOK'
  BY <1>3, StutterType DEF DenyReal
<1>4. ASSUME NEW id \in 0..MaxPapers, NEW p \in Price, ResolveGrace(id, p)
      PROVE  TypeOK'
  BY <1>4, ResolveGraceType
<1>5. ASSUME NEW id \in 0..MaxPapers, NEW p \in Price, DenyExit(id, p)
      PROVE  TypeOK'
  BY <1>5, StutterType DEF DenyExit
<1>6. ASSUME NEW c \in Candle, CheckDeadlines(c)
      PROVE  TypeOK'
  BY <1>6, CheckDeadlinesType
<1>7. CASE UNCHANGED vars
  BY <1>7, StutterType
<1> QED
  BY <1>1, <1>2, <1>3, <1>4, <1>5, <1>6, <1>7 DEF Next

\* Every reachable Treasury is well typed, and its ids are dense below the
\* counters, so that issuing never overwrites a position.
THEOREM TypeCorrect == Spec => []TypeOK
<1>1. Init => TypeOK
  BY InitType
<1>2. TypeOK /\ [Next]_vars => TypeOK'
  BY NextType
<1> QED
  BY <1>1, <1>2, PTL DEF Spec

-----------------------------------------------------------------------------
(* The track records tell the truth *)

LEMMA RecordAfterAssoc ==
    ASSUME NEW o, NEW r, proposerRecords' = Assoc(proposerRecords, o, r)
    PROVE  \A x : RecordOf(x)' = IF x = o THEN r ELSE RecordOf(x)
BY DEF RecordOf, Assoc

\* Every set of papers of one owner is finite.
LEMMA PapersFinite ==
    ASSUME TypeOK, NEW o, NEW k
    PROVE  /\ IsFiniteSet(PapersOf(o))
           /\ IsFiniteSet(PapersIn(o, k))
<1>1. IsFiniteSet(DOMAIN papers)
  BY ExpiredFinite
<1>2. PapersOf(o) \subseteq DOMAIN papers /\ PapersIn(o, k) \subseteq DOMAIN papers
  BY DEF PapersOf, PapersIn
<1> QED
  BY <1>1, <1>2, FS_Subset

\* A new paper joins its owner's papers and no one's resolved ones.
LEMMA IssuePaperCounters ==
    ASSUME TypeOK, CountersMatchPapers,
           NEW o \in Owner, NEW a \in Asset, NEW p \in Price,
           NEW c \in Candle, NEW t \in Term, IssuePaper(o, a, p, c, t)
    PROVE  CountersMatchPapers'
<1> DEFINE new == Opened(o, a, PaperAmount, p, c, t)
           record == [RecordOf(o) EXCEPT !.paperSubmitted = @ + 1]
<1>1. nextPaperId \notin DOMAIN papers
  BY DEF TypeOK
<1>2. papers' = Assoc(papers, nextPaperId, new)
  BY DEF IssuePaper
<1>3. new.owner = o /\ new.state.kind = "Active"
  BY DEF Opened, Active
<1> HIDE DEF new
<1>4. \A x : PapersOf(x)' = IF x = o THEN PapersOf(x) \cup {nextPaperId}
                                     ELSE PapersOf(x)
  BY <1>1, <1>2, <1>3 DEF PapersOf, Assoc
<1>5. \A x : /\ PapersIn(x, "Grace")' = PapersIn(x, "Grace")
             /\ PapersIn(x, "Violence")' = PapersIn(x, "Violence")
  BY <1>1, <1>2, <1>3 DEF PapersIn, PapersOf, Assoc
<1>6. \A x : RecordOf(x)' = IF x = o THEN record ELSE RecordOf(x)
  BY RecordAfterAssoc DEF IssuePaper
<1>7. RecordOf(o) \in ProposerRecord
  BY RecordOfType
<1>8. /\ record.paperSubmitted = RecordOf(o).paperSubmitted + 1
      /\ record.paperSurvived = RecordOf(o).paperSurvived
      /\ record.paperFailed = RecordOf(o).paperFailed
  BY <1>7 DEF ProposerRecord
<1> HIDE DEF record
<1>9. Cardinality(PapersOf(o) \cup {nextPaperId}) = Cardinality(PapersOf(o)) + 1
  <2>1. IsFiniteSet(PapersOf(o))
    BY PapersFinite
  <2>2. nextPaperId \notin PapersOf(o)
    BY <1>1 DEF PapersOf
  <2> QED
    BY <2>1, <2>2, FS_AddElement
<1>10. SUFFICES ASSUME NEW x \in Owner
                PROVE  /\ RecordOf(x)'.paperSubmitted = Cardinality(PapersOf(x)')
                       /\ RecordOf(x)'.paperSurvived = Cardinality(PapersIn(x, "Grace")')
                       /\ RecordOf(x)'.paperFailed = Cardinality(PapersIn(x, "Violence")')
  BY DEF CountersMatchPapers
<1> QED
  BY <1>4, <1>5, <1>6, <1>8, <1>9 DEF CountersMatchPapers

\* An exit moves one Active paper among its owner's survivors.
LEMMA ResolveGraceCounters ==
    ASSUME TypeOK, CountersMatchPapers, NEW id, NEW p \in Price,
           ResolveGrace(id, p)
    PROVE  CountersMatchPapers'
<1> DEFINE residue == ResidueAt(papers[id], p)
           o == papers[id].owner
           record == [RecordOf(o) EXCEPT !.paperSurvived = @ + 1,
                                         !.paperGraceResidue = @ + residue]
<1>1. /\ id \in DOMAIN papers
      /\ papers[id].state.kind = "Active"
  BY DEF ResolveGrace, ValidExit, Active
<1>2. papers' = [papers EXCEPT ![id].state = Grace(residue)]
  BY DEF ResolveGrace
<1>3. Grace(residue).kind = "Grace"
  BY DEF Grace
<1>4. \A x : RecordOf(x)' = IF x = o THEN record ELSE RecordOf(x)
  BY RecordAfterAssoc DEF ResolveGrace
<1> HIDE DEF residue
<1>5. DOMAIN papers' = DOMAIN papers
  BY <1>2
<1>6. \A i \in DOMAIN papers :
         /\ papers'[i].owner = papers[i].owner
         /\ papers'[i].state.kind =
              IF i = id THEN "Grace" ELSE papers[i].state.kind
  BY <1>1, <1>2, <1>3 DEF TypeOK, Position
<1>7. \A x : PapersOf(x)' = PapersOf(x)
  BY <1>5, <1>6 DEF PapersOf
<1>8. \A x : PapersIn(x, "Violence")' = PapersIn(x, "Violence")
  BY <1>1, <1>5, <1>6 DEF PapersIn, PapersOf
<1>9. \A x : PapersIn(x, "Grace")' =
               IF x = o THEN PapersIn(x, "Grace") \cup {id} ELSE PapersIn(x, "Grace")
  BY <1>1, <1>5, <1>6 DEF PapersIn, PapersOf
<1>10. RecordOf(o) \in ProposerRecord
  BY RecordOfType
<1>11. /\ record.paperSubmitted = RecordOf(o).paperSubmitted
       /\ record.paperSurvived = RecordOf(o).paperSurvived + 1
       /\ record.paperFailed = RecordOf(o).paperFailed
  BY <1>10 DEF ProposerRecord
<1>12. Cardinality(PapersIn(o, "Grace") \cup {id}) = Cardinality(PapersIn(o, "Grace")) + 1
  <2>1. IsFiniteSet(PapersIn(o, "Grace"))
    BY PapersFinite
  <2>2. id \notin PapersIn(o, "Grace")
    BY <1>1 DEF PapersIn
  <2> QED
    BY <2>1, <2>2, FS_AddElement
<1> HIDE DEF record, o
<1>13. SUFFICES ASSUME NEW x \in Owner
                PROVE  /\ RecordOf(x)'.paperSubmitted = Cardinality(PapersOf(x)')
                       /\ RecordOf(x)'.paperSurvived = Cardinality(PapersIn(x, "Grace")')
                       /\ RecordOf(x)'.paperFailed = Cardinality(PapersIn(x, "Violence")')
  BY DEF CountersMatchPapers
<1> QED
  BY <1>4, <1>7, <1>8, <1>9, <1>11, <1>12 DEF CountersMatchPapers

\* A tick moves a set of Active papers among their owners' failures, and each
\* owner's counter grows by the number of papers it lost.
LEMMA CheckDeadlinesCounters ==
    ASSUME TypeOK, CountersMatchPapers, NEW c \in Candle, CheckDeadlines(c)
    PROVE  CountersMatchPapers'
<1> DEFINE dead == Expired(c)
           lostSet(o) == {id \in dead : papers[id].owner = o}
           lost(o) == Cardinality(lostSet(o))
           losers == {papers[id].owner : id \in dead}
<1>1. /\ DOMAIN papers' = DOMAIN papers
      /\ \A i \in DOMAIN papers :
            papers'[i] = IF i \in dead THEN [papers[i] EXCEPT !.state = Violence]
                                       ELSE papers[i]
  BY DEF CheckDeadlines
<1>2. dead \subseteq DOMAIN papers /\ \A i \in dead : papers[i].state.kind = "Active"
  BY DEF Expired, Active
<1>3. proposerRecords' = [o \in DOMAIN proposerRecords \cup losers |->
                            [RecordOf(o) EXCEPT !.paperFailed = @ + lost(o)]]
  BY DEF CheckDeadlines
<1>4. \A o : IsFiniteSet(lostSet(o)) /\ lost(o) \in Nat
  BY ExpiredFinite
<1> HIDE DEF dead
<1>5. \A i \in DOMAIN papers :
         /\ papers'[i].owner = papers[i].owner
         /\ papers'[i].state.kind =
              IF i \in dead THEN "Violence" ELSE papers[i].state.kind
  BY <1>1 DEF TypeOK, Position, Violence
<1>6. \A x : PapersOf(x)' = PapersOf(x)
  BY <1>1, <1>5 DEF PapersOf
<1>7. \A x : PapersIn(x, "Grace")' = PapersIn(x, "Grace")
  BY <1>1, <1>2, <1>5 DEF PapersIn, PapersOf
<1>8. \A x : /\ PapersIn(x, "Violence")' = PapersIn(x, "Violence") \cup lostSet(x)
             /\ PapersIn(x, "Violence") \cap lostSet(x) = {}
  BY <1>1, <1>2, <1>5 DEF PapersIn, PapersOf
<1>9. \A x : Cardinality(PapersIn(x, "Violence")') =
               Cardinality(PapersIn(x, "Violence")) + lost(x)
  <2> TAKE x
  <2>1. IsFiniteSet(PapersIn(x, "Violence"))
    BY PapersFinite
  <2>2. Cardinality(PapersIn(x, "Violence")) \in Nat
    BY <2>1, FS_CardinalityType
  <2>3. IsFiniteSet(lostSet(x)) /\ lost(x) \in Nat
    BY <1>4
  <2> HIDE DEF lostSet
  <2>4. Cardinality(PapersIn(x, "Violence") \cup lostSet(x)) =
          Cardinality(PapersIn(x, "Violence")) + lost(x) - Cardinality({})
    BY <1>8, <2>1, <2>3, FS_Union
  <2> QED
    BY <1>8, <2>2, <2>3, <2>4, FS_EmptySet
<1>10. \A x : x \notin losers => lost(x) = 0
  <2> SUFFICES ASSUME NEW x, x \notin losers PROVE lost(x) = 0
    OBVIOUS
  <2>1. lostSet(x) = {}
    OBVIOUS
  <2> QED
    BY <2>1, FS_EmptySet
<1>11. \A x : /\ RecordOf(x)'.paperSubmitted = RecordOf(x).paperSubmitted
              /\ RecordOf(x)'.paperSurvived = RecordOf(x).paperSurvived
              /\ RecordOf(x)'.paperFailed = RecordOf(x).paperFailed + lost(x)
  <2> TAKE x
  <2>1. RecordOf(x) \in ProposerRecord
    BY RecordOfType
  <2>2. lost(x) \in Nat
    BY <1>4
  <2> HIDE DEF lost, losers
  <2>3. CASE x \in DOMAIN proposerRecords \cup losers
    <3>1. RecordOf(x)' = [RecordOf(x) EXCEPT !.paperFailed = @ + lost(x)]
      BY <1>3, <2>3 DEF RecordOf
    <3> QED
      BY <2>1, <2>2, <3>1 DEF ProposerRecord
  <2>4. CASE x \notin DOMAIN proposerRecords \cup losers
    <3>1. RecordOf(x)' = RecordOf(x)
      BY <1>3, <2>4 DEF RecordOf
    <3>2. lost(x) = 0
      BY <1>10, <2>4
    <3> QED
      BY <2>1, <3>1, <3>2 DEF ProposerRecord
  <2> QED
    BY <2>3, <2>4
<1> HIDE DEF lost, lostSet, losers
<1>12. SUFFICES ASSUME NEW x \in Owner
                PROVE  /\ RecordOf(x)'.paperSubmitted = Cardinality(PapersOf(x)')
                       /\ RecordOf(x)'.paperSurvived = Cardinality(PapersIn(x, "Grace")')
                       /\ RecordOf(x)'.paperFailed = Cardinality(PapersIn(x, "Violence")')
  BY DEF CountersMatchPapers
<1> QED
  BY <1>6, <1>7, <1>9, <1>11 DEF CountersMatchPapers

\* A step that leaves papers and records alone leaves the counters true.
LEMMA SameCounters ==
    CountersMatchPapers /\ UNCHANGED <<papers, proposerRecords>>
        => CountersMatchPapers'
<1> SUFFICES ASSUME CountersMatchPapers, UNCHANGED <<papers, proposerRecords>>
             PROVE  CountersMatchPapers'
  OBVIOUS
<1>1. \A x : RecordOf(x)' = RecordOf(x)
  BY DEF RecordOf
<1>2. \A x : PapersOf(x)' = PapersOf(x)
  BY DEF PapersOf
<1>3. \A x, k : PapersIn(x, k)' = PapersIn(x, k)
  BY DEF PapersIn, PapersOf
<1> QED
  BY <1>1, <1>2, <1>3 DEF CountersMatchPapers

LEMMA NextCounters ==
    TypeOK /\ CountersMatchPapers /\ [Next]_vars => CountersMatchPapers'
<1> SUFFICES ASSUME TypeOK, CountersMatchPapers, [Next]_vars
             PROVE  CountersMatchPapers'
  OBVIOUS
<1>1. ASSUME NEW o \in Owner, NEW a \in Asset, NEW p \in Price,
             NEW c \in Candle, NEW t \in Term, IssuePaper(o, a, p, c, t)
      PROVE  CountersMatchPapers'
  BY <1>1, IssuePaperCounters
<1>2. ASSUME NEW o \in Owner, NEW a \in Asset, NEW p \in Price,
             NEW c \in Candle, NEW t \in Term, IssueReal(o, a, p, c, t)
      PROVE  CountersMatchPapers'
  BY <1>2, SameCounters DEF IssueReal
<1>3. ASSUME NEW o \in Owner, NEW a \in Asset, DenyReal(o, a)
      PROVE  CountersMatchPapers'
  BY <1>3, SameCounters DEF DenyReal, vars
<1>4. ASSUME NEW id \in 0..MaxPapers, NEW p \in Price, ResolveGrace(id, p)
      PROVE  CountersMatchPapers'
  BY <1>4, ResolveGraceCounters
<1>5. ASSUME NEW id \in 0..MaxPapers, NEW p \in Price, DenyExit(id, p)
      PROVE  CountersMatchPapers'
  BY <1>5, SameCounters DEF DenyExit, vars
<1>6. ASSUME NEW c \in Candle, CheckDeadlines(c)
      PROVE  CountersMatchPapers'
  BY <1>6, CheckDeadlinesCounters
<1>7. CASE UNCHANGED vars
  BY <1>7, SameCounters DEF vars
<1> QED
  BY <1>1, <1>2, <1>3, <1>4, <1>5, <1>6, <1>7 DEF Next

LEMMA InitCounters == Init => CountersMatchPapers
<1> SUFFICES ASSUME Init, NEW o \in Owner
             PROVE  /\ RecordOf(o).paperSubmitted = Cardinality(PapersOf(o))
                    /\ RecordOf(o).paperSurvived = Cardinality(PapersIn(o, "Grace"))
                    /\ RecordOf(o).paperFailed = Cardinality(PapersIn(o, "Violence"))
  BY DEF CountersMatchPapers
<1>1. RecordOf(o) = FreshRecord
  BY DEF Init, RecordOf
<1>2. PapersOf(o) = {} /\ PapersIn(o, "Grace") = {} /\ PapersIn(o, "Violence") = {}
  BY DEF Init, PapersOf, PapersIn
<1> QED
  BY <1>1, <1>2, FS_EmptySet DEF FreshRecord

\* In every reachable state each proposer's counters are the numbers of its
\* papers, of those in Grace and of those in Violence, however many papers,
\* owners, prices and candles there are.
THEOREM CountersCorrect == Spec => []CountersMatchPapers
<1>1. Init => TypeOK /\ CountersMatchPapers
  BY InitType, InitCounters
<1>2. TypeOK /\ CountersMatchPapers /\ [Next]_vars
        => TypeOK' /\ CountersMatchPapers'
  BY NextType, NextCounters
<1> QED
  BY <1>1, <1>2, PTL DEF Spec

-----------------------------------------------------------------------------
(* Resolved papers are final *)

\* What one step does to the papers that exist: they stay, only their states
\* change, and only Active ones.
PapersPersist ==
    \A id \in DOMAIN papers :
        /\ id \in DOMAIN papers'
        /\ papers[id].state # Active => papers'[id] = papers[id]
        /\ papers'[id] = [papers[id] EXCEPT !.state = papers'[id].state]

LEMMA StateExcept ==
    ASSUME NEW q \in Position, NEW s
    PROVE  /\ [q EXCEPT !.state = s].state = s
           /\ [q EXCEPT !.state = q.state] = q
BY DEF Position

LEMMA NextPersist == TypeOK /\ [Next]_vars => PapersPersist
<1> SUFFICES ASSUME TypeOK, [Next]_vars PROVE PapersPersist
  OBVIOUS
<1>1. \A id \in DOMAIN papers : papers[id] \in Position
  BY DEF TypeOK
<1>2. ASSUME papers' = papers PROVE PapersPersist
  BY <1>1, <1>2, StateExcept DEF PapersPersist
<1>3. ASSUME NEW o \in Owner, NEW a \in Asset, NEW p \in Price,
             NEW c \in Candle, NEW t \in Term, IssuePaper(o, a, p, c, t)
      PROVE  PapersPersist
  <2>1. nextPaperId \notin DOMAIN papers
    BY DEF TypeOK
  <2>2. \A id \in DOMAIN papers : id \in DOMAIN papers' /\ papers'[id] = papers[id]
    BY <1>3, <2>1 DEF IssuePaper, Assoc
  <2> QED
    BY <1>1, <2>2, StateExcept DEF PapersPersist
<1>4. ASSUME NEW i, NEW p \in Price, ResolveGrace(i, p)
      PROVE  PapersPersist
  <2>1. i \in DOMAIN papers /\ papers[i].state = Active
    BY <1>4 DEF ResolveGrace, ValidExit
  <2>2. PICK s : papers' = [papers EXCEPT ![i].state = s]
    BY <1>4 DEF ResolveGrace
  <2>3. \A id \in DOMAIN papers :
           papers'[id] = IF id = i THEN [papers[id] EXCEPT !.state = s] ELSE papers[id]
    BY <2>1, <2>2
  <2> QED
    BY <1>1, <2>1, <2>2, <2>3, StateExcept DEF PapersPersist
<1>5. ASSUME NEW c \in Candle, CheckDeadlines(c)
      PROVE  PapersPersist
  <2> DEFINE dead == Expired(c)
  <2>1. \A id \in dead : papers[id].state = Active
    BY DEF Expired
  <2>2. /\ DOMAIN papers' = DOMAIN papers
        /\ \A id \in DOMAIN papers :
             papers'[id] = IF id \in dead THEN [papers[id] EXCEPT !.state = Violence]
                                          ELSE papers[id]
    BY <1>5 DEF CheckDeadlines
  <2> HIDE DEF dead
  <2> QED
    BY <1>1, <2>1, <2>2, StateExcept DEF PapersPersist
<1>6. CASE Next
  <2>1. CASE \E o \in Owner, a \in Asset, p \in Price, c \in Candle, t \in Term :
                IssuePaper(o, a, p, c, t)
    BY <1>3, <2>1
  <2>2. CASE \E o \in Owner, a \in Asset, p \in Price, c \in Candle, t \in Term :
                IssueReal(o, a, p, c, t)
    BY <1>2, <2>2 DEF IssueReal
  <2>3. CASE \E o \in Owner, a \in Asset : DenyReal(o, a)
    BY <1>2, <2>3 DEF DenyReal, vars
  <2>4. CASE \E id \in 0..MaxPapers, p \in Price : ResolveGrace(id, p)
    BY <1>4, <2>4
  <2>5. CASE \E id \in 0..MaxPapers, p \in Price : DenyExit(id, p)
    BY <1>2, <2>5 DEF DenyExit, vars
  <2>6. CASE \E c \in Candle : CheckDeadlines(c)
    BY <1>5, <2>6
  <2> QED
    BY <1>6, <2>1, <2>2, <2>3, <2>4, <2>5, <2>6 DEF Next
<1>7. CASE UNCHANGED vars
  BY <1>2, <1>7 DEF vars
<1> QED
  BY <1>6, <1>7

\* A paper once in Grace or Violence never changes again, and the terms a
\* paper was issued on never change at all.
THEOREM ResolvedCorrect == Spec => ResolvedIsFinal
<1>1. TypeOK /\ [Next]_vars => [PapersPersist]_vars
  BY NextPersist
<1>2. Spec => []TypeOK
  BY TypeCorrect
<1>3. Spec => [][PapersPersist]_vars
  BY <1>1, <1>2, PTL DEF Spec
<1> QED
  BY <1>3 DEF ResolvedIsFinal, PapersPersist

-----------------------------------------------------------------------------
(* Capital: who may receive it, and what moves it *)

\* The owner of papers keeps them, and keeps its survivors.
LEMMA PapersGrow ==
    ASSUME TypeOK, TypeOK', PapersPersist, NEW o
    PROVE  /\ PapersOf(o) \subseteq PapersOf(o)'
           /\ PapersIn(o, "Grace") \subseteq PapersIn(o, "Grace")'
           /\ Cardinality(PapersOf(o)) <= Cardinality(PapersOf(o)')
           /\ Cardinality(PapersOf(o)) \in Nat
           /\ Cardinality(PapersOf(o)') \in Nat
<1>1. \A id \in DOMAIN papers :
         /\ id \in DOMAIN papers'
         /\ papers'[id].owner = papers[id].owner
         /\ papers[id].state.kind = "Grace" => papers'[id] = papers[id]
  <2> SUFFICES ASSUME NEW id \in DOMAIN papers
               PROVE  /\ id \in DOMAIN papers'
                      /\ papers'[id].owner = papers[id].owner
                      /\ papers[id].state.kind = "Grace" => papers'[id] = papers[id]
    OBVIOUS
  <2>1. papers[id] \in Position
    BY DEF TypeOK
  <2>2. papers'[id] = [papers[id] EXCEPT !.state = papers'[id].state]
    BY DEF PapersPersist
  <2>3. papers'[id].owner = papers[id].owner
    BY <2>1, <2>2 DEF Position
  <2>4. papers[id].state.kind = "Grace" => papers[id].state # Active
    BY DEF Active
  <2> QED
    BY <2>3, <2>4 DEF PapersPersist
<1>2. PapersOf(o) \subseteq PapersOf(o)'
  BY <1>1 DEF PapersOf
<1>3. PapersIn(o, "Grace") \subseteq PapersIn(o, "Grace")'
  BY <1>1 DEF PapersIn, PapersOf
<1>4. IsFiniteSet(PapersOf(o)) /\ IsFiniteSet(PapersOf(o)')
  <2>1. IsFiniteSet(PapersOf(o))
    BY PapersFinite
  <2>2. DOMAIN papers' = 0..(nextPaperId' - 1) /\ nextPaperId' - 1 \in Int
    BY DEF TypeOK
  <2>3. IsFiniteSet(DOMAIN papers')
    BY <2>2, FS_Interval
  <2>4. PapersOf(o)' \subseteq DOMAIN papers'
    BY DEF PapersOf
  <2> QED
    BY <2>1, <2>3, <2>4, FS_Subset
<1> QED
  BY <1>2, <1>3, <1>4, FS_Subset, FS_CardinalityType

\* The gate admits only a proposer whose papers bear it out.
LEMMA GateEarned ==
    ASSUME TypeOK, CountersMatchPapers, NEW o \in Owner, NEW a,
           RealAllowed(o, a)
    PROVE  /\ Cardinality(PapersOf(o)) >= GateSubmissions
           /\ PapersIn(o, "Grace") # {}
<1> DEFINE r == RecordOf(o)
<1>1. r = proposerRecords[o] /\ GatePredicate(r) /\ r \in ProposerRecord
  BY RecordOfType DEF RealAllowed, RecordOf, TypeOK
<1>2. /\ r.paperSubmitted = Cardinality(PapersOf(o))
      /\ r.paperSurvived = Cardinality(PapersIn(o, "Grace"))
  BY DEF CountersMatchPapers
<1> HIDE DEF r
<1>3. r.paperSurvived \in Nat /\ r.paperFailed \in Nat
  BY <1>1 DEF ProposerRecord
<1>4. r.paperSubmitted >= GateSubmissions /\ r.paperSurvived > 0
  BY <1>1, <1>3 DEF GatePredicate
<1> QED
  BY <1>2, <1>4, FS_EmptySet

LEMMA NextEarned ==
    TypeOK /\ CountersMatchPapers /\ RealsAreEarned /\ [Next]_vars
        => RealsAreEarned'
<1> SUFFICES ASSUME TypeOK, CountersMatchPapers, RealsAreEarned, [Next]_vars
             PROVE  RealsAreEarned'
  OBVIOUS
<1>1. TypeOK' /\ PapersPersist
  BY NextType, NextPersist
<1>2. GateSubmissions \in Nat
  BY RatesAssumption DEF RatesAssumption
<1>3. ASSUME NEW id \in DOMAIN reals', NEW o, reals'[id].owner = o,
             Cardinality(PapersOf(o)) >= GateSubmissions,
             PapersIn(o, "Grace") # {}
      PROVE  /\ Cardinality(PapersOf(o)') >= GateSubmissions
             /\ PapersIn(o, "Grace")' # {}
  <2>1. /\ PapersIn(o, "Grace") \subseteq PapersIn(o, "Grace")'
        /\ Cardinality(PapersOf(o)) <= Cardinality(PapersOf(o)')
        /\ Cardinality(PapersOf(o)) \in Nat
        /\ Cardinality(PapersOf(o)') \in Nat
    BY <1>1, PapersGrow
  <2> QED
    BY <1>2, <1>3, <2>1
<1>4. ASSUME NEW id \in DOMAIN reals'
      PROVE  /\ Cardinality(PapersOf(reals'[id].owner)) >= GateSubmissions
             /\ PapersIn(reals'[id].owner, "Grace") # {}
  <2>1. CASE reals' = reals
    BY <1>4, <2>1 DEF RealsAreEarned
  <2>2. ASSUME NEW o \in Owner, NEW a \in Asset, NEW p \in Price,
               NEW c \in Candle, NEW t \in Term, IssueReal(o, a, p, c, t)
        PROVE  /\ Cardinality(PapersOf(reals'[id].owner)) >= GateSubmissions
               /\ PapersIn(reals'[id].owner, "Grace") # {}
    <3>1. CASE id \in DOMAIN reals
      <4>1. nextRealId \notin DOMAIN reals
        BY DEF TypeOK
      <4>2. reals'[id] = reals[id]
        BY <2>2, <3>1, <4>1 DEF IssueReal, Assoc
      <4> QED
        BY <3>1, <4>2 DEF RealsAreEarned
    <3>2. CASE id \notin DOMAIN reals
      <4>1. reals'[id].owner = o
        BY <1>4, <2>2, <3>2 DEF IssueReal, Assoc, Opened
      <4>2. RealAllowed(o, a)
        BY <2>2 DEF IssueReal
      <4> QED
        BY <4>1, <4>2, GateEarned
    <3> QED
      BY <3>1, <3>2
  <2>3. CASE UNCHANGED vars
    BY <2>1, <2>3 DEF vars
  <2> QED
    BY <2>1, <2>2, <2>3
       DEF Next, IssuePaper, DenyReal, ResolveGrace, DenyExit, CheckDeadlines, vars
<1> QED
  BY <1>3, <1>4 DEF RealsAreEarned

LEMMA InitEarned == Init => RealsAreEarned
BY DEF Init, RealsAreEarned

\* No real position is ever owned by a proposer that has not submitted the
\* gate's number of papers and brought one of them to Grace.
THEOREM EarnedCorrect == Spec => []RealsAreEarned
<1>1. Init => TypeOK /\ CountersMatchPapers /\ RealsAreEarned
  BY InitType, InitCounters, InitEarned
<1>2. TypeOK /\ CountersMatchPapers /\ RealsAreEarned /\ [Next]_vars
        => TypeOK' /\ CountersMatchPapers' /\ RealsAreEarned'
  BY NextType, NextCounters, NextEarned
<1> QED
  BY <1>1, <1>2, PTL DEF Spec

\* What one step may do to the ledger: nothing, or exactly the draw of one
\* newly opened real position.
CapitalMove ==
    balances' # balances =>
        /\ UNCHANGED papers
        /\ DOMAIN reals' = DOMAIN reals \cup {nextRealId}
        /\ balances' = [balances EXCEPT ![reals'[nextRealId].fromAsset] =
                           @ - reals'[nextRealId].amount]

LEMMA NextCapital == [Next]_vars => CapitalMove
<1> SUFFICES ASSUME [Next]_vars PROVE CapitalMove
  OBVIOUS
<1>1. CASE balances' = balances
  BY <1>1 DEF CapitalMove
<1>2. ASSUME NEW o \in Owner, NEW a \in Asset, NEW p \in Price,
             NEW c \in Candle, NEW t \in Term, IssueReal(o, a, p, c, t)
      PROVE  CapitalMove
  <2> DEFINE amount == RealSize(balances[a])
             new == Opened(o, a, amount, p, c, t)
  <2>1. reals' = Assoc(reals, nextRealId, new)
    BY <1>2 DEF IssueReal
  <2>2. balances' = [balances EXCEPT ![a] = @ - amount]
    BY <1>2 DEF IssueReal
  <2>3. new.fromAsset = a /\ new.amount = amount
    BY DEF Opened
  <2> HIDE DEF new, amount
  <2>4. /\ DOMAIN reals' = DOMAIN reals \cup {nextRealId}
        /\ reals'[nextRealId] = new
    BY <2>1 DEF Assoc
  <2>5. UNCHANGED papers
    BY <1>2 DEF IssueReal
  <2> QED
    BY <2>2, <2>3, <2>4, <2>5 DEF CapitalMove
<1>3. CASE UNCHANGED vars
  BY <1>1, <1>3 DEF vars
<1> QED
  BY <1>1, <1>2, <1>3
     DEF Next, IssuePaper, DenyReal, ResolveGrace, DenyExit, CheckDeadlines, vars

\* Paper operations and denials never touch the ledger; a grant takes from it
\* exactly what the new real position records.
THEOREM CapitalCorrect == Spec => OnlyRealsMoveCapital
<1>1. [Next]_vars => [CapitalMove]_vars
  BY NextCapital
<1>2. Spec => [][CapitalMove]_vars
  BY <1>1, PTL DEF Spec
<1> QED
  BY <1>2 DEF OnlyRealsMoveCapital, CapitalMove

-----------------------------------------------------------------------------
(* Money is accounted for *)

\* The real positions of one asset are finitely many.
LEMMA RealsFinite ==
    ASSUME TypeOK, NEW a
    PROVE  IsFiniteSet({id \in DOMAIN reals : reals[id].fromAsset = a})
<1>1. DOMAIN reals = 0..(nextRealId - 1) /\ nextRealId - 1 \in Int
  BY DEF TypeOK
<1>2. IsFiniteSet(DOMAIN reals)
  BY <1>1, FS_Interval
<1> QED
  BY <1>2, FS_Subset

\* Papers that keep their owners, their fates and what they carry leave every
\* owner's carried residue alone.
LEMMA CarriedSame ==
    ASSUME TypeOK, NEW o,
           PapersIn(o, "Grace")' = PapersIn(o, "Grace"),
           \A i \in PapersIn(o, "Grace") :
              i \in DOMAIN papers' /\ papers'[i].state.residue = papers[i].state.residue
    PROVE  Carried(o)' = Carried(o)
<1> DEFINE S == PapersIn(o, "Grace")
           f == [id \in DOMAIN papers |-> papers[id].state.residue]
           g == [id \in DOMAIN papers' |-> papers'[id].state.residue]
<1>1. \A i \in S : f[i] \in Int /\ g[i] = f[i]
  BY DEF PapersIn, PapersOf, TypeOK, Position, PositionState
<1>2. IsFiniteSet(S)
  BY PapersFinite
<1>3. Carried(o) = SumFunctionOnSet(f, S) /\ Carried(o)' = SumFunctionOnSet(g, S)
  BY DEF Carried
<1> HIDE DEF S, f, g
<1> QED
  BY <1>1, <1>2, <1>3, SumSame

\* A new paper carries nothing and moves no money.
LEMMA IssuePaperCapital ==
    ASSUME TypeOK, CapitalConserved,
           NEW o \in Owner, NEW a \in Asset, NEW p \in Price,
           NEW c \in Candle, NEW t \in Term, IssuePaper(o, a, p, c, t)
    PROVE  CapitalConserved'
<1> DEFINE new == Opened(o, a, PaperAmount, p, c, t)
           record == [RecordOf(o) EXCEPT !.paperSubmitted = @ + 1]
<1>1. nextPaperId \notin DOMAIN papers
  BY DEF TypeOK
<1>2. papers' = Assoc(papers, nextPaperId, new)
  BY DEF IssuePaper
<1>3. new.state.kind = "Active"
  BY DEF Opened, Active
<1> HIDE DEF new
<1>4. \A x : PapersIn(x, "Grace")' = PapersIn(x, "Grace")
  BY <1>1, <1>2, <1>3 DEF PapersIn, PapersOf, Assoc
<1>5. \A i \in DOMAIN papers : i \in DOMAIN papers' /\ papers'[i] = papers[i]
  BY <1>1, <1>2 DEF Assoc
<1>6. \A x : Carried(x)' = Carried(x)
  BY <1>4, <1>5, CarriedSame DEF PapersIn, PapersOf
<1>7. \A x : RecordOf(x)' = IF x = o THEN record ELSE RecordOf(x)
  BY RecordAfterAssoc DEF IssuePaper
<1>8. record.paperGraceResidue = RecordOf(o).paperGraceResidue
  BY RecordOfType DEF ProposerRecord
<1> HIDE DEF record
<1>9. \A x \in Owner : RecordOf(x)'.paperGraceResidue = Carried(x)'
  BY <1>6, <1>7, <1>8 DEF CapitalConserved
<1>10. UNCHANGED <<reals, balances>>
  BY DEF IssuePaper
<1> QED
  BY <1>9, <1>10 DEF CapitalConserved, Drawn

\* A grant moves its amount from the ledger to the new position.
LEMMA IssueRealCapital ==
    ASSUME TypeOK, CapitalConserved,
           NEW o \in Owner, NEW a \in Asset, NEW p \in Price,
           NEW c \in Candle, NEW t \in Term, IssueReal(o, a, p, c, t)
    PROVE  CapitalConserved'
<1> DEFINE amount == RealSize(balances[a])
           new == Opened(o, a, amount, p, c, t)
           f == [id \in DOMAIN reals |-> reals[id].amount]
           g == [id \in DOMAIN reals' |-> reals'[id].amount]
           S(x) == {id \in DOMAIN reals : reals[id].fromAsset = x}
<1>1. a \in DOMAIN balances /\ balances[a] \in Nat /\ amount \in Nat
  BY RealSizeType DEF IssueReal, RealAllowed, TypeOK
<1>2. new.fromAsset = a /\ new.amount = amount
  BY DEF Opened
<1>3. reals' = Assoc(reals, nextRealId, new)
  BY DEF IssueReal
<1>4. balances' = [balances EXCEPT ![a] = @ - amount]
  BY DEF IssueReal
<1> HIDE DEF amount, new
<1>5. nextRealId \notin DOMAIN reals
  BY DEF TypeOK
<1>6. /\ DOMAIN reals' = DOMAIN reals \cup {nextRealId}
      /\ reals'[nextRealId] = new
      /\ \A id \in DOMAIN reals : reals'[id] = reals[id]
  BY <1>3, <1>5 DEF Assoc
<1>7. \A x : {id \in DOMAIN reals' : reals'[id].fromAsset = x}
               = IF x = a THEN S(x) \cup {nextRealId} ELSE S(x)
  BY <1>2, <1>5, <1>6
<1>8. \A id \in DOMAIN reals : f[id] \in Int /\ g[id] = f[id]
  BY <1>6 DEF TypeOK, Position
<1>9. g[nextRealId] = amount
  BY <1>2, <1>6
<1>10. \A x : IsFiniteSet(S(x)) /\ nextRealId \notin S(x) /\ S(x) \subseteq DOMAIN reals
  BY <1>5, RealsFinite
<1>11. \A x : /\ Drawn(x) = SumFunctionOnSet(f, S(x))
              /\ Drawn(x)' = SumFunctionOnSet(g, IF x = a THEN S(x) \cup {nextRealId}
                                                          ELSE S(x))
  BY <1>7 DEF Drawn
<1> HIDE DEF f, g, S
<1>12. Drawn(a)' = Drawn(a) + amount
  <2> DEFINE T == S(a)
  <2>0. /\ IsFiniteSet(T) /\ nextRealId \notin T
        /\ \A i \in T : f[i] \in Int /\ g[i] = f[i]
        /\ g[nextRealId] \in Int
    BY <1>1, <1>8, <1>9, <1>10
  <2>1. SumFunctionOnSet(g, T \cup {nextRealId})
          = SumFunctionOnSet(f, T) + g[nextRealId]
    <3> HIDE DEF T
    <3> QED
      BY <2>0, SumGains
  <2> QED
    BY <1>9, <1>11, <2>1
<1>13. \A x : x # a => Drawn(x)' = Drawn(x)
  <2> SUFFICES ASSUME NEW x, x # a PROVE Drawn(x)' = Drawn(x)
    OBVIOUS
  <2>1. SumFunctionOnSet(g, S(x)) = SumFunctionOnSet(f, S(x))
    BY <1>8, <1>10, SumSame
  <2> QED
    BY <1>11, <2>1
<1>14. Drawn(a) \in Int
  BY <1>8, <1>10, <1>11, SumInts
<1>15. ASSUME NEW x \in DOMAIN balances'
       PROVE  InitialBalances[x] = balances'[x] + Drawn(x)'
  <2>1. x \in DOMAIN balances /\ InitialBalances[x] = balances[x] + Drawn(x)
    BY <1>4, <1>15 DEF CapitalConserved
  <2>2. CASE x = a
    <3>1. balances'[x] = balances[a] - amount
      BY <1>1, <1>4, <2>2
    <3> QED
      BY <1>1, <1>12, <1>14, <2>1, <2>2, <3>1
  <2>3. CASE x # a
    BY <1>4, <1>13, <2>1, <2>3
  <2> QED
    BY <2>2, <2>3
<1>16. UNCHANGED <<papers, proposerRecords>>
  BY DEF IssueReal
<1>17. \A x : RecordOf(x)' = RecordOf(x) /\ Carried(x)' = Carried(x)
  BY <1>16 DEF RecordOf, Carried, PapersIn, PapersOf
<1> QED
  BY <1>15, <1>17 DEF CapitalConserved

\* An exit credits its owner with what the paper carries from now on.
LEMMA ResolveGraceCapital ==
    ASSUME TypeOK, CapitalConserved, NEW id, NEW p \in Price,
           ResolveGrace(id, p)
    PROVE  CapitalConserved'
<1>0. PICK o : o = papers[id].owner
  OBVIOUS
<1> DEFINE residue == ResidueAt(papers[id], p)
           record == [RecordOf(o) EXCEPT !.paperSurvived = @ + 1,
                                         !.paperGraceResidue = @ + residue]
           S == PapersIn(o, "Grace")
           f == [i \in DOMAIN papers |-> papers[i].state.residue]
           g == [i \in DOMAIN papers' |-> papers'[i].state.residue]
<1>1. /\ id \in DOMAIN papers
      /\ papers[id].state.kind = "Active"
      /\ papers[id] \in Position
  BY DEF ResolveGrace, ValidExit, Active, TypeOK
<1>2. residue \in Int
  BY <1>1, ResidueType
<1>3. papers' = [papers EXCEPT ![id].state = Grace(residue)]
  BY DEF ResolveGrace
<1>4. Grace(residue).kind = "Grace" /\ Grace(residue).residue = residue
  BY DEF Grace
<1>5. \A x : RecordOf(x)' = IF x = o THEN record ELSE RecordOf(x)
  BY <1>0, RecordAfterAssoc DEF ResolveGrace
<1>6. record.paperGraceResidue = RecordOf(o).paperGraceResidue + residue
  BY RecordOfType DEF ProposerRecord
<1> HIDE DEF residue, record
<1>7. DOMAIN papers' = DOMAIN papers
  BY <1>3
<1>8. \A i \in DOMAIN papers :
         /\ papers'[i].owner = papers[i].owner
         /\ papers'[i].state = IF i = id THEN Grace(residue) ELSE papers[i].state
  BY <1>1, <1>3 DEF TypeOK, Position
<1>9. \A x : PapersIn(x, "Grace")' =
               IF x = o THEN PapersIn(x, "Grace") \cup {id} ELSE PapersIn(x, "Grace")
  BY <1>0, <1>1, <1>4, <1>7, <1>8 DEF PapersIn, PapersOf
<1>10. \A x : x # o => Carried(x)' = Carried(x)
  <2>1. \A x : \A i \in PapersIn(x, "Grace") : i \in DOMAIN papers /\ i # id
    BY <1>0, <1>1 DEF PapersIn, PapersOf
  <2> QED
    BY <1>7, <1>8, <1>9, <2>1, CarriedSame
<1>11. IsFiniteSet(S) /\ id \notin S /\ S \subseteq DOMAIN papers
  <2>1. IsFiniteSet(S)
    BY PapersFinite
  <2>2. id \notin S /\ S \subseteq DOMAIN papers
    BY <1>1 DEF PapersIn, PapersOf
  <2> QED
    BY <2>1, <2>2
<1>12. \A i \in S : f[i] \in Int /\ g[i] = f[i]
  <2>1. \A i \in S : i \in DOMAIN papers /\ i # id
    BY <1>11
  <2>2. \A i \in DOMAIN papers : papers[i].state.residue \in Int
    BY DEF TypeOK, Position, PositionState
  <2> QED
    BY <1>7, <1>8, <2>1, <2>2
<1>13. g[id] = residue
  BY <1>1, <1>4, <1>7, <1>8
<1>14. Carried(o) = SumFunctionOnSet(f, S)
  BY DEF Carried
<1>15. Carried(o)' = SumFunctionOnSet(g, S \cup {id})
  BY <1>9 DEF Carried
<1> HIDE DEF S, f, g
<1>16. Carried(o)' = Carried(o) + residue
  <2>1. /\ IsFiniteSet(S) /\ id \notin S /\ g[id] \in Int
        /\ \A i \in S : f[i] \in Int /\ g[i] = f[i]
    BY <1>2, <1>11, <1>12, <1>13
  <2>2. SumFunctionOnSet(g, S \cup {id}) = SumFunctionOnSet(f, S) + g[id]
    BY ONLY <2>1, SumGains
  <2> QED
    BY <1>13, <1>14, <1>15, <2>2
<1>17. \A x \in Owner : RecordOf(x)'.paperGraceResidue = Carried(x)'
  BY <1>5, <1>6, <1>10, <1>16 DEF CapitalConserved
<1>18. UNCHANGED <<reals, balances>>
  BY DEF ResolveGrace
<1> QED
  BY <1>17, <1>18 DEF CapitalConserved, Drawn

\* A tick fails papers that carry nothing, and credits no one.
LEMMA CheckDeadlinesCapital ==
    ASSUME TypeOK, CapitalConserved, NEW c \in Candle, CheckDeadlines(c)
    PROVE  CapitalConserved'
<1> DEFINE dead == Expired(c)
           lost(o) == Cardinality({id \in dead : papers[id].owner = o})
           losers == {papers[id].owner : id \in dead}
<1>1. /\ DOMAIN papers' = DOMAIN papers
      /\ \A i \in DOMAIN papers :
            papers'[i] = IF i \in dead THEN [papers[i] EXCEPT !.state = Violence]
                                       ELSE papers[i]
  BY DEF CheckDeadlines
<1>2. \A i \in dead : papers[i].state.kind = "Active"
  BY DEF Expired, Active
<1>3. proposerRecords' =
        [o \in DOMAIN proposerRecords \cup losers |->
           [RecordOf(o) EXCEPT !.paperFailed = @ + lost(o)]]
  BY DEF CheckDeadlines
<1>4. UNCHANGED <<reals, balances>>
  BY DEF CheckDeadlines
<1> HIDE DEF dead, lost, losers
<1>5. \A i \in DOMAIN papers :
         /\ papers'[i].owner = papers[i].owner
         /\ papers'[i].state.kind = IF i \in dead THEN "Violence"
                                                  ELSE papers[i].state.kind
         /\ i \notin dead => papers'[i].state.residue = papers[i].state.residue
  BY <1>1 DEF TypeOK, Position, Violence
<1>6. \A x : PapersIn(x, "Grace")' = PapersIn(x, "Grace")
  BY <1>1, <1>2, <1>5 DEF PapersIn, PapersOf
<1>7. \A x : \A i \in PapersIn(x, "Grace") : i \in DOMAIN papers /\ i \notin dead
  BY <1>2 DEF PapersIn, PapersOf
<1>8. \A x : Carried(x)' = Carried(x)
  BY <1>1, <1>5, <1>6, <1>7, CarriedSame
<1>9. \A x : RecordOf(x)'.paperGraceResidue = RecordOf(x).paperGraceResidue
  <2> SUFFICES ASSUME NEW x
               PROVE  RecordOf(x)'.paperGraceResidue = RecordOf(x).paperGraceResidue
    OBVIOUS
  <2> DEFINE r == RecordOf(x)
  <2>1. r \in ProposerRecord
    BY RecordOfType
  <2>2. RecordOf(x)' = IF x \in DOMAIN proposerRecords \cup losers
                       THEN [r EXCEPT !.paperFailed = @ + lost(x)] ELSE r
    BY <1>3 DEF RecordOf
  <2> HIDE DEF r
  <2>3. [r EXCEPT !.paperFailed = @ + lost(x)].paperGraceResidue = r.paperGraceResidue
    BY <2>1 DEF ProposerRecord
  <2>4. RecordOf(x)'.paperGraceResidue = r.paperGraceResidue
    BY <2>2, <2>3
  <2> QED
    BY <2>4 DEF r
<1>10. \A x \in Owner : RecordOf(x)'.paperGraceResidue = Carried(x)'
  BY <1>8, <1>9 DEF CapitalConserved
<1> QED
  BY <1>4, <1>10 DEF CapitalConserved, Drawn

LEMMA StutterCapital == CapitalConserved /\ UNCHANGED vars => CapitalConserved'
BY DEF CapitalConserved, Drawn, Carried, RecordOf, PapersIn, PapersOf, vars

LEMMA NextCapitalConserved ==
    TypeOK /\ CapitalConserved /\ [Next]_vars => CapitalConserved'
<1> SUFFICES ASSUME TypeOK, CapitalConserved, [Next]_vars PROVE CapitalConserved'
  OBVIOUS
<1>1. ASSUME NEW o \in Owner, NEW a \in Asset, NEW p \in Price,
             NEW c \in Candle, NEW t \in Term, IssuePaper(o, a, p, c, t)
      PROVE  CapitalConserved'
  BY <1>1, IssuePaperCapital
<1>2. ASSUME NEW o \in Owner, NEW a \in Asset, NEW p \in Price,
             NEW c \in Candle, NEW t \in Term, IssueReal(o, a, p, c, t)
      PROVE  CapitalConserved'
  BY <1>2, IssueRealCapital
<1>3. ASSUME NEW o \in Owner, NEW a \in Asset, DenyReal(o, a)
      PROVE  CapitalConserved'
  BY <1>3, StutterCapital DEF DenyReal
<1>4. ASSUME NEW id \in 0..MaxPapers, NEW p \in Price, ResolveGrace(id, p)
      PROVE  CapitalConserved'
  BY <1>4, ResolveGraceCapital
<1>5. ASSUME NEW id \in 0..MaxPapers, NEW p \in Price, DenyExit(id, p)
      PROVE  CapitalConserved'
  BY <1>5, StutterCapital DEF DenyExit
<1>6. ASSUME NEW c \in Candle, CheckDeadlines(c)
      PROVE  CapitalConserved'
  BY <1>6, CheckDeadlinesCapital
<1>7. CASE UNCHANGED vars
  BY <1>7, StutterCapital
<1> QED
  BY <1>1, <1>2, <1>3, <1>4, <1>5, <1>6, <1>7 DEF Next

LEMMA InitCapital == Init => CapitalConserved
<1> SUFFICES ASSUME Init PROVE CapitalConserved
  OBVIOUS
<1>1. \A a : Drawn(a) = 0
  <2>1. \A a : {id \in DOMAIN reals : reals[id].fromAsset = a} = {}
    BY DEF Init
  <2> QED
    BY <2>1, SumEmpty DEF Drawn
<1>2. \A o : Carried(o) = 0
  <2>1. \A o : PapersIn(o, "Grace") = {}
    BY DEF Init, PapersIn, PapersOf
  <2> QED
    BY <2>1, SumEmpty DEF Carried
<1>3. \A o : RecordOf(o).paperGraceResidue = 0
  BY DEF Init, RecordOf, FreshRecord
<1>4. \A a \in DOMAIN balances : balances[a] = InitialBalances[a] /\ balances[a] \in Nat
  BY LedgerAssumption DEF Init, LedgerAssumption
<1> QED
  BY <1>1, <1>2, <1>3, <1>4 DEF CapitalConserved

\* Whatever is issued, resolved or expired, in any order, each asset's ledger
\* and the real positions drawn from it add up to the initial balance, and a
\* record's residue is the sum of what its owner's Grace papers carry.
THEOREM CapitalIsConserved == Spec => []CapitalConserved
<1>1. Init => TypeOK /\ CapitalConserved
  BY InitType, InitCapital
<1>2. TypeOK /\ CapitalConserved /\ [Next]_vars => TypeOK' /\ CapitalConserved'
  BY NextType, NextCapitalConserved
<1> QED
  BY <1>1, <1>2, PTL DEF Spec

-----------------------------------------------------------------------------
(* Treasury implements TrustLedger.  CountersMatchPapers is what makes a    *)
(* grant of the detailed specification, decided from a track record, a      *)
(* grant of the abstract one, decided from the papers.                      *)

\* The instance's Cardinality is Cardinality.
LEMMA SameCardinality == \A S : Trust!Cardinality(S) = Cardinality(S)
BY DEF Trust!Cardinality, Cardinality

LEMMA LifeOfFacts ==
    ASSUME NEW id \in DOMAIN papers
    PROVE  /\ DOMAIN LifeOf = DOMAIN papers
           /\ LifeOf[id].owner = papers[id].owner
           /\ LifeOf[id].deadline = papers[id].deadline
           /\ LifeOf[id].phase = papers[id].state.kind
BY DEF LifeOf

LEMMA OfIsPapersOf ==
    ASSUME NEW o, NEW k
    PROVE  Trust!Of(o) = PapersOf(o) /\ Trust!InPhase(o, k) = PapersIn(o, k)
<1>1. DOMAIN LifeOf = DOMAIN papers
  BY DEF LifeOf
<1>2. \A id \in DOMAIN papers : /\ LifeOf[id].owner = papers[id].owner
                                /\ LifeOf[id].phase = papers[id].state.kind
  BY LifeOfFacts
<1> QED
  BY <1>1, <1>2 DEF Trust!Of, Trust!InPhase, PapersOf, PapersIn

\* The gate on the record is the trust ledger's test of the papers.
LEMMA GateIsProven ==
    ASSUME TypeOK, CountersMatchPapers, NEW o \in Owner, NEW a,
           RealAllowed(o, a)
    PROVE  Trust!Proven(o)
<1> DEFINE r == RecordOf(o)
<1>1. r = proposerRecords[o] /\ GatePredicate(r) /\ r \in ProposerRecord
  BY RecordOfType DEF RealAllowed, RecordOf, TypeOK
<1>2. /\ r.paperSubmitted = Cardinality(PapersOf(o))
      /\ r.paperSurvived = Cardinality(PapersIn(o, "Grace"))
      /\ r.paperFailed = Cardinality(PapersIn(o, "Violence"))
  BY DEF CountersMatchPapers
<1> HIDE DEF r
<1>3. r.paperSurvived \in Nat /\ r.paperFailed \in Nat
  BY <1>1 DEF ProposerRecord
<1>4. r.paperSubmitted >= GateSubmissions /\ r.paperSurvived > r.paperFailed
  BY <1>1, <1>3 DEF GatePredicate
<1> QED
  BY <1>2, <1>4, OfIsPapersOf, SameCardinality DEF Trust!Proven

LEMMA IdsCounted ==
    ASSUME TypeOK
    PROVE  /\ Cardinality(DOMAIN LifeOf) = nextPaperId
           /\ Cardinality(DOMAIN GrantsOf) = nextRealId
<1>1. DOMAIN LifeOf = 0..(nextPaperId - 1) /\ DOMAIN GrantsOf = 0..(nextRealId - 1)
  BY DEF LifeOf, GrantsOf, TypeOK
<1>2. \A n \in Nat : Cardinality(0..(n - 1)) = n
  <2> TAKE n \in Nat
  <2>1. n - 1 \in Int /\ (0 > n - 1 => n = 0)
    OBVIOUS
  <2>2. Cardinality(0..(n - 1)) = IF 0 > n - 1 THEN 0 ELSE (n - 1) - 0 + 1
    BY <2>1, FS_Interval
  <2> QED
    BY <2>1, <2>2
<1> QED
  BY <1>1, <1>2 DEF TypeOK

-----------------------------------------------------------------------------
(* One lemma per operation *)

LEMMA SubmitRefines ==
    ASSUME TypeOK, NEW o \in Owner, NEW a \in Asset, NEW p \in Price,
           NEW c \in Candle, NEW t \in Term, IssuePaper(o, a, p, c, t)
    PROVE  Trust!Submit(o, c, t)
<1> DEFINE new == Opened(o, a, PaperAmount, p, c, t)
<1>1. papers' = Assoc(papers, nextPaperId, new)
  BY DEF IssuePaper
<1>2. /\ new.owner = o /\ new.deadline = c + t /\ new.state.kind = "Active"
  BY DEF Opened, Active
<1> HIDE DEF new
<1>3. LifeOf' = [i \in DOMAIN LifeOf \cup {nextPaperId} |->
                   IF i = nextPaperId
                   THEN [owner |-> o, deadline |-> c + t, phase |-> "Active"]
                   ELSE LifeOf[i]]
  BY <1>1, <1>2 DEF LifeOf, Assoc
<1>4. Cardinality(DOMAIN LifeOf) = nextPaperId
  BY IdsCounted
<1>5. UNCHANGED <<GrantsOf, balances>>
  BY DEF IssuePaper, GrantsOf
<1> QED
  BY <1>3, <1>4, <1>5, SameCardinality DEF Trust!Submit

LEMMA FundRefines ==
    ASSUME TypeOK, CountersMatchPapers, NEW o \in Owner, NEW a \in Asset,
           NEW p \in Price, NEW c \in Candle, NEW t \in Term,
           IssueReal(o, a, p, c, t)
    PROVE  a \in DOMAIN balances /\ Trust!Fund(o, a)
<1> DEFINE n == RealSize(balances[a])
           new == Opened(o, a, n, p, c, t)
<1>1. /\ reals' = Assoc(reals, nextRealId, new)
      /\ balances' = [balances EXCEPT ![a] = @ - n]
      /\ RealAllowed(o, a)
  BY DEF IssueReal
<1>2. new.owner = o /\ new.fromAsset = a /\ new.amount = n
  BY DEF Opened
<1>3. n = IF balances[a] < RealAmount THEN balances[a] ELSE RealAmount
  BY DEF RealSize
<1> HIDE DEF new, n
<1>4. GrantsOf' = [i \in DOMAIN GrantsOf \cup {nextRealId} |->
                     IF i = nextRealId
                     THEN [owner |-> o, asset |-> a, amount |-> n]
                     ELSE GrantsOf[i]]
  BY <1>1, <1>2 DEF GrantsOf, Assoc
<1>5. Cardinality(DOMAIN GrantsOf) = nextRealId
  BY IdsCounted
<1>6. UNCHANGED LifeOf
  BY DEF IssueReal, LifeOf
<1>7. Trust!Proven(o) /\ a \in DOMAIN balances /\ balances[a] > 0
  BY <1>1, GateIsProven DEF RealAllowed
<1> QED
  BY <1>1, <1>3, <1>4, <1>5, <1>6, <1>7, SameCardinality
     DEF Trust!Fund

LEMMA SurviveRefines ==
    ASSUME TypeOK, NEW id, NEW p \in Price, ResolveGrace(id, p)
    PROVE  id \in DOMAIN LifeOf /\ Trust!Survive(id)
<1>1. id \in DOMAIN papers /\ papers[id].state.kind = "Active"
  BY DEF ResolveGrace, ValidExit, Active
<1>2. PICK r : papers' = [papers EXCEPT ![id].state = Grace(r)]
  BY DEF ResolveGrace
<1>3. \A i \in DOMAIN papers :
         /\ papers'[i].owner = papers[i].owner
         /\ papers'[i].deadline = papers[i].deadline
         /\ papers'[i].state.kind = IF i = id THEN "Grace" ELSE papers[i].state.kind
  BY <1>1, <1>2 DEF TypeOK, Position, Grace
<1>4. DOMAIN papers' = DOMAIN papers
  BY <1>2
<1>5. LifeOf' = [LifeOf EXCEPT ![id].phase = "Grace"]
  BY <1>1, <1>3, <1>4 DEF LifeOf
<1>6. LifeOf[id].phase = "Active" /\ id \in DOMAIN LifeOf
  BY <1>1 DEF LifeOf
<1>7. UNCHANGED <<GrantsOf, balances>>
  BY DEF ResolveGrace, GrantsOf
<1> QED
  BY <1>5, <1>6, <1>7 DEF Trust!Survive

LEMMA TickRefines ==
    ASSUME TypeOK, NEW c \in Candle, CheckDeadlines(c)
    PROVE  Trust!Tick(c)
<1> DEFINE dead == Expired(c)
<1>1. /\ DOMAIN papers' = DOMAIN papers
      /\ \A i \in DOMAIN papers :
            papers'[i] = IF i \in dead THEN [papers[i] EXCEPT !.state = Violence]
                                       ELSE papers[i]
  BY DEF CheckDeadlines
<1>2. \A i \in DOMAIN papers :
         i \in dead <=> LifeOf[i].phase = "Active" /\ LifeOf[i].deadline <= c
  <2> SUFFICES ASSUME NEW i \in DOMAIN papers
               PROVE  i \in dead <=> /\ LifeOf[i].phase = "Active"
                                     /\ LifeOf[i].deadline <= c
    OBVIOUS
  <2>1. papers[i] \in Position
    BY DEF TypeOK
  <2>2. papers[i].state = Active <=> papers[i].state.kind = "Active"
    BY <2>1 DEF Position, PositionState, Active
  <2>3. c \in Nat /\ papers[i].deadline \in Nat
    BY <2>1, InputsAssumption DEF Position, InputsAssumption
  <2> QED
    BY <2>2, <2>3, LifeOfFacts DEF Expired
<1> HIDE DEF dead
<1>3. \A i \in DOMAIN papers :
         /\ papers'[i].owner = papers[i].owner
         /\ papers'[i].deadline = papers[i].deadline
         /\ papers'[i].state.kind = IF i \in dead THEN "Violence"
                                                  ELSE papers[i].state.kind
  BY <1>1 DEF TypeOK, Position, Violence
<1>4. LifeOf' = [i \in DOMAIN LifeOf |->
                   IF LifeOf[i].phase = "Active" /\ LifeOf[i].deadline <= c
                   THEN [LifeOf[i] EXCEPT !.phase = "Violence"] ELSE LifeOf[i]]
  BY <1>1, <1>2, <1>3 DEF LifeOf
<1>5. UNCHANGED <<GrantsOf, balances>>
  BY DEF CheckDeadlines, GrantsOf
<1> QED
  BY <1>4, <1>5 DEF Trust!Tick

LEMMA StepRefines ==
    TypeOK /\ CountersMatchPapers /\ [Next]_vars => [Trust!LNext]_(Trust!lvars)
<1> SUFFICES ASSUME TypeOK, CountersMatchPapers, [Next]_vars
             PROVE  Trust!LNext \/ UNCHANGED Trust!lvars
  OBVIOUS
<1>1. CASE UNCHANGED vars
  BY <1>1 DEF vars, Trust!lvars, LifeOf, GrantsOf
<1>2. CASE Next
  <2>1. CASE \E o \in Owner, a \in Asset, p \in Price, c \in Candle, t \in Term :
                IssuePaper(o, a, p, c, t)
    BY <2>1, SubmitRefines DEF Trust!LNext
  <2>2. CASE \E o \in Owner, a \in Asset, p \in Price, c \in Candle, t \in Term :
                IssueReal(o, a, p, c, t)
    BY <2>2, FundRefines DEF Trust!LNext
  <2>3. CASE \E o \in Owner, a \in Asset : DenyReal(o, a)
    BY <1>1, <2>3 DEF DenyReal
  <2>4. CASE \E id \in 0..MaxPapers, p \in Price : ResolveGrace(id, p)
    BY <2>4, SurviveRefines DEF Trust!LNext
  <2>5. CASE \E id \in 0..MaxPapers, p \in Price : DenyExit(id, p)
    BY <1>1, <2>5 DEF DenyExit
  <2>6. CASE \E c \in Candle : CheckDeadlines(c)
    BY <2>6, TickRefines DEF Trust!LNext
  <2> QED
    BY <1>2, <2>1, <2>2, <2>3, <2>4, <2>5, <2>6 DEF Next
<1> QED
  BY <1>1, <1>2

LEMMA InitRefines == Init => Trust!LInit
BY DEF Init, Trust!LInit, LifeOf, GrantsOf

\* The treasury keeps the trust ledger's promise for every value of the
\* constants: initial states map to initial states, each operation to one
\* step or a stutter.
THEOREM TreasuryKeepsTrust == Spec => TrustKept
<1>1. Init => Trust!LInit
  BY InitRefines
<1>2. TypeOK /\ CountersMatchPapers /\ [Next]_vars => [Trust!LNext]_(Trust!lvars)
  BY StepRefines
<1>3. Spec => []TypeOK /\ []CountersMatchPapers
  BY TypeCorrect, CountersCorrect
<1>4. Spec => Trust!LInit /\ [][Trust!LNext]_(Trust!lvars)
  BY <1>1, <1>2, <1>3, PTL DEF Spec
<1> QED
  BY <1>4 DEF TrustKept, Trust!LSpec

-----------------------------------------------------------------------------
(* The service *)

Ticks == [type : {"Tick"}, candle : Candle]

Asked ==
    [type : {"SubmitPaper", "SubmitReal"}, from : Asset, price : Price]
    \cup [type : {"SubmitExit"}, id : 0..(MaxPapers - 1), price : Price]
    \cup [type : {"BatchGetPaperStates"}, ids : {0..(MaxPapers - 1)}]

\* What may lie in a bounded(1) queue whose elements are in S.
AtMostOne(S) == {<<>>} \cup {<<x>> : x \in S}

EventOf(c) == IF c = TickSlot THEN Ticks ELSE Asked

ServiceTypes ==
    /\ queue \in [Channel -> AtMostOne(Ticks \cup Asked)]
    /\ \A c \in Channel : queue[c] \in AtMostOne(EventOf(c))
    /\ reply = [b \in Owner |-> reply[b]]
    /\ \A b \in Owner : reply[b] = <<>> \/ \E r : reply[b] = <<r>>
    /\ txOpen \in [Channel -> BOOLEAN]
    /\ replyOpen \in [Owner -> BOOLEAN]
    /\ rxs \in Seq(Channel)
    /\ driver \in {"selecting", "exited", "panicked"}
    /\ broker \in [Owner -> Request \cup {"idle", "done", "died"}]
    /\ receipts = [b \in Owner |-> receipts[b]]
    /\ main \in {"ticking", "joining", "joined"}
    /\ nextCandle \in Nat

\* The three vectors agree, and hold every channel that still matters.
Routed ==
    /\ slots = rxs /\ brokerIndices = rxs
    /\ IsInjective(rxs)
    /\ \A c \in Channel : txOpen[c] \/ queue[c] # <<>> => c \in Range(rxs)

\* A handle is open exactly while its owner may still use it.
Alive(b) == broker[b] \in Request \cup {"idle"}

HandlesFollow ==
    /\ txOpen[TickSlot] <=> main = "ticking"
    /\ \A b \in Owner : (txOpen[b] <=> Alive(b)) /\ (replyOpen[b] <=> Alive(b))

-----------------------------------------------------------------------------
(* Facts about the constants and the queues *)

LEMMA Channels ==
    /\ TickSlot \in Channel /\ TickSlot \notin Owner
    /\ \A b \in Owner : b \in Channel /\ b \in Nat
    /\ \A c \in Channel : c = TickSlot \/ c \in Owner
    /\ EntryCandle \in Candle /\ DeadlineCandles \in Term
<1>1. \E t \in Term : Term = {t}
  BY ServiceAssumption DEF ServiceAssumption
<1>2. DeadlineCandles \in Term
  BY <1>1 DEF DeadlineCandles
<1> QED
  BY <1>2, ServiceAssumption
  DEF ServiceAssumption, Channel, TickSlot, EntryCandle

LEMMA OneElement ==
    ASSUME NEW S, NEW q \in AtMostOne(S)
    PROVE  /\ q # <<>> => Head(q) \in S /\ Tail(q) = <<>> /\ q = <<Head(q)>>
           /\ Len(q) < 1 => q = <<>>
           /\ Len(q) \in 0..1
BY DEF AtMostOne

LEMMA PutOne ==
    ASSUME NEW x
    PROVE  /\ Append(<<>>, x) = <<x>> /\ <<x>> # <<>>
           /\ Len(<<>>) = 0 /\ Len(<<x>>) = 1
           /\ Head(<<x>>) = x /\ Tail(<<x>>) = <<>>
OBVIOUS

LEMMA WiringFacts ==
    /\ Wiring \in Seq(Channel) /\ IsInjective(Wiring)
    /\ Range(Wiring) = Channel
<1>1. BrokerCount \in Nat \ {0} /\ Owner = 0..(BrokerCount - 1)
  BY ServiceAssumption DEF ServiceAssumption
<1>2. \A c \in Channel : c + 2 \in 1..(BrokerCount + 1) /\ (c + 2) - 2 = c
  BY <1>1 DEF Channel, TickSlot
<1>3. \A i \in 1..(BrokerCount + 1) : i - 2 \in Channel
  BY <1>1 DEF Channel, TickSlot
<1>4. Wiring \in Seq(Channel)
  BY <1>1, <1>3 DEF Wiring
<1>5. IsInjective(Wiring)
  BY <1>1 DEF Wiring, IsInjective
<1>6. DOMAIN Wiring = 1..(BrokerCount + 1)
  BY DEF Wiring
<1>7. Range(Wiring) = {Wiring[i] : i \in 1..(BrokerCount + 1)}
  BY <1>6 DEF Range
<1>8. \A c \in Channel : c \in Range(Wiring)
  BY <1>2, <1>7 DEF Wiring
<1>9. \A c \in Range(Wiring) : c \in Channel
  BY <1>3, <1>7 DEF Wiring
<1> QED
  BY <1>4, <1>5, <1>8, <1>9

\* remove-at takes out one element and shifts those behind it.
LEMMA Removal ==
    ASSUME NEW S, NEW s \in Seq(S), NEW i \in 1..Len(s), IsInjective(s)
    PROVE  /\ RemoveAt(s, i) \in Seq(S)
           /\ IsInjective(RemoveAt(s, i))
           /\ \A x \in Range(s) : x # s[i] => x \in Range(RemoveAt(s, i))
<1> DEFINE t == RemoveAt(s, i)
<1>1. /\ SubSeq(s, 1, i - 1) \in Seq(S) /\ SubSeq(s, i + 1, Len(s)) \in Seq(S)
      /\ Len(SubSeq(s, 1, i - 1)) = i - 1
      /\ Len(SubSeq(s, i + 1, Len(s))) = Len(s) - i
      /\ \A j \in 1..(i - 1) : SubSeq(s, 1, i - 1)[j] = s[j]
      /\ \A j \in 1..(Len(s) - i) : SubSeq(s, i + 1, Len(s))[j] = s[i + j]
  OBVIOUS
<1>2. /\ t \in Seq(S) /\ Len(t) = Len(s) - 1
      /\ \A j \in 1..(i - 1) : t[j] = s[j]
      /\ \A j \in i..(Len(s) - 1) : t[j] = s[j + 1]
  <2> DEFINE a == SubSeq(s, 1, i - 1)
             b == SubSeq(s, i + 1, Len(s))
  <2>1. t = a \o b
    BY DEF RemoveAt
  <2> HIDE DEF a, b, t
  <2>2. /\ a \in Seq(S) /\ b \in Seq(S) /\ Len(a) = i - 1 /\ Len(b) = Len(s) - i
        /\ \A j \in 1..(i - 1) : a[j] = s[j]
        /\ \A j \in 1..(Len(s) - i) : b[j] = s[i + j]
    BY <1>1 DEF a, b
  <2>3. /\ t \in Seq(S) /\ Len(t) = Len(a) + Len(b)
        /\ \A j \in 1..Len(t) : t[j] = IF j <= Len(a) THEN a[j] ELSE b[j - Len(a)]
    <3>1. \A j \in 1..(Len(a) + Len(b)) :
             (a \o b)[j] = IF j <= Len(a) THEN a[j] ELSE b[j - Len(a)]
      BY <2>2, ConcatProperties
    <3>2. a \o b \in Seq(S) /\ Len(a \o b) = Len(a) + Len(b)
      BY <2>2, ConcatProperties
    <3> QED
      BY <2>1, <3>1, <3>2
  <2>4. Len(t) = Len(s) - 1
    BY <2>2, <2>3
  <2>5. ASSUME NEW j \in 1..(i - 1) PROVE t[j] = s[j]
    <3>1. j \in 1..Len(t) /\ j <= Len(a)
      BY <2>2, <2>4
    <3> QED
      BY <2>2, <2>3, <3>1
  <2>6. ASSUME NEW j \in i..(Len(s) - 1) PROVE t[j] = s[j + 1]
    <3>1. j \in 1..Len(t) /\ ~(j <= Len(a)) /\ j - Len(a) = j - i + 1
      BY <2>2, <2>4
    <3>2. t[j] = b[j - i + 1]
      BY <2>3, <3>1
    <3>3. j - i + 1 \in 1..(Len(s) - i) /\ i + (j - i + 1) = j + 1
      OBVIOUS
    <3> QED
      BY <2>2, <3>2, <3>3
  <2> QED
    BY <2>3, <2>4, <2>5, <2>6
<1> HIDE DEF t
<1>3. DOMAIN t = 1..(Len(s) - 1) /\ DOMAIN s = 1..Len(s)
  BY <1>2
<1>4. \A j \in 1..(Len(s) - 1) :
         t[j] = s[IF j < i THEN j ELSE j + 1]
  BY <1>2
<1>5. ASSUME NEW j \in DOMAIN t, NEW k \in DOMAIN t, t[j] = t[k]
      PROVE  j = k
  <2> DEFINE at(n) == IF n < i THEN n ELSE n + 1
  <2>1. at(j) \in DOMAIN s /\ at(k) \in DOMAIN s
    BY <1>3
  <2>2. s[at(j)] = s[at(k)]
    BY <1>3, <1>4, <1>5
  <2>3. at(j) = at(k)
    BY <2>1, <2>2 DEF IsInjective
  <2> QED
    BY <1>3, <2>3
<1>6. ASSUME NEW x \in Range(s), x # s[i]
      PROVE  x \in Range(t)
  <2>1. PICK k \in 1..Len(s) : x = s[k]
    BY <1>3, <1>6 DEF Range
  <2>2. CASE k < i
    <3>1. k \in DOMAIN t /\ t[k] = x
      BY <1>3, <1>4, <2>1, <2>2
    <3> QED
      BY <3>1 DEF Range
  <2>3. CASE k > i
    <3>1. k - 1 \in DOMAIN t /\ t[k - 1] = x
      BY <1>3, <1>4, <2>1, <2>3
    <3> QED
      BY <3>1 DEF Range
  <2> QED
    BY <1>6, <2>1, <2>2, <2>3
<1>7. IsInjective(t)
  BY <1>5 DEF IsInjective
<1> QED
  BY <1>2, <1>6, <1>7 DEF t

-----------------------------------------------------------------------------
(* The driver serves the treasury *)

\* What the driver finds at a position it selects: the vectors name one
\* channel, and its queue holds one event of that channel.
LEMMA AtPosition ==
    ASSUME ServiceTypes, Routed, NEW i \in 1..Len(rxs), NEW type,
           Selected(i, type)
    PROVE  /\ rxs[i] \in Channel /\ slots[i] = rxs[i] /\ brokerIndices[i] = rxs[i]
           /\ Head(queue[rxs[i]]) \in EventOf(rxs[i])
           /\ Tail(queue[rxs[i]]) = <<>>
           /\ queue[rxs[i]] = <<Head(queue[rxs[i]])>>
<1>1. rxs[i] \in Channel
  BY DEF ServiceTypes
<1>2. queue[rxs[i]] \in AtMostOne(EventOf(rxs[i])) /\ queue[rxs[i]] # <<>>
  BY <1>1 DEF ServiceTypes, Selected
<1> QED
  BY <1>1, <1>2, OneElement DEF Routed

LEMMA FromBroker ==
    ASSUME ServiceTypes, Routed, NEW i \in 1..Len(rxs), NEW type \in Request,
           Selected(i, type)
    PROVE  rxs[i] \in Owner /\ Head(queue[rxs[i]]) \in Asked
<1>1. rxs[i] \in Channel /\ Head(queue[rxs[i]]) \in EventOf(rxs[i])
  BY AtPosition
<1>2. Head(queue[rxs[i]]).type \in Request
  BY DEF Selected
<1>3. Head(queue[rxs[i]]) \notin Ticks
  BY <1>2 DEF Ticks, Request
<1> QED
  BY <1>1, <1>3, Channels DEF EventOf

LEMMA HandleServes ==
    ASSUME ServiceTypes, Routed, NEW i \in 1..Len(rxs), Handle(i)
    PROVE  [Next]_vars
<1> DEFINE e == Head(queue[rxs[i]])
<1>0. Request = {"SubmitPaper", "SubmitReal", "SubmitExit", "BatchGetPaperStates"}
  BY DEF Request
<1>1. CASE HandleTick(i)
  <2>1. Selected(i, "Tick") /\ CheckDeadlines(e.candle) /\ slots[i] = TickSlot
    BY <1>1 DEF HandleTick
  <2>2. e \in Ticks
    <3>1. rxs[i] = TickSlot /\ e \in EventOf(rxs[i])
      BY <2>1, AtPosition
    <3> QED
      BY <3>1 DEF EventOf
  <2> QED
    BY <2>1, <2>2 DEF Ticks, Next
<1>2. CASE HandleSubmitPaper(i)
  <2>1. /\ Selected(i, "SubmitPaper")
        /\ IssuePaper(brokerIndices[i], e.from, e.price, EntryCandle, DeadlineCandles)
    BY <1>2 DEF HandleSubmitPaper
  <2>2. brokerIndices[i] \in Owner /\ e \in Asked
    BY <1>0, <2>1, AtPosition, FromBroker
  <2>3. e.from \in Asset /\ e.price \in Price
    BY <2>1, <2>2 DEF Asked, Selected
  <2> QED
    BY <2>1, <2>2, <2>3, Channels DEF Next
<1>3. CASE HandleSubmitReal(i)
  <2>1. /\ Selected(i, "SubmitReal")
        /\ \/ IssueReal(brokerIndices[i], e.from, e.price, EntryCandle, DeadlineCandles)
           \/ DenyReal(brokerIndices[i], e.from)
    BY <1>3 DEF HandleSubmitReal
  <2>2. brokerIndices[i] \in Owner /\ e \in Asked
    BY <1>0, <2>1, AtPosition, FromBroker
  <2>3. e.from \in Asset /\ e.price \in Price
    BY <2>1, <2>2 DEF Asked, Selected
  <2> QED
    BY <2>1, <2>2, <2>3, Channels DEF Next
<1>4. CASE HandleSubmitExit(i)
  <2>1. /\ Selected(i, "SubmitExit")
        /\ ResolveGrace(e.id, e.price) \/ DenyExit(e.id, e.price)
    BY <1>4 DEF HandleSubmitExit
  <2>2. e \in Asked
    BY <1>0, <2>1, FromBroker
  <2>3. e.id \in 0..MaxPapers /\ e.price \in Price
    BY <2>1, <2>2, BoundsAssumption DEF Selected, Asked, BoundsAssumption
  <2> QED
    BY <2>1, <2>3 DEF Next
<1>5. CASE HandleBatchGet(i)
  BY <1>5 DEF HandleBatchGet
<1> QED
  BY <1>1, <1>2, <1>3, <1>4, <1>5 DEF Handle

\* Only the driver touches the treasury, and each of its iterations is one
\* operation of the bank or none.
LEMMA StepServes ==
    ASSUME ServiceTypes, Routed, [ServiceNext]_allVars
    PROVE  [Next]_vars
<1>1. ASSUME NEW c \in Channel, Serve(c) PROVE [Next]_vars
  <2>1. PICK i \in DOMAIN rxs : Handle(i) \/ PanicOnReply(i) \/ Prune(i) \/ PeerDied(i)
    BY <1>1 DEF Serve
  <2>2. i \in 1..Len(rxs)
    BY <2>1 DEF ServiceTypes
  <2> QED
    BY <2>1, <2>2, HandleServes DEF PanicOnReply, Prune, PeerDied
<1>2. CASE UNCHANGED allVars
  BY <1>2 DEF allVars
<1>3. CASE \/ SendTick \/ DropTicks \/ Join \/ Exit \/ Finished
  BY <1>3 DEF SendTick, DropTicks, Join, Exit, Finished, allVars
<1>4. ASSUME NEW b \in Owner,
             \/ \E event \in Events : BrokerSend(b, event)
             \/ BrokerSendFails(b) \/ BrokerRecv(b) \/ BrokerRecvNone(b)
             \/ BrokerDrop(b) \/ BrokerDies(b)
      PROVE  [Next]_vars
  BY <1>4 DEF BrokerSend, BrokerSendFails, BrokerRecv, BrokerRecvNone,
              BrokerDrop, BrokerDies, CloseHandle
<1> QED
  BY <1>1, <1>2, <1>3, <1>4 DEF ServiceNext

-----------------------------------------------------------------------------
(* What one iteration does to the queues and to what is owed to whom *)

RealsOf(b) == {id \in DOMAIN reals : reals[id].owner = b}

Owned(b) ==
    {<<"paper", id>> : id \in PapersOf(b)} \cup {<<"real", id>> : id \in RealsOf(b)}

\* Response r is the answer to request q: of the type the helper matches,
\* and what it says of a resolved paper is so.
Tells(q, r) ==
    /\ q = "SubmitPaper" =>
          r.type = "PaperIssued" /\ \A x \in r.receipt : x[1] = "paper"
    /\ q = "SubmitReal" =>
          r.type = "RealIssued" /\ \A x \in r.receipt : x[1] = "real"
    /\ q = "SubmitExit" =>
          /\ r.type = "ExitResolved"
          /\ \A v \in r.verdict :
                v # Active /\ r.id \in DOMAIN papers /\ v = papers[r.id].state
    /\ q = "BatchGetPaperStates" =>
          /\ r.type = "PaperStates"
          /\ \A id \in DOMAIN r.states :
                r.states[id] # Active =>
                  id \in DOMAIN papers /\ r.states[id] = papers[id].state

\* The answer r to client b, who asked q, in the next state.
Answered(b, q, r) ==
    /\ Tells(q, r)'
    /\ Owned(b)' = Owned(b) \cup Handed(q, r)
    /\ \A d \in Owner \ {b} : Owned(d)' = Owned(d)

\* Owners are for ever: a step that adds no position changes nobody's.
LEMMA SameOwners ==
    ASSUME UNCHANGED reals, DOMAIN papers' = DOMAIN papers,
           \A id \in DOMAIN papers : papers'[id].owner = papers[id].owner
    PROVE  \A d : Owned(d)' = Owned(d)
BY DEF Owned, PapersOf, RealsOf

LEMMA PaperAnswered ==
    ASSUME TypeOK, NEW b \in Owner, NEW a, NEW p,
           IssuePaper(b, a, p, EntryCandle, DeadlineCandles),
           NEW r, r = [type |-> "PaperIssued", receipt |-> {<<"paper", nextPaperId>>}]
    PROVE  Answered(b, "SubmitPaper", r)
<1> DEFINE new == Opened(b, a, PaperAmount, p, EntryCandle, DeadlineCandles)
<1>1. nextPaperId \notin DOMAIN papers
  BY DEF TypeOK
<1>2. papers' = Assoc(papers, nextPaperId, new) /\ reals' = reals
  BY DEF IssuePaper
<1>3. new.owner = b
  BY DEF Opened
<1> HIDE DEF new
<1>4. /\ DOMAIN papers' = DOMAIN papers \cup {nextPaperId}
      /\ papers'[nextPaperId].owner = b
      /\ \A id \in DOMAIN papers : papers'[id] = papers[id]
  BY <1>1, <1>2, <1>3 DEF Assoc
<1>5. PapersOf(b)' = PapersOf(b) \cup {nextPaperId}
  BY <1>4 DEF PapersOf
<1>6. \A d \in Owner \ {b} : PapersOf(d)' = PapersOf(d)
  BY <1>4 DEF PapersOf
<1>7. Handed("SubmitPaper", r) = {<<"paper", nextPaperId>>}
  BY DEF Handed
<1>8. Tells("SubmitPaper", r)'
  BY DEF Tells
<1> QED
  BY <1>2, <1>5, <1>6, <1>7, <1>8 DEF Answered, Owned, RealsOf

LEMMA RealAnswered ==
    ASSUME TypeOK, NEW b \in Owner, NEW a, NEW p,
           IssueReal(b, a, p, EntryCandle, DeadlineCandles),
           NEW r, r = [type |-> "RealIssued", receipt |-> {<<"real", nextRealId>>}]
    PROVE  Answered(b, "SubmitReal", r)
<1> DEFINE new == Opened(b, a, RealSize(balances[a]), p, EntryCandle, DeadlineCandles)
<1>1. nextRealId \notin DOMAIN reals
  BY DEF TypeOK
<1>2. reals' = Assoc(reals, nextRealId, new) /\ papers' = papers
  BY DEF IssueReal
<1>3. new.owner = b
  BY DEF Opened
<1> HIDE DEF new
<1>4. /\ DOMAIN reals' = DOMAIN reals \cup {nextRealId}
      /\ reals'[nextRealId].owner = b
      /\ \A id \in DOMAIN reals : reals'[id] = reals[id]
  BY <1>1, <1>2, <1>3 DEF Assoc
<1>5. RealsOf(b)' = RealsOf(b) \cup {nextRealId}
  BY <1>4 DEF RealsOf
<1>6. \A d \in Owner \ {b} : RealsOf(d)' = RealsOf(d)
  BY <1>4 DEF RealsOf
<1>7. Handed("SubmitReal", r) = {<<"real", nextRealId>>}
  BY DEF Handed
<1>8. Tells("SubmitReal", r)'
  BY DEF Tells
<1> QED
  BY <1>2, <1>5, <1>6, <1>7, <1>8 DEF Answered, Owned, PapersOf

LEMMA ExitAnswered ==
    ASSUME TypeOK, NEW b \in Owner, NEW id, NEW p, ResolveGrace(id, p),
           NEW r, r = [type |-> "ExitResolved", id |-> id,
                       verdict |-> {papers'[id].state}]
    PROVE  Answered(b, "SubmitExit", r)
<1>1. /\ id \in DOMAIN papers /\ reals' = reals
      /\ papers' = [papers EXCEPT ![id].state = Grace(ResidueAt(papers[id], p))]
  BY DEF ResolveGrace, ValidExit
<1>2. DOMAIN papers' = DOMAIN papers
  BY <1>1
<1>3. \A x \in DOMAIN papers : papers[x] \in Position
  BY DEF TypeOK
<1>4. \A x \in DOMAIN papers : papers'[x].owner = papers[x].owner
  BY <1>1, <1>3 DEF Position
<1>5. papers'[id].state = Grace(ResidueAt(papers[id], p))
  BY <1>1, <1>3 DEF Position
<1>6. papers'[id].state # Active
  BY <1>5 DEF Active, Grace
<1>7. Tells("SubmitExit", r)'
  BY <1>1, <1>2, <1>6 DEF Tells, Active
<1>8. Handed("SubmitExit", r) = {}
  BY DEF Handed
<1> QED
  BY <1>1, <1>2, <1>4, <1>7, <1>8, SameOwners DEF Answered

\* A refusal, and the states of papers, change and hand over nothing.
LEMMA NothingHanded ==
    ASSUME NEW b \in Owner, UNCHANGED vars, NEW q \in Request, NEW r,
           Tells(q, r)', Handed(q, r) = {}
    PROVE  Answered(b, q, r)
BY SameOwners DEF Answered, vars

\* An iteration takes the one event of its channel.  A tick leaves owners
\* and replies alone; a request puts one answer on a reply queue that was
\* empty, at the position of its own channel.
Handles(i, c) ==
    /\ driver = "selecting" /\ queue[c] # <<>>
    /\ queue' = [queue EXCEPT ![c] = <<>>]
    /\ UNCHANGED <<txOpen, replyOpen, rxs, slots, brokerIndices, driver,
                   broker, receipts, main, nextCandle>>

LEMMA TickHandled ==
    ASSUME TypeOK, ServiceTypes, Routed, NEW i \in 1..Len(rxs), HandleTick(i)
    PROVE  /\ Handles(i, rxs[i]) /\ rxs[i] = TickSlot /\ reply' = reply
           /\ \A d : Owned(d)' = Owned(d)
<1>1. Selected(i, "Tick") /\ slots[i] = TickSlot /\ Take(i)
  BY DEF HandleTick
<1>2. rxs[i] = TickSlot /\ Tail(queue[rxs[i]]) = <<>>
  BY <1>1, AtPosition
<1>3. Handles(i, rxs[i])
  BY <1>1, <1>2 DEF HandleTick, Take, Selected, Handles
<1>4. PICK now : CheckDeadlines(now)
  BY DEF HandleTick
<1>5. \A id \in DOMAIN papers : papers[id] \in Position
  BY DEF TypeOK
<1>6. /\ reals' = reals /\ DOMAIN papers' = DOMAIN papers
      /\ \A id \in DOMAIN papers : papers'[id].owner = papers[id].owner
  BY <1>4, <1>5 DEF CheckDeadlines, Position
<1> QED
  BY <1>2, <1>3, <1>6, SameOwners DEF HandleTick

LEMMA RequestHandled ==
    ASSUME TypeOK, ServiceTypes, Routed, NEW i \in 1..Len(rxs), Handle(i),
           ~HandleTick(i), NEW c, c = rxs[i], NEW e, e = Head(queue[c])
    PROVE  /\ Handles(i, c) /\ c \in Owner /\ replyOpen[c]
           /\ queue[c] = <<e>> /\ e \in Asked
           /\ reply[c] = <<>>
           /\ \E r : /\ reply' = [reply EXCEPT ![c] = <<r>>]
                      /\ Answered(c, e.type, r)
<1>0. Request = {"SubmitPaper", "SubmitReal", "SubmitExit", "BatchGetPaperStates"}
  BY DEF Request
<1>1. ASSUME NEW q \in Request, NEW r, Selected(i, q), Respond(i, r),
             Answered(c, q, r)
      PROVE  /\ Handles(i, c) /\ c \in Owner /\ replyOpen[c]
             /\ queue[c] = <<e>> /\ e \in Asked
             /\ reply[c] = <<>>
             /\ reply' = [reply EXCEPT ![c] = <<r>>]
             /\ Answered(c, e.type, r)
  <2>1. /\ c \in Owner /\ e \in Asked /\ slots[i] = c
        /\ Tail(queue[c]) = <<>> /\ queue[c] = <<e>>
    BY <1>1, AtPosition, FromBroker
  <2>2. e.type = q /\ driver = "selecting" /\ queue[c] # <<>>
    BY <1>1 DEF Selected
  <2>3. reply[c] = <<>>
    BY <1>1, <2>1, PutOne DEF Respond, ServiceTypes, QueueBound
  <2>4. reply' = [reply EXCEPT ![c] = <<r>>]
    BY <1>1, <2>1, <2>3, PutOne DEF Respond
  <2>5. Handles(i, c)
    BY <1>1, <2>1, <2>2 DEF Respond, Take, Handles
  <2>6. replyOpen[c]
    BY <1>1, <2>1 DEF Respond
  <2> QED
    BY <1>1, <2>1, <2>2, <2>3, <2>4, <2>5, <2>6
<1>2. SUFFICES \E q \in Request : \E r :
                  Selected(i, q) /\ Respond(i, r) /\ Answered(c, q, r)
  BY <1>1
<1>3. ASSUME NEW q \in Request, Selected(i, q)
      PROVE  brokerIndices[i] \in Owner /\ brokerIndices[i] = c /\ c \in Owner
  BY <1>3, AtPosition, FromBroker
<1>4. CASE HandleSubmitPaper(i)
  <2>0. PICK r : r = [type |-> "PaperIssued", receipt |-> {<<"paper", nextPaperId>>}]
    OBVIOUS
  <2>1. /\ Selected(i, "SubmitPaper") /\ Respond(i, r)
        /\ IssuePaper(brokerIndices[i], e.from, e.price, EntryCandle, DeadlineCandles)
    BY <1>4, <2>0 DEF HandleSubmitPaper
  <2>2. c \in Owner /\ IssuePaper(c, e.from, e.price, EntryCandle, DeadlineCandles)
    BY <1>0, <1>3, <2>1
  <2>3. Answered(c, "SubmitPaper", r)
    BY <2>0, <2>2, PaperAnswered
  <2> QED
    BY <1>0, <2>1, <2>3
<1>5. CASE HandleSubmitReal(i)
  <2>0. PICK r : r = [type |-> "RealIssued", receipt |-> {<<"real", nextRealId>>}]
    OBVIOUS
  <2>n. PICK none : none = [type |-> "RealIssued", receipt |-> {}]
    OBVIOUS
  <2>1. /\ Selected(i, "SubmitReal")
        /\ \/ /\ IssueReal(brokerIndices[i], e.from, e.price, EntryCandle,
                            DeadlineCandles)
              /\ Respond(i, r)
           \/ DenyReal(brokerIndices[i], e.from) /\ Respond(i, none)
    BY <1>5, <2>0, <2>n DEF HandleSubmitReal
  <2>2. c \in Owner /\ brokerIndices[i] = c
    BY <1>0, <1>3, <2>1
  <2>3. CASE IssueReal(c, e.from, e.price, EntryCandle, DeadlineCandles) /\ Respond(i, r)
    <3>1. Answered(c, "SubmitReal", r)
      BY <2>0, <2>2, <2>3, RealAnswered
    <3> QED
      BY <1>0, <2>1, <2>3, <3>1
  <2>4. CASE DenyReal(c, e.from) /\ Respond(i, none)
    <3>1. UNCHANGED vars /\ Tells("SubmitReal", none)' /\ Handed("SubmitReal", none) = {}
      BY <2>n, <2>4 DEF DenyReal, Tells, Handed
    <3>2. Answered(c, "SubmitReal", none)
      BY <1>0, <2>2, <3>1, NothingHanded
    <3> QED
      BY <1>0, <2>1, <2>4, <3>2
  <2> QED
    BY <2>1, <2>2, <2>3, <2>4
<1>6. CASE HandleSubmitExit(i)
  <2>0. PICK r : r = [type |-> "ExitResolved", id |-> e.id,
                      verdict |-> {papers'[e.id].state}]
    OBVIOUS
  <2>n. PICK none : none = [type |-> "ExitResolved", id |-> e.id, verdict |-> {}]
    OBVIOUS
  <2>1. /\ Selected(i, "SubmitExit")
        /\ \/ ResolveGrace(e.id, e.price) /\ Respond(i, r)
           \/ DenyExit(e.id, e.price) /\ Respond(i, none)
    BY <1>6, <2>0, <2>n DEF HandleSubmitExit
  <2>2. c \in Owner
    BY <1>0, <1>3, <2>1
  <2>3. CASE ResolveGrace(e.id, e.price) /\ Respond(i, r)
    <3>1. Answered(c, "SubmitExit", r)
      BY <2>0, <2>2, <2>3, ExitAnswered
    <3> QED
      BY <1>0, <2>1, <2>3, <3>1
  <2>4. CASE DenyExit(e.id, e.price) /\ Respond(i, none)
    <3>1. UNCHANGED vars /\ Tells("SubmitExit", none)' /\ Handed("SubmitExit", none) = {}
      BY <2>n, <2>4 DEF DenyExit, Tells, Handed
    <3>2. Answered(c, "SubmitExit", none)
      BY <1>0, <2>2, <3>1, NothingHanded
    <3> QED
      BY <1>0, <2>1, <2>4, <3>2
  <2> QED
    BY <2>1, <2>3, <2>4
<1>7. CASE HandleBatchGet(i)
  <2> DEFINE known == e.ids \cap DOMAIN papers
  <2>0. PICK r : r = [type |-> "PaperStates",
                      states |-> [id \in known |-> papers[id].state]]
    OBVIOUS
  <2>1. Selected(i, "BatchGetPaperStates") /\ UNCHANGED vars /\ Respond(i, r)
    BY <1>7, <2>0 DEF HandleBatchGet
  <2>2. c \in Owner
    BY <1>0, <1>3, <2>1
  <2>3. papers' = papers
    BY <2>1 DEF vars
  <2>4. Tells("BatchGetPaperStates", r)' /\ Handed("BatchGetPaperStates", r) = {}
    BY <2>0, <2>3 DEF Tells, Handed
  <2>5. Answered(c, "BatchGetPaperStates", r)
    BY <1>0, <2>1, <2>2, <2>4, NothingHanded
  <2> QED
    BY <1>0, <2>1, <2>5
<1> QED
  BY <1>4, <1>5, <1>6, <1>7 DEF Handle

-----------------------------------------------------------------------------
(* Types, routing and handles *)

Inv1 == ServiceTypes /\ Routed /\ HandlesFollow

LEMMA Init1 == ServiceInit => Inv1
<1> SUFFICES ASSUME ServiceInit PROVE Inv1
  OBVIOUS
<1>1. ServiceTypes
  BY WiringFacts, Channels DEF ServiceInit, ServiceTypes, AtMostOne
<1>2. Routed
  BY WiringFacts DEF ServiceInit, Routed
<1>3. HandlesFollow
  BY Channels DEF ServiceInit, HandlesFollow, Alive
<1> QED
  BY <1>1, <1>2, <1>3 DEF Inv1

\* An event that joins an empty queue keeps the types of the queues.
LEMMA SendTypes ==
    ASSUME ServiceTypes, NEW c \in Channel, Len(queue[c]) < QueueBound,
           NEW e \in EventOf(c), queue' = [queue EXCEPT ![c] = Append(@, e)]
    PROVE  /\ queue[c] = <<>> /\ queue'[c] = <<e>>
           /\ queue' \in [Channel -> AtMostOne(Ticks \cup Asked)]
           /\ \A d \in Channel : queue'[d] \in AtMostOne(EventOf(d))
<1>1. queue[c] = <<>>
  BY OneElement DEF ServiceTypes, QueueBound
<1>2. queue' = [queue EXCEPT ![c] = <<e>>]
  BY <1>1, PutOne
<1>3. <<e>> \in AtMostOne(EventOf(c)) /\ <<e>> \in AtMostOne(Ticks \cup Asked)
  BY DEF AtMostOne, EventOf
<1> QED
  BY <1>1, <1>2, <1>3 DEF ServiceTypes

LEMMA TakeTypes ==
    ASSUME ServiceTypes, NEW c \in Channel, queue' = [queue EXCEPT ![c] = <<>>]
    PROVE  /\ queue' \in [Channel -> AtMostOne(Ticks \cup Asked)]
           /\ \A d \in Channel : queue'[d] \in AtMostOne(EventOf(d))
BY DEF ServiceTypes, AtMostOne

LEMMA AskedTypes ==
    ASSUME NEW event \in Events
    PROVE  event \in Asked /\ event.type \in Request
BY DEF Events, Asked, Request

LEMMA Main1 ==
    ASSUME Inv1, SendTick \/ DropTicks \/ Join \/ Exit \/ Finished
    PROVE  Inv1'
<1>1. CASE SendTick
  <2>1. PICK e : e = [type |-> "Tick", candle |-> nextCandle]
    OBVIOUS
  <2>2. nextCandle \in Candle
    BY <1>1, ServiceAssumption DEF SendTick, Inv1, ServiceTypes, ServiceAssumption
  <2>3. e \in EventOf(TickSlot)
    BY <2>1, <2>2 DEF EventOf, Ticks
  <2>4. /\ queue' = [queue EXCEPT ![TickSlot] = Append(@, e)]
        /\ Len(queue[TickSlot]) < QueueBound /\ txOpen[TickSlot]
    BY <1>1, <2>1 DEF SendTick, Inv1, HandlesFollow
  <2>5. ServiceTypes'
    <3>1. /\ queue' \in [Channel -> AtMostOne(Ticks \cup Asked)]
          /\ \A d \in Channel : queue'[d] \in AtMostOne(EventOf(d))
      BY <2>3, <2>4, SendTypes, Channels DEF Inv1
    <3>2. nextCandle' \in Nat
      BY <1>1 DEF SendTick, Inv1, ServiceTypes
    <3>3. UNCHANGED <<reply, txOpen, replyOpen, rxs, driver, broker, receipts, main>>
      BY <1>1 DEF SendTick
    <3> QED
      BY <3>1, <3>2, <3>3 DEF Inv1, ServiceTypes
  <2>6. Routed'
    BY <1>1, <2>4 DEF SendTick, Inv1, Routed, ServiceTypes
  <2> QED
    BY <1>1, <2>5, <2>6 DEF SendTick, Inv1, HandlesFollow, Alive
<1>2. CASE DropTicks
  BY <1>2, Channels
  DEF DropTicks, Inv1, ServiceTypes, Routed, HandlesFollow, Alive
<1>3. CASE Join
  BY <1>3 DEF Join, Inv1, ServiceTypes, Routed, HandlesFollow, Alive
<1>4. CASE Exit
  BY <1>4 DEF Exit, Inv1, ServiceTypes, Routed, HandlesFollow, Alive
<1>5. CASE Finished
  BY <1>5 DEF Finished, allVars, serviceVars, Inv1, ServiceTypes, Routed,
              HandlesFollow, Alive
<1> QED
  BY <1>1, <1>2, <1>3, <1>4, <1>5

LEMMA Broker1 ==
    ASSUME Inv1, NEW b \in Owner,
           \/ \E event \in Events : BrokerSend(b, event)
           \/ BrokerSendFails(b) \/ BrokerRecv(b) \/ BrokerRecvNone(b)
           \/ BrokerDrop(b) \/ BrokerDies(b)
    PROVE  Inv1'
<1>0. b \in Channel /\ b # TickSlot
  BY Channels
<1>1. ASSUME NEW event \in Events, BrokerSend(b, event)
      PROVE  Inv1'
  <2>1. event \in EventOf(b) /\ event.type \in Request
    BY <1>0, AskedTypes DEF EventOf
  <2>2. queue' = [queue EXCEPT ![b] = Append(@, event)] /\ txOpen[b]
    BY <1>1 DEF BrokerSend, Inv1, HandlesFollow, Alive
  <2>3. ServiceTypes'
    BY <1>0, <1>1, <2>1, SendTypes DEF BrokerSend, Inv1, ServiceTypes
  <2>4. Routed'
    BY <1>1, <2>2 DEF BrokerSend, Inv1, Routed, ServiceTypes
  <2>5. HandlesFollow'
    BY <1>1, <2>1 DEF BrokerSend, Inv1, HandlesFollow, Alive, ServiceTypes
  <2> QED
    BY <2>3, <2>4, <2>5 DEF Inv1
<1>2. ASSUME NEW end \in {"done", "died"}, CloseHandle(b, end)
      PROVE  Inv1'
  <2>1. ServiceTypes'
    BY <1>0, <1>2 DEF CloseHandle, Inv1, ServiceTypes
  <2>2. Routed'
    BY <1>0, <1>2 DEF CloseHandle, Inv1, Routed, ServiceTypes
  <2>3. HandlesFollow'
    <3>1. txOpen'[TickSlot] = txOpen[TickSlot] /\ main' = main
      BY <1>0, <1>2, Channels DEF CloseHandle, Inv1, ServiceTypes
    <3>2. txOpen'[b] = FALSE /\ replyOpen'[b] = FALSE /\ broker'[b] = end
      BY <1>0, <1>2 DEF CloseHandle, Inv1, ServiceTypes
    <3>3. end \notin Request \cup {"idle"}
      BY DEF Request
    <3>4. ASSUME NEW d \in Owner, d # b
          PROVE  /\ txOpen'[d] = txOpen[d] /\ replyOpen'[d] = replyOpen[d]
                 /\ broker'[d] = broker[d]
      BY <1>0, <1>2, <3>4, Channels DEF CloseHandle, Inv1, ServiceTypes
    <3>5. \A d \in Owner : (txOpen'[d] <=> Alive(d)') /\ (replyOpen'[d] <=> Alive(d)')
      <4>1. (txOpen'[b] <=> Alive(b)') /\ (replyOpen'[b] <=> Alive(b)')
        BY <3>2, <3>3 DEF Alive
      <4>2. ASSUME NEW d \in Owner, d # b
            PROVE  (txOpen'[d] <=> Alive(d)') /\ (replyOpen'[d] <=> Alive(d)')
        <5>1. Alive(d)' = Alive(d)
          BY <3>4, <4>2 DEF Alive
        <5> QED
          BY <3>4, <4>2, <5>1 DEF Inv1, HandlesFollow
      <4> QED
        BY <4>1, <4>2
    <3> QED
      BY <3>1, <3>5 DEF Inv1, HandlesFollow
  <2> QED
    BY <2>1, <2>2, <2>3 DEF Inv1
<1>3. CASE BrokerRecv(b)
  <2>1. reply' = [reply EXCEPT ![b] = <<>>]
    BY <1>3, PutOne DEF BrokerRecv, Inv1, ServiceTypes
  <2>2. ServiceTypes'
    BY <1>3, <2>1 DEF BrokerRecv, Inv1, ServiceTypes
  <2>3. Routed'
    BY <1>3 DEF BrokerRecv, Inv1, Routed
  <2>4. \A d \in Owner : Alive(d)' = Alive(d)
    BY <1>3 DEF BrokerRecv, Inv1, Alive, ServiceTypes
  <2>5. HandlesFollow'
    BY <1>3, <2>4 DEF BrokerRecv, Inv1, HandlesFollow
  <2> QED
    BY <2>2, <2>3, <2>5 DEF Inv1
<1>4. CASE BrokerRecvNone(b)
  BY <1>4 DEF BrokerRecvNone, Inv1, Routed, HandlesFollow, Alive, ServiceTypes
<1> QED
  BY <1>1, <1>2, <1>3, <1>4 DEF BrokerSendFails, BrokerDrop, BrokerDies

\* An iteration that takes an event leaves the routing alone.
LEMMA Handles1 ==
    ASSUME Inv1, NEW i, NEW c \in Channel, Handles(i, c),
           \/ reply' = reply
           \/ c \in Owner /\ \E r : reply' = [reply EXCEPT ![c] = <<r>>]
    PROVE  Inv1'
<1>1. queue' = [queue EXCEPT ![c] = <<>>]
  BY DEF Handles
<1>2. /\ reply' = [b \in Owner |-> reply'[b]]
      /\ \A b \in Owner : reply'[b] = <<>> \/ \E r : reply'[b] = <<r>>
  BY DEF Inv1, ServiceTypes
<1>3. ServiceTypes'
  BY <1>1, <1>2, TakeTypes DEF Handles, Inv1, ServiceTypes
<1>4. Routed'
  BY <1>1 DEF Handles, Inv1, Routed, ServiceTypes
<1> QED
  BY <1>3, <1>4 DEF Handles, Inv1, HandlesFollow, Alive

LEMMA Serve1 ==
    ASSUME TypeOK, Inv1, NEW c \in Channel, Serve(c)
    PROVE  Inv1'
<1>0. ServiceTypes /\ Routed
  BY DEF Inv1
<1>1. PICK i \in 1..Len(rxs) :
         /\ rxs[i] = c
         /\ Handle(i) \/ PanicOnReply(i) \/ Prune(i) \/ PeerDied(i)
  BY <1>0 DEF Serve, ServiceTypes
<1>2. CASE HandleTick(i)
  BY <1>0, <1>1, <1>2, TickHandled, Handles1
<1>3. CASE Handle(i) /\ ~HandleTick(i)
  <2>1. PICK e : e = Head(queue[c])
    OBVIOUS
  <2>2. /\ Handles(i, c) /\ c \in Owner
        /\ \E r : reply' = [reply EXCEPT ![c] = <<r>>]
    BY <1>0, <1>1, <1>3, <2>1, RequestHandled
  <2> QED
    BY <2>2, Handles1
<1>4. CASE PanicOnReply(i)
  <2>1. queue' = [queue EXCEPT ![c] = <<>>]
    BY <1>0, <1>1, <1>4, AtPosition DEF PanicOnReply, Take
  <2>2. ServiceTypes'
    BY <1>4, <2>1, TakeTypes DEF PanicOnReply, Inv1, ServiceTypes
  <2>3. Routed'
    BY <1>4, <2>1 DEF PanicOnReply, Inv1, Routed, ServiceTypes
  <2> QED
    BY <1>4, <2>2, <2>3 DEF PanicOnReply, Inv1, HandlesFollow, Alive
<1>5. CASE Prune(i)
  <2>1. /\ rxs' = RemoveAt(rxs, i) /\ slots' = RemoveAt(slots, i)
        /\ brokerIndices' = RemoveAt(brokerIndices, i)
        /\ queue[c] = <<>> /\ ~txOpen[c]
    BY <1>1, <1>5 DEF Prune, Disconnected
  <2>2. /\ rxs' \in Seq(Channel) /\ IsInjective(rxs)'
        /\ \A x \in Range(rxs) : x # c => x \in Range(rxs')
    BY <1>0, <1>1, <2>1, Removal DEF ServiceTypes, Routed, IsInjective
  <2>3. Routed'
    BY <1>0, <1>5, <2>1, <2>2 DEF Prune, Routed
  <2>4. ServiceTypes'
    BY <1>0, <1>5, <2>2 DEF Prune, ServiceTypes
  <2> QED
    BY <1>5, <2>3, <2>4 DEF Prune, Inv1, HandlesFollow, Alive
<1>6. CASE PeerDied(i)
  BY <1>6 DEF PeerDied, Inv1, ServiceTypes, Routed, HandlesFollow, Alive
<1> QED
  BY <1>1, <1>2, <1>3, <1>4, <1>5, <1>6

LEMMA Next1 ==
    ASSUME TypeOK, Inv1, [ServiceNext]_allVars
    PROVE  Inv1'
<1>1. CASE UNCHANGED allVars
  BY <1>1 DEF allVars, serviceVars, Inv1, ServiceTypes, Routed, HandlesFollow, Alive
<1>2. CASE ServiceNext
  BY <1>2, Main1, Broker1, Serve1 DEF ServiceNext
<1> QED
  BY <1>1, <1>2

-----------------------------------------------------------------------------
(* One request, one response *)

\* As long as the driver runs, a living broker's request lies in its queue,
\* or the answer to it does, or neither when it has asked nothing.
OutstandingAt(b) ==
    /\ reply[b] # <<>> => broker[b] \in Request \cup {"died"}
    /\ queue[b] # <<>> /\ driver = "selecting" /\ broker[b] # "died" =>
          broker[b] = Head(queue[b]).type /\ reply[b] = <<>>
    /\ Waiting(b) /\ driver = "selecting" => queue[b] # <<>> \/ reply[b] # <<>>

Outstanding == \A b \in Owner : OutstandingAt(b)

LEMMA OutstandingSame ==
    ASSUME NEW b \in Owner, OutstandingAt(b), queue'[b] = queue[b],
           reply'[b] = reply[b], broker'[b] = broker[b],
           driver' = driver \/ driver' # "selecting"
    PROVE  OutstandingAt(b)'
BY DEF OutstandingAt, Waiting

LEMMA Init2 == ServiceInit => Outstanding
BY Channels DEF ServiceInit, Outstanding, OutstandingAt, Waiting, Request

\* A broker that has asked nothing has nothing under way.
LEMMA IdleHasNothing ==
    ASSUME Inv1, Outstanding, NEW b \in Owner, broker[b] = "idle"
    PROVE  reply[b] = <<>> /\ (driver = "selecting" => queue[b] = <<>>)
<1>1. "idle" \notin Request \cup {"died"}
  BY DEF Request
<1>2. reply[b] = <<>>
  BY <1>1 DEF Outstanding, OutstandingAt
<1>3. ASSUME driver = "selecting", queue[b] # <<>> PROVE FALSE
  <2>1. "idle" = Head(queue[b]).type
    BY <1>1, <1>3 DEF Outstanding, OutstandingAt
  <2>2. b \in Channel /\ b # TickSlot
    BY Channels
  <2>3. Head(queue[b]) \in Asked
    BY <1>3, <2>2, OneElement DEF Inv1, ServiceTypes, EventOf
  <2> QED
    BY <2>1, <2>3 DEF Asked
<1> QED
  BY <1>2, <1>3

LEMMA Main2 ==
    ASSUME Inv1, Outstanding, SendTick \/ DropTicks \/ Join \/ Exit \/ Finished
    PROVE  Outstanding'
<1> SUFFICES ASSUME NEW b \in Owner PROVE OutstandingAt(b)'
  BY DEF Outstanding
<1>1. /\ queue'[b] = queue[b] /\ reply' = reply /\ broker' = broker
      /\ driver' = driver \/ driver' # "selecting"
  BY Channels
  DEF SendTick, DropTicks, Join, Exit, Finished, allVars, serviceVars, Inv1,
      ServiceTypes
<1> QED
  BY <1>1, OutstandingSame DEF Outstanding

LEMMA Broker2 ==
    ASSUME Inv1, Outstanding, NEW b \in Owner,
           \/ \E event \in Events : BrokerSend(b, event)
           \/ BrokerSendFails(b) \/ BrokerRecv(b) \/ BrokerRecvNone(b)
           \/ BrokerDrop(b) \/ BrokerDies(b)
    PROVE  Outstanding'
<1>0. b \in Channel /\ OutstandingAt(b)
  BY Channels DEF Outstanding
<1>1. ASSUME NEW d \in Owner \ {b} PROVE OutstandingAt(d)'
  <2>1. /\ queue'[d] = queue[d] /\ reply'[d] = reply[d]
        /\ broker'[d] = broker[d] /\ driver' = driver
    BY <1>0, Channels
    DEF BrokerSend, BrokerSendFails, BrokerRecv, BrokerRecvNone, BrokerDrop,
        BrokerDies, CloseHandle, Inv1, ServiceTypes
  <2> QED
    BY <2>1, OutstandingSame DEF Outstanding
<1>2. ASSUME NEW event \in Events, BrokerSend(b, event)
      PROVE  OutstandingAt(b)'
  <2>1. event \in EventOf(b) /\ event.type \in Request
    BY AskedTypes, Channels DEF EventOf
  <2>2. queue'[b] = <<event>>
    BY <1>0, <1>2, <2>1, SendTypes DEF BrokerSend, Inv1
  <2>3. reply'[b] = <<>> /\ broker'[b] = event.type
    BY <1>2, IdleHasNothing DEF BrokerSend, Inv1, ServiceTypes
  <2> QED
    BY <2>1, <2>2, <2>3, PutOne DEF OutstandingAt
<1>3. ASSUME NEW end \in {"done", "died"}, CloseHandle(b, end),
             broker[b] = "idle" \/ end = "died"
      PROVE  OutstandingAt(b)'
  <2>1. /\ broker'[b] = end /\ reply' = reply /\ queue' = queue /\ driver' = driver
        /\ end \notin Request
    BY <1>3 DEF CloseHandle, Inv1, ServiceTypes, Request
  <2> QED
    BY <1>3, <2>1, IdleHasNothing DEF OutstandingAt, Waiting
<1>4. ASSUME BrokerRecv(b) PROVE OutstandingAt(b)'
  <2>1. /\ reply'[b] = <<>> /\ broker'[b] = "idle" /\ queue' = queue
        /\ driver' = driver /\ reply[b] # <<>> /\ broker[b] \in Request
    BY <1>4, PutOne DEF BrokerRecv, Inv1, ServiceTypes
  <2>2. "idle" \notin Request /\ broker[b] # "died"
    BY <2>1 DEF Request
  <2>3. driver' = "selecting" => queue'[b] = <<>>
    BY <1>0, <2>1, <2>2 DEF OutstandingAt
  <2> QED
    BY <2>1, <2>2, <2>3 DEF OutstandingAt, Waiting
<1>5. ASSUME BrokerRecvNone(b) PROVE OutstandingAt(b)'
  <2>1. /\ reply'[b] = <<>> /\ driver' # "selecting"
    BY <1>5 DEF BrokerRecvNone
  <2> QED
    BY <2>1 DEF OutstandingAt, Waiting
<1>6. OutstandingAt(b)'
  <2>1. CASE BrokerSendFails(b) \/ BrokerDrop(b) \/ BrokerDies(b)
    BY <1>3, <2>1 DEF BrokerSendFails, BrokerDrop, BrokerDies
  <2> QED
    BY <1>2, <1>4, <1>5, <2>1
<1> QED
  BY <1>1, <1>6 DEF Outstanding

LEMMA Serve2 ==
    ASSUME TypeOK, Inv1, Outstanding, NEW c \in Channel, Serve(c)
    PROVE  Outstanding'
<1>0. ServiceTypes /\ Routed
  BY DEF Inv1
<1>1. PICK i \in 1..Len(rxs) :
         /\ rxs[i] = c
         /\ Handle(i) \/ PanicOnReply(i) \/ Prune(i) \/ PeerDied(i)
  BY <1>0 DEF Serve, ServiceTypes
<1>2. CASE HandleTick(i)
  <2>1. Handles(i, c) /\ c = TickSlot /\ reply' = reply
    BY <1>0, <1>1, <1>2, TickHandled
  <2>2. \A b \in Owner : queue'[b] = queue[b]
    BY <2>1, Channels DEF Handles, Inv1, ServiceTypes
  <2> QED
    BY <2>1, <2>2, OutstandingSame DEF Handles, Outstanding
<1>3. CASE Handle(i) /\ ~HandleTick(i)
  <2>1. PICK e : e = Head(queue[c])
    OBVIOUS
  <2>2. /\ Handles(i, c) /\ c \in Owner /\ replyOpen[c] /\ e \in Asked
        /\ \E r : reply' = [reply EXCEPT ![c] = <<r>>]
    BY <1>0, <1>1, <1>3, <2>1, RequestHandled
  <2>3. broker[c] = e.type /\ e.type \in Request
    <3>1. broker[c] # "died"
      BY <2>2 DEF Inv1, HandlesFollow, Alive, Request
    <3> QED
      BY <2>1, <2>2, <3>1 DEF Handles, Outstanding, OutstandingAt, Asked, Request
  <2>4. OutstandingAt(c)'
    <3>1. queue'[c] = <<>> /\ reply'[c] # <<>> /\ broker' = broker
      BY <2>2, PutOne DEF Handles, Inv1, ServiceTypes
    <3> QED
      BY <2>3, <3>1 DEF OutstandingAt
  <2>5. ASSUME NEW b \in Owner \ {c} PROVE OutstandingAt(b)'
    <3>1. /\ queue'[b] = queue[b] /\ reply'[b] = reply[b] /\ broker' = broker
          /\ driver' = driver
      BY <2>2, Channels DEF Handles, Inv1, ServiceTypes
    <3> QED
      BY <3>1, OutstandingSame DEF Outstanding
  <2> QED
    BY <2>4, <2>5 DEF Outstanding
<1>4. CASE PanicOnReply(i)
  <2>1. reply' = reply /\ broker' = broker /\ driver' # "selecting"
    BY <1>4 DEF PanicOnReply
  <2> QED
    BY <2>1 DEF Outstanding, OutstandingAt
<1>5. CASE Prune(i) \/ PeerDied(i)
  <2>1. /\ queue' = queue /\ reply' = reply /\ broker' = broker
        /\ driver' = driver \/ driver' # "selecting"
    BY <1>5 DEF Prune, PeerDied
  <2> QED
    BY <2>1, OutstandingSame DEF Outstanding
<1> QED
  BY <1>1, <1>2, <1>3, <1>4, <1>5

LEMMA Next2 ==
    ASSUME TypeOK, Inv1, Outstanding, [ServiceNext]_allVars
    PROVE  Outstanding'
<1>1. CASE UNCHANGED allVars
  BY <1>1 DEF allVars, serviceVars, Outstanding, OutstandingAt, Waiting
<1>2. CASE ServiceNext
  BY <1>2, Main2, Broker2, Serve2 DEF ServiceNext
<1> QED
  BY <1>1, <1>2

-----------------------------------------------------------------------------
(* True answers and receipts *)

TrueAt(b) ==
    Waiting(b) /\ reply[b] # <<>> => Tells(broker[b], Head(reply[b]))

ReceiptsAt(b) ==
    IF broker[b] = "died" THEN Held(b) \subseteq Owned(b) ELSE Held(b) = Owned(b)

Told == \A b \in Owner : TrueAt(b) /\ ReceiptsAt(b)

LEMMA RangeOne ==
    /\ Range(<<>>) = {}
    /\ \A r : Range(<<r>>) = {r}
BY DEF Range

\* Resolved papers stay as they are, and what was said of them stays true.
LEMMA TellsPersists ==
    ASSUME TypeOK, [Next]_vars, NEW q, NEW r, Tells(q, r)
    PROVE  Tells(q, r)'
<1>1. PapersPersist
  BY NextPersist
<1> QED
  BY <1>1 DEF Tells, PapersPersist, Active

LEMMA ToldSame ==
    ASSUME TypeOK, [Next]_vars, NEW b \in Owner, TrueAt(b), ReceiptsAt(b),
           reply'[b] = reply[b], broker'[b] = broker[b], receipts'[b] = receipts[b],
           Owned(b)' = Owned(b)
    PROVE  TrueAt(b)' /\ ReceiptsAt(b)'
<1>1. PICK q : q = broker[b]
  OBVIOUS
<1>2. PICK r : r = Head(reply[b])
  OBVIOUS
<1>3. Tells(q, r) => Tells(q, r)'
  BY TellsPersists
<1>4. TrueAt(b)'
  BY <1>1, <1>2, <1>3 DEF TrueAt, Waiting
<1>5. Held(b)' = Held(b)
  BY DEF Held
<1> QED
  BY <1>4, <1>5 DEF ReceiptsAt

\* A broker whose reply queue is empty holds exactly its receipts.
LEMMA ToldQuiet ==
    ASSUME NEW b \in Owner, reply[b] = <<>>
    PROVE  TrueAt(b) /\ Held(b) = receipts[b]
BY RangeOne DEF TrueAt, Held

LEMMA ToldQuietNext ==
    ASSUME NEW b \in Owner, reply'[b] = <<>>
    PROVE  TrueAt(b)' /\ Held(b)' = receipts'[b]
BY RangeOne DEF TrueAt, Held

LEMMA OwnersSame ==
    ASSUME UNCHANGED vars
    PROVE  \A d : Owned(d)' = Owned(d)
BY DEF vars, Owned, PapersOf, RealsOf

LEMMA Init3 == ServiceInit => Told
<1> SUFFICES ASSUME ServiceInit, NEW b \in Owner PROVE TrueAt(b) /\ ReceiptsAt(b)
  BY DEF Told
<1>1. reply[b] = <<>> /\ receipts[b] = {} /\ Owned(b) = {}
  BY DEF ServiceInit, Init, Owned, PapersOf, RealsOf
<1> QED
  BY <1>1, ToldQuiet DEF ReceiptsAt

LEMMA Broker3 ==
    ASSUME TypeOK, Inv1, Outstanding, Told, NEW b \in Owner,
           \/ \E event \in Events : BrokerSend(b, event)
           \/ BrokerSendFails(b) \/ BrokerRecv(b) \/ BrokerRecvNone(b)
           \/ BrokerDrop(b) \/ BrokerDies(b)
    PROVE  Told'
<1>0. UNCHANGED vars /\ [Next]_vars /\ \A d : Owned(d)' = Owned(d)
  <2>1. UNCHANGED vars
    BY DEF BrokerSend, BrokerSendFails, BrokerRecv, BrokerRecvNone, BrokerDrop,
           BrokerDies, CloseHandle
  <2> QED
    BY <2>1, OwnersSame
<1>1. ASSUME NEW d \in Owner \ {b} PROVE TrueAt(d)' /\ ReceiptsAt(d)'
  <2>1. /\ reply'[d] = reply[d] /\ broker'[d] = broker[d]
        /\ receipts'[d] = receipts[d]
    BY DEF BrokerSend, BrokerSendFails, BrokerRecv, BrokerRecvNone, BrokerDrop,
           BrokerDies, CloseHandle, Inv1, ServiceTypes
  <2> QED
    BY <1>0, <2>1, ToldSame DEF Told
<1>2. TrueAt(b) /\ ReceiptsAt(b)
  BY DEF Told
\* A broker that receives nothing and had nothing to receive.
<1>3. ASSUME reply[b] = <<>>, reply'[b] = <<>>, receipts'[b] = receipts[b],
             broker[b] # "died"
      PROVE  TrueAt(b)' /\ ReceiptsAt(b)'
  BY <1>0, <1>2, <1>3, ToldQuiet, ToldQuietNext DEF ReceiptsAt
<1>4. ASSUME NEW event \in Events, BrokerSend(b, event)
      PROVE  TrueAt(b)' /\ ReceiptsAt(b)'
  BY <1>3, <1>4, IdleHasNothing DEF BrokerSend
<1>5. ASSUME NEW end, CloseHandle(b, end), broker[b] = "idle"
      PROVE  TrueAt(b)' /\ ReceiptsAt(b)'
  BY <1>3, <1>5, IdleHasNothing DEF CloseHandle
<1>6. ASSUME BrokerDies(b), broker[b] # "idle"
      PROVE  TrueAt(b)' /\ ReceiptsAt(b)'
  <2>1. /\ broker'[b] = "died" /\ broker[b] \in Request
        /\ reply' = reply /\ receipts' = receipts
    BY <1>6 DEF BrokerDies, CloseHandle, Inv1, ServiceTypes
  <2>2. Held(b)' = receipts[b]
    BY <2>1 DEF Held, Handed
  <2>3. receipts[b] \subseteq Owned(b)
    BY <1>2, <2>1 DEF ReceiptsAt, Held, Request
  <2> QED
    BY <1>0, <2>1, <2>2, <2>3 DEF TrueAt, Waiting, ReceiptsAt, Request
<1>7. ASSUME BrokerRecv(b)
      PROVE  TrueAt(b)' /\ ReceiptsAt(b)'
  <2>1. PICK r : reply[b] = <<r>>
    BY <1>7 DEF BrokerRecv, Inv1, ServiceTypes
  <2>2. /\ reply'[b] = <<>> /\ broker'[b] = "idle" /\ broker[b] \in Request
        /\ receipts'[b] = receipts[b] \cup Handed(broker[b], r)
    BY <1>7, <2>1, PutOne DEF BrokerRecv, Inv1, ServiceTypes
  <2>3. Held(b) = receipts[b] \cup Handed(broker[b], r)
    BY <2>1, RangeOne DEF Held
  <2>4. Held(b) = Owned(b)
    BY <1>2, <2>2 DEF ReceiptsAt, Request
  <2> QED
    BY <1>0, <2>2, <2>3, <2>4, ToldQuietNext DEF ReceiptsAt
<1>8. ASSUME BrokerRecvNone(b)
      PROVE  TrueAt(b)' /\ ReceiptsAt(b)'
  BY <1>3, <1>8 DEF BrokerRecvNone, Request
<1>9. TrueAt(b)' /\ ReceiptsAt(b)'
  BY <1>4, <1>5, <1>6, <1>7, <1>8 DEF BrokerSendFails, BrokerDrop, BrokerDies
<1> QED
  BY <1>1, <1>9 DEF Told

LEMMA Serve3 ==
    ASSUME TypeOK, Inv1, Outstanding, Told, [Next]_vars, NEW c \in Channel, Serve(c)
    PROVE  Told'
<1>0. ServiceTypes /\ Routed
  BY DEF Inv1
<1>1. PICK i \in 1..Len(rxs) :
         /\ rxs[i] = c
         /\ Handle(i) \/ PanicOnReply(i) \/ Prune(i) \/ PeerDied(i)
  BY <1>0 DEF Serve, ServiceTypes
<1>2. CASE HandleTick(i)
  <2>1. Handles(i, c) /\ reply' = reply /\ \A d : Owned(d)' = Owned(d)
    BY <1>0, <1>1, <1>2, TickHandled
  <2> QED
    BY <2>1, ToldSame DEF Handles, Told
<1>3. CASE Handle(i) /\ ~HandleTick(i)
  <2>1. PICK e : e = Head(queue[c])
    OBVIOUS
  <2>2. /\ Handles(i, c) /\ c \in Owner /\ replyOpen[c] /\ e \in Asked
        /\ reply[c] = <<>>
        /\ \E r : reply' = [reply EXCEPT ![c] = <<r>>] /\ Answered(c, e.type, r)
    BY <1>0, <1>1, <1>3, <2>1, RequestHandled
  <2>3. PICK r : reply' = [reply EXCEPT ![c] = <<r>>] /\ Answered(c, e.type, r)
    BY <2>2
  <2>4. broker[c] # "died"
    BY <2>2 DEF Inv1, HandlesFollow, Alive, Request
  <2>5. broker[c] = e.type
    BY <2>1, <2>2, <2>4 DEF Handles, Outstanding, OutstandingAt
  <2>6. reply'[c] = <<r>> /\ broker' = broker /\ receipts' = receipts
    BY <2>2, <2>3 DEF Handles, Inv1, ServiceTypes
  <2>7. /\ Tells(e.type, r)' /\ Owned(c)' = Owned(c) \cup Handed(e.type, r)
        /\ \A d \in Owner \ {c} : Owned(d)' = Owned(d)
    BY <2>3 DEF Answered
  <2>8. TrueAt(c)'
    BY <2>5, <2>6, <2>7, PutOne DEF TrueAt
  <2>9. ReceiptsAt(c)'
    <3>1. receipts[c] = Owned(c)
      BY <2>2, <2>4, ToldQuiet DEF Told, ReceiptsAt
    <3>2. Held(c)' = receipts[c] \cup Handed(e.type, r)
      BY <2>5, <2>6, RangeOne DEF Held
    <3> QED
      BY <2>4, <2>6, <2>7, <3>1, <3>2 DEF ReceiptsAt
  <2>10. ASSUME NEW d \in Owner \ {c} PROVE TrueAt(d)' /\ ReceiptsAt(d)'
    <3>1. reply'[d] = reply[d]
      BY <2>3 DEF Inv1, ServiceTypes
    <3> QED
      BY <2>6, <2>7, <3>1, ToldSame DEF Told
  <2> QED
    BY <2>8, <2>9, <2>10 DEF Told
<1>4. CASE PanicOnReply(i) \/ Prune(i) \/ PeerDied(i)
  <2>1. UNCHANGED vars /\ UNCHANGED <<reply, broker, receipts>>
    BY <1>4 DEF PanicOnReply, Prune, PeerDied
  <2> QED
    BY <2>1, OwnersSame, ToldSame DEF Told
<1> QED
  BY <1>1, <1>2, <1>3, <1>4

LEMMA Next3 ==
    ASSUME TypeOK, Inv1, Outstanding, Told, [ServiceNext]_allVars
    PROVE  Told'
<1>1. [Next]_vars
  BY StepServes DEF Inv1
<1>2. CASE UNCHANGED allVars \/ SendTick \/ DropTicks \/ Join \/ Exit \/ Finished
  <2>1. UNCHANGED vars /\ UNCHANGED <<reply, broker, receipts>>
    BY <1>2 DEF SendTick, DropTicks, Join, Exit, Finished, allVars, serviceVars
  <2> QED
    BY <1>1, <2>1, OwnersSame, ToldSame DEF Told
<1> QED
  BY <1>1, <1>2, Broker3, Serve3 DEF ServiceNext

-----------------------------------------------------------------------------
(* The theorems *)

ServiceInv == TypeOK /\ Inv1 /\ Outstanding /\ Told

LEMMA ServiceInvHolds == ServiceSafety => []ServiceInv
<1>1. ServiceInit => ServiceInv
  BY InitType, Init1, Init2, Init3 DEF ServiceInit, ServiceInv
<1>2. ServiceInv /\ [ServiceNext]_allVars => ServiceInv'
  <2> SUFFICES ASSUME ServiceInv, [ServiceNext]_allVars PROVE ServiceInv'
    OBVIOUS
  <2>1. [Next]_vars
    BY StepServes DEF ServiceInv, Inv1
  <2> QED
    BY <2>1, NextType, Next1, Next2, Next3 DEF ServiceInv
<1> QED
  BY <1>1, <1>2, PTL DEF ServiceSafety

\* The driver with its queues, brokers and main loop implements the bank, in
\* every interleaving, whoever dies: services/treasury.wat adds nothing to
\* what treasury.wat can do.
THEOREM ServedCorrect == ServiceSafety => TreasuryServed
<1>1. ServiceInit => Init
  BY DEF ServiceInit
<1>2. ServiceInv /\ [ServiceNext]_allVars => [Next]_vars
  BY StepServes DEF ServiceInv, Inv1
<1> QED
  BY <1>1, <1>2, ServiceInvHolds, PTL DEF ServiceSafety, TreasuryServed, Spec

\* So what is proved of the bank is true of the running program: its track
\* records count the papers, whatever the brokers do.
THEOREM ServiceCounts == ServiceSafety => []CountersMatchPapers
BY ServedCorrect, CountersCorrect, PTL DEF TreasuryServed

\* And no dollar is created or lost while brokers, driver and clock race.
THEOREM ServiceConserves == ServiceSafety => []CapitalConserved
BY ServedCorrect, CapitalIsConserved, PTL DEF TreasuryServed

\* The three vectors of the driver loop name one client at each position,
\* after any order of disconnects of any number of brokers.
THEOREM RoutingCorrect == ServiceSafety => []RoutingAligned
<1>1. ServiceInv => RoutingAligned
  BY DEF ServiceInv, Inv1, Routed, RoutingAligned
<1> QED
  BY <1>1, ServiceInvHolds, PTL

\* A position has one receipt, and it is with its owner or on the way there.
THEOREM ReceiptsCorrect == ServiceSafety => []ReceiptsMatchPositions
<1>1. ServiceInv => ReceiptsMatchPositions
  BY DEF ServiceInv, Told, ReceiptsAt, Owned, RealsOf, ReceiptsMatchPositions
<1> QED
  BY <1>1, ServiceInvHolds, PTL

\* The answer a helper receives is to its own question, about its own
\* positions, and still so when it is received.
THEOREM RepliesCorrect == ServiceSafety => []ReplyIsTrue
<1>1. ASSUME ServiceInv, NEW b \in Owner, reply[b] # <<>>, Waiting(b),
             NEW r, r = Head(reply[b])
      PROVE  CASE broker[b] = "SubmitPaper" ->
                   /\ r.type = "PaperIssued"
                   /\ \A x \in r.receipt : x[1] = "paper" /\ papers[x[2]].owner = b
               [] broker[b] = "SubmitReal" ->
                   /\ r.type = "RealIssued"
                   /\ \A x \in r.receipt : x[1] = "real" /\ reals[x[2]].owner = b
               [] broker[b] = "SubmitExit" ->
                   /\ r.type = "ExitResolved"
                   /\ \A v \in r.verdict : v = papers[r.id].state
               [] broker[b] = "BatchGetPaperStates" ->
                   /\ r.type = "PaperStates"
                   /\ \A id \in DOMAIN r.states :
                         r.states[id] # Active => r.states[id] = papers[id].state
  <2>1. Tells(broker[b], r)
    BY <1>1 DEF ServiceInv, Told, TrueAt
  <2>2. reply[b] = <<r>>
    BY <1>1, PutOne DEF ServiceInv, Inv1, ServiceTypes
  <2>3. Handed(broker[b], r) \subseteq Owned(b)
    <3>1. Held(b) = receipts[b] \cup Handed(broker[b], r)
      BY <2>2, RangeOne DEF Held
    <3>2. Held(b) \subseteq Owned(b)
      BY <1>1 DEF ServiceInv, Told, ReceiptsAt
    <3> QED
      BY <3>1, <3>2
  <2>4. CASE broker[b] = "SubmitPaper"
    <3>1. r.type = "PaperIssued" /\ \A x \in r.receipt : x[1] = "paper"
      BY <2>1, <2>4 DEF Tells
    <3>2. ASSUME NEW x \in r.receipt PROVE papers[x[2]].owner = b
      <4>1. x \in Owned(b) /\ x[1] = "paper"
        BY <2>3, <2>4, <3>1 DEF Handed
      <4> QED
        BY <4>1 DEF Owned, PapersOf, RealsOf
    <3> QED
      BY <2>4, <3>1, <3>2
  <2>5. CASE broker[b] = "SubmitReal"
    <3>1. r.type = "RealIssued" /\ \A x \in r.receipt : x[1] = "real"
      BY <2>1, <2>5 DEF Tells
    <3>2. ASSUME NEW x \in r.receipt PROVE reals[x[2]].owner = b
      <4>1. x \in Owned(b) /\ x[1] = "real"
        BY <2>3, <2>5, <3>1 DEF Handed
      <4> QED
        BY <4>1 DEF Owned, PapersOf, RealsOf
    <3> QED
      BY <2>5, <3>1, <3>2
  <2>6. CASE broker[b] = "SubmitExit"
    BY <2>1, <2>6 DEF Tells
  <2>7. CASE broker[b] = "BatchGetPaperStates"
    BY <2>1, <2>7 DEF Tells
  <2> QED
    BY <1>1, <2>4, <2>5, <2>6, <2>7 DEF Waiting, Request
<1>2. ServiceInv => ReplyIsTrue
  BY <1>1 DEF ReplyIsTrue
<1> QED
  BY <1>2, ServiceInvHolds, PTL

-----------------------------------------------------------------------------
(* When no broker dies *)

\* Then the driver never panics, sees no dead peer, and leaves its loop only
\* by running out of receivers.
Unharmed ==
    /\ driver # "panicked"
    /\ driver = "selecting" => \A b \in Owner : broker[b] # "died"
    /\ driver = "exited" => rxs = <<>>

LEMMA UnharmedKept ==
    ASSUME MayDie = {}, ServiceInv, Unharmed, [ServiceNext]_allVars
    PROVE  Unharmed'
<1>0. ServiceTypes /\ Routed
  BY DEF ServiceInv, Inv1
<1>1. ASSUME NEW i \in 1..Len(rxs), PanicOnReply(i) PROVE FALSE
  <2>1. PICK q \in Request : Selected(i, q)
    BY <1>1 DEF PanicOnReply
  <2>2. PICK c : c = rxs[i]
    OBVIOUS
  <2>3. PICK e : e = Head(queue[c])
    OBVIOUS
  <2>4. c \in Owner /\ slots[i] = c /\ e.type = q /\ queue[c] # <<>> /\ driver = "selecting"
    BY <1>0, <2>1, <2>2, <2>3, AtPosition, FromBroker DEF Selected
  <2>5. broker[c] = q
    BY <2>3, <2>4 DEF Unharmed, ServiceInv, Outstanding, OutstandingAt
  <2> QED
    BY <1>1, <2>4, <2>5 DEF PanicOnReply, ServiceInv, Inv1, HandlesFollow, Alive
<1>2. ASSUME NEW i, PeerDied(i) PROVE FALSE
  BY <1>2 DEF PeerDied, Disconnected, Unharmed
<1>3. ASSUME NEW c \in Channel, Serve(c) PROVE Unharmed'
  <2>1. PICK i \in 1..Len(rxs) : rxs[i] = c /\ (Handle(i) \/ Prune(i))
    BY <1>0, <1>1, <1>2, <1>3 DEF Serve, ServiceTypes
  <2>2. CASE HandleTick(i)
    BY <2>2 DEF HandleTick, Unharmed
  <2>3. CASE Handle(i) /\ ~HandleTick(i)
    BY <2>3 DEF Handle, HandleSubmitPaper, HandleSubmitReal, HandleSubmitExit,
                HandleBatchGet, Respond, Unharmed
  <2>4. CASE Prune(i)
    BY <2>4 DEF Prune, Disconnected, Unharmed
  <2> QED
    BY <2>1, <2>2, <2>3, <2>4
<1>4. ASSUME NEW b \in Owner,
             \/ \E event \in Events : BrokerSend(b, event)
             \/ BrokerSendFails(b) \/ BrokerRecv(b) \/ BrokerRecvNone(b)
             \/ BrokerDrop(b)
      PROVE  Unharmed'
  <2>1. \A event \in Events : event.type # "died"
    BY AskedTypes DEF Request
  <2> QED
    BY <1>0, <1>4, <2>1
    DEF BrokerSend, BrokerSendFails, BrokerRecv, BrokerRecvNone, BrokerDrop,
        CloseHandle, Unharmed, ServiceTypes
<1>5. ASSUME NEW b \in Owner, BrokerDies(b) PROVE FALSE
  BY <1>5 DEF BrokerDies
<1>6. CASE UNCHANGED allVars \/ SendTick \/ DropTicks \/ Join \/ Exit \/ Finished
  BY <1>6 DEF SendTick, DropTicks, Join, Exit, Finished, allVars, serviceVars, Unharmed
<1> QED
  BY <1>3, <1>4, <1>5, <1>6 DEF ServiceNext

LEMMA UnharmedHolds ==
    ASSUME MayDie = {}
    PROVE  ServiceSafety => [](ServiceInv /\ Unharmed)
<1>1. ServiceInit => Unharmed
  BY DEF ServiceInit, Unharmed
<1>2. ServiceInv /\ Unharmed /\ [ServiceNext]_allVars => Unharmed'
  BY UnharmedKept
<1> QED
  BY <1>1, <1>2, ServiceInvHolds, PTL DEF ServiceSafety

LEMMA ExitedIsOver ==
    ASSUME ServiceInv, Unharmed, driver # "selecting"
    PROVE  \A c \in Channel : ~txOpen[c] /\ queue[c] = <<>>
<1>1. driver = "exited"
  BY DEF ServiceInv, Inv1, ServiceTypes, Unharmed
<1>2. Range(rxs) = {}
  BY <1>1, RangeOne DEF Unharmed
<1> QED
  BY <1>2 DEF ServiceInv, Inv1, Routed

\* While no broker dies, each helper has exactly one message under way and
\* no other broker has any, so the driver's reply never blocks
\* (services/treasury.wat: bounded(1) response queues).
THEOREM OutstandingCorrect ==
    ASSUME MayDie = {}
    PROVE  ServiceSafety => []OneOutstanding
<1>1. ServiceInv /\ Unharmed => OneOutstanding
  <2> SUFFICES ASSUME ServiceInv, Unharmed, NEW b \in Owner
               PROVE  /\ broker[b] = "idle" => Len(queue[b]) + Len(reply[b]) = 0
                      /\ Waiting(b) /\ driver = "selecting" =>
                            Len(queue[b]) + Len(reply[b]) = 1
    BY DEF OneOutstanding
  <2>1. ASSUME broker[b] = "idle" PROVE queue[b] = <<>> /\ reply[b] = <<>>
    <3>1. reply[b] = <<>> /\ (driver = "selecting" => queue[b] = <<>>)
      BY <2>1, IdleHasNothing DEF ServiceInv
    <3>2. driver # "selecting" => queue[b] = <<>>
      BY ExitedIsOver, Channels
    <3> QED
      BY <3>1, <3>2
  <2>2. ASSUME Waiting(b), driver = "selecting"
        PROVE  \/ queue[b] = <<>> /\ \E r : reply[b] = <<r>>
               \/ reply[b] = <<>> /\ \E e : queue[b] = <<e>>
    <3>1. b \in Channel /\ broker[b] # "died"
      BY <2>2, Channels DEF Unharmed
    <3>2. queue[b] = <<>> \/ \E e : queue[b] = <<e>>
      BY <3>1 DEF ServiceInv, Inv1, ServiceTypes, AtMostOne
    <3>3. reply[b] = <<>> \/ \E r : reply[b] = <<r>>
      BY DEF ServiceInv, Inv1, ServiceTypes
    <3> QED
      BY <2>2, <3>1, <3>2, <3>3 DEF ServiceInv, Outstanding, OutstandingAt
  <2>3. ASSUME broker[b] = "idle"
        PROVE  Len(queue[b]) + Len(reply[b]) = 0
    <3>1. queue[b] = <<>> /\ reply[b] = <<>> /\ Len(<<>>) = 0
      BY <2>1, <2>3, PutOne
    <3> QED
      BY <3>1
  <2>4. ASSUME Waiting(b), driver = "selecting"
        PROVE  Len(queue[b]) + Len(reply[b]) = 1
    <3>1. CASE queue[b] = <<>> /\ \E r : reply[b] = <<r>>
      BY <3>1, PutOne
    <3>2. CASE reply[b] = <<>> /\ \E e : queue[b] = <<e>>
      BY <3>2, PutOne
    <3> QED
      BY <2>2, <2>4, <3>1, <3>2
  <2> QED
    BY <2>3, <2>4
<1> QED
  BY <1>1, UnharmedHolds, PTL

\* While no broker dies, the driver leaves only when every sender has gone
\* and every event they sent has been handled.
THEOREM ExitCorrect ==
    ASSUME MayDie = {}
    PROVE  ServiceSafety => []NothingLostAtExit
<1>1. ServiceInv /\ Unharmed => NothingLostAtExit
  BY ExitedIsOver DEF NothingLostAtExit
<1> QED
  BY <1>1, UnharmedHolds, PTL

-----------------------------------------------------------------------------
(* The candle stream *)

\* What is buffered and not yet handed out continues what was handed out.
BufferContinues ==
    /\ Len(emitted) + (Len(buffer) - pos) = First(nextBatch)
    /\ \A k \in 1..Len(buffer) :
          k > pos => buffer[k] = Len(emitted) + (k - pos)

StreamInv ==
    /\ StreamTypeOK
    /\ RowsInOrder
    /\ BufferContinues
    /\ Len(emitted) + remaining = limit
    /\ badBatch # 0 => nextBatch <= badBatch

-----------------------------------------------------------------------------
(* Least elements *)

Below == {pair \in Nat \X Nat : pair[1] < pair[2]}

LEMMA BelowWellFounded == IsWellFoundedOn(Below, Nat)
BY NatLessThanWellFounded DEF OpToRel, Below

\* A set of naturals that is not empty has a least member, and Min is it.
LEMMA LeastOfSet ==
    ASSUME NEW T, T \subseteq Nat, T # {}
    PROVE  Min(T) \in T /\ \A y \in T : Min(T) <= y
<1>1. ASSUME NEW x \in Nat, NEW y \in Nat, y < x
      PROVE  <<y, x>> \in Below
  <2>1. <<y, x>> \in Nat \X Nat
    OBVIOUS
  <2> QED
    BY <1>1, <2>1 DEF Below
<1>2. \E x \in T : \A y \in T : <<y, x>> \notin Below
  BY BelowWellFounded, WFMin
<1>3. \E x \in T : \A y \in T : x <= y
  <2>1. PICK x \in T : \A y \in T : <<y, x>> \notin Below
    BY <1>2
  <2>2. ASSUME NEW y \in T
        PROVE  x <= y
    <3>1. x \in Nat /\ y \in Nat
      OBVIOUS
    <3>2. ~(y < x)
      BY <1>1, <2>1, <3>1
    <3> QED
      BY <3>1, <3>2
  <2> QED
    BY <2>2
<1> QED
  BY <1>3 DEF Min

-----------------------------------------------------------------------------
(* The file *)

\* Batch ends are naturals and never fall.
LEMMA FileShape ==
    ASSUME ends \in File
    PROVE  /\ ends \in Seq(Nat) /\ Len(ends) \in Nat
           /\ \A i \in 1..Len(ends) : ends[i] \in Nat
           /\ \A i, j \in 1..Len(ends) : i <= j => ends[i] <= ends[j]
<1>1. IsFile(ends)
  BY StreamAssumption
<1> QED
  BY <1>1 DEF IsFile

\* Where a batch starts never falls, and no batch starts after the last row.
LEMMA FirstGrows ==
    ASSUME ends \in File
    PROVE  /\ \A i \in 1..(Len(ends) + 1) : First(i) \in Nat
           /\ \A i, j \in 1..(Len(ends) + 1) : i <= j => First(i) <= First(j)
           /\ First(Len(ends) + 1) = Rows(ends)
           /\ Rows(ends) \in Nat
<1>1. \A i \in 1..(Len(ends) + 1) : First(i) \in Nat
  BY FileShape DEF First
<1>2. ASSUME NEW i \in 1..(Len(ends) + 1), NEW j \in 1..(Len(ends) + 1), i <= j
      PROVE  First(i) <= First(j)
  <2>1. CASE i = 1
    BY <1>1, <2>1 DEF First
  <2>2. CASE i # 1
    <3>1. i - 1 \in 1..Len(ends) /\ j - 1 \in 1..Len(ends) /\ i - 1 <= j - 1
      BY <1>2, <2>2, FileShape
    <3>2. First(i) = ends[i - 1] /\ First(j) = ends[j - 1]
      BY <1>2, <2>2, FileShape DEF First
    <3> QED
      BY <3>1, <3>2, FileShape
  <2> QED
    BY <2>1, <2>2
<1>3. First(Len(ends) + 1) = Rows(ends)
  <2>1. CASE ends = <<>>
    BY <2>1 DEF First, Rows
  <2>2. CASE ends # <<>>
    <3>1. Len(ends) \in Nat /\ Len(ends) # 0
      BY <2>2, FileShape
    <3> QED
      BY <2>2, <3>1 DEF First, Rows
  <2> QED
    BY <2>1, <2>2
<1>4. Rows(ends) \in Nat
  <2>1. Len(ends) + 1 \in 1..(Len(ends) + 1)
    BY FileShape
  <2> QED
    BY <1>1, <1>3, <2>1
<1> QED
  BY <1>1, <1>2, <1>3, <1>4

\* A run of empty batches leads from row to the same row.
LEMMA EmptyBatches ==
    ASSUME ends \in File,
           NEW from \in 1..(Len(ends) + 1), NEW to \in 1..(Len(ends) + 1),
           from <= to,
           \A i \in 1..Len(ends) : from <= i /\ i < to => Empty(i)
    PROVE  First(to) = First(from)
<1> DEFINE Off == {j \in 1..(Len(ends) + 1) :
                     from <= j /\ j <= to /\ First(j) # First(from)}
<1>1. ASSUME Off # {}
      PROVE  FALSE
  <2>1. Off \subseteq Nat
    BY FileShape
  <2>2. Min(Off) \in Off /\ \A y \in Off : Min(Off) <= y
    <3> HIDE DEF Off
    <3> QED
      BY <1>1, <2>1, LeastOfSet
  <2>3. PICK j \in 1..(Len(ends) + 1) :
           /\ from <= j /\ j <= to /\ First(j) # First(from)
           /\ \A y \in Off : j <= y
    BY <2>2
  <2>4. j # from /\ j - 1 \in 1..Len(ends) /\ from <= j - 1 /\ j - 1 < to
    BY <2>3, FileShape
  <2>5. j - 1 \in 1..(Len(ends) + 1) /\ j - 1 <= to /\ ~ (j <= j - 1)
    BY <2>3, <2>4, FileShape
  <2>6. First(j - 1) = First(from)
    BY <2>3, <2>4, <2>5
  <2>7. ends[j - 1] = First(j - 1)
    BY <2>4 DEF Empty
  <2>8. First(j) = ends[j - 1]
    BY <2>4, FileShape DEF First
  <2> QED
    BY <2>3, <2>6, <2>7, <2>8
<1>2. to \in 1..(Len(ends) + 1) /\ from <= to /\ to <= to
  BY FileShape
<1> QED
  BY <1>1, <1>2

\* fill_buffer finds the next batch with rows, which starts where the batches
\* already read end, or the end of the file.
LEMMA NextAhead ==
    ASSUME ends \in File, nextBatch \in 1..(Len(ends) + 1)
    PROVE  /\ Ahead # {} =>
                /\ Min(Ahead) \in 1..Len(ends) /\ nextBatch <= Min(Ahead)
                /\ ~ Empty(Min(Ahead))
                /\ First(Min(Ahead)) = First(nextBatch)
                /\ \A i \in Ahead : Min(Ahead) <= i
           /\ Ahead = {} => Rows(ends) = First(nextBatch)
<1>1. Ahead = {i \in 1..Len(ends) : nextBatch <= i /\ ~ Empty(i)}
  BY FileShape DEF Ahead
<1>2. ASSUME Ahead # {}
      PROVE  /\ Min(Ahead) \in 1..Len(ends) /\ nextBatch <= Min(Ahead)
             /\ ~ Empty(Min(Ahead))
             /\ First(Min(Ahead)) = First(nextBatch)
             /\ \A i \in Ahead : Min(Ahead) <= i
  <2>1. Ahead \subseteq Nat
    BY <1>1
  <2>2. Min(Ahead) \in Ahead /\ \A i \in Ahead : Min(Ahead) <= i
    BY <1>2, <2>1, LeastOfSet
  <2>3. Min(Ahead) \in 1..Len(ends) /\ nextBatch <= Min(Ahead) /\ ~ Empty(Min(Ahead))
    BY <1>1, <2>2
  <2>4. ASSUME NEW i \in 1..Len(ends), nextBatch <= i, i < Min(Ahead)
        PROVE  Empty(i)
    BY <1>1, <2>2, <2>3, <2>4
  <2>5. Min(Ahead) \in 1..(Len(ends) + 1)
    BY <2>3, FileShape
  <2>6. First(Min(Ahead)) = First(nextBatch)
    BY <2>3, <2>4, <2>5, EmptyBatches
  <2> QED
    BY <2>2, <2>3, <2>6
<1>3. ASSUME Ahead = {}
      PROVE  Rows(ends) = First(nextBatch)
  <2>1. Len(ends) + 1 \in 1..(Len(ends) + 1) /\ nextBatch <= Len(ends) + 1
    BY FileShape
  <2>2. First(Len(ends) + 1) = First(nextBatch)
    BY <1>1, <1>3, <2>1, EmptyBatches
  <2> QED
    BY <2>2, FirstGrows
<1> QED
  BY <1>2, <1>3

\* No batch up to the unreadable one starts beyond the readable rows.
LEMMA WithinReadable ==
    ASSUME ends \in File, badBatch \in 0..Len(ends),
           NEW n \in 1..(Len(ends) + 1), badBatch # 0 => n <= badBatch
    PROVE  /\ First(n) \in Nat /\ Readable \in Nat /\ Rows(ends) \in Nat
           /\ First(n) <= Readable /\ Readable <= Rows(ends)
           /\ badBatch = 0 => Readable = Rows(ends)
<1>1. Len(ends) + 1 \in 1..(Len(ends) + 1) /\ n <= Len(ends) + 1
  BY FileShape
<1>2. CASE badBatch = 0
  BY <1>1, <1>2, FirstGrows DEF Readable
<1>3. CASE badBatch # 0
  <2>1. badBatch \in 1..(Len(ends) + 1) /\ badBatch <= Len(ends) + 1
    BY <1>3, FileShape
  <2> QED
    BY <1>1, <1>3, <2>1, FirstGrows DEF Readable
<1> QED
  BY <1>2, <1>3

-----------------------------------------------------------------------------
(* Each answer of next keeps the invariant *)

LEMMA InitKeeps == ASSUME StreamInit PROVE StreamInv
<1>1. ends \in File /\ badBatch \in 0..Len(ends) /\ Len(ends) \in Nat
  BY FileShape DEF StreamInit
<1>2. limit \in Nat
  BY StreamAssumption DEF StreamInit, Capped
<1>3. /\ nextBatch = 1 /\ buffer = <<>> /\ pos = 0 /\ remaining = limit
      /\ emitted = <<>> /\ ended = FALSE /\ broken = FALSE
  BY DEF StreamInit
<1>4. Len(<<>>) = 0 /\ <<>> \in Seq(Nat)
  OBVIOUS
<1>5. 1 \in 1..(Len(ends) + 1)
  BY <1>1
<1>6. StreamTypeOK
  <2>1. remaining \in 0..limit /\ pos \in 0..Len(buffer)
    BY <1>2, <1>3, <1>4
  <2> QED
    BY <1>1, <1>2, <1>3, <1>4, <1>5, <2>1 DEF StreamTypeOK
<1>7. First(1) = 0
  BY DEF First
<1>8. badBatch # 0 => 1 <= badBatch
  BY <1>1
<1>9. Readable \in Nat
  BY <1>1, <1>5, <1>8, WithinReadable
<1>10. Readable >= 0 /\ limit >= 0
  BY <1>2, <1>9
<1>11. RowsInOrder
  BY <1>3, <1>4, <1>10 DEF RowsInOrder
<1>12. BufferContinues
  BY <1>3, <1>4, <1>7 DEF BufferContinues
<1> QED
  BY <1>2, <1>3, <1>4, <1>6, <1>8, <1>11, <1>12 DEF StreamInv

\* What the invariant says, in the form the steps use it.
LEMMA InvFacts ==
    ASSUME StreamInv
    PROVE  /\ ends \in File /\ badBatch \in 0..Len(ends) /\ Len(ends) \in Nat
           /\ nextBatch \in 1..(Len(ends) + 1) /\ limit \in Nat
           /\ remaining \in Nat /\ Len(emitted) + remaining = limit
           /\ emitted \in Seq(Nat) /\ Len(emitted) \in Nat
           /\ buffer \in Seq(Nat) /\ Len(buffer) \in Nat
           /\ pos \in Nat /\ pos <= Len(buffer)
           /\ ended \in BOOLEAN /\ broken \in BOOLEAN
           /\ badBatch # 0 => nextBatch <= badBatch
           /\ First(nextBatch) \in Nat /\ Readable \in Nat /\ Rows(ends) \in Nat
           /\ First(nextBatch) <= Readable /\ Readable <= Rows(ends)
           /\ badBatch = 0 => Readable = Rows(ends)
<1>1. StreamTypeOK
  BY DEF StreamInv
<1>2. ends \in File /\ badBatch \in 0..Len(ends) /\ nextBatch \in 1..(Len(ends) + 1)
      /\ limit \in Nat /\ remaining \in 0..limit /\ emitted \in Seq(Nat)
      /\ buffer \in Seq(Nat) /\ pos \in 0..Len(buffer)
      /\ ended \in BOOLEAN /\ broken \in BOOLEAN
  BY <1>1 DEF StreamTypeOK
<1>3. Len(ends) \in Nat /\ Len(emitted) \in Nat /\ Len(buffer) \in Nat
  BY <1>2, FileShape
<1>4. badBatch # 0 => nextBatch <= badBatch
  BY DEF StreamInv
<1>5. remaining \in Nat /\ pos \in Nat /\ pos <= Len(buffer)
  BY <1>2, <1>3
<1>6. Len(emitted) + remaining = limit
  BY DEF StreamInv
<1> QED
  BY <1>2, <1>3, <1>4, <1>5, <1>6, WithinReadable

\* The types hold again, given what a step leaves.
LEMMA TypesAgain ==
    ASSUME StreamInv, UNCHANGED fileVars,
           nextBatch' \in 1..(Len(ends) + 1),
           remaining' \in Nat, remaining' <= remaining,
           buffer' \in Seq(Nat), pos' \in Nat, pos' <= Len(buffer'),
           emitted' \in Seq(Nat), ended' \in BOOLEAN, broken' \in BOOLEAN
    PROVE  StreamTypeOK'
<1>1. ends' = ends /\ badBatch' = badBatch /\ limit' = limit
  BY DEF fileVars
<1>2. remaining' \in 0..limit
  BY InvFacts
<1>3. pos' \in 0..Len(buffer')
  <2>1. Len(buffer') \in Nat
    OBVIOUS
  <2> QED
    BY <2>1
<1> QED
  BY <1>1, <1>2, <1>3, InvFacts DEF StreamTypeOK

\* One more row, the next of the file, from the buffer as it then is.
LEMMA RowKeeps ==
    ASSUME StreamInv, UNCHANGED <<fileVars, ended, broken>>,
           nextBatch' \in 1..(Len(ends) + 1),
           badBatch # 0 => nextBatch' <= badBatch,
           remaining > 0, remaining' = remaining - 1,
           buffer' \in Seq(Nat), pos' \in Nat, pos' <= Len(buffer'),
           emitted' = Append(emitted, Len(emitted) + 1),
           Len(emitted) + 1 + (Len(buffer') - pos') = First(nextBatch'),
           \A k \in 1..Len(buffer') :
              k > pos' => buffer'[k] = Len(emitted) + 1 + (k - pos')
    PROVE  StreamInv'
<1> DEFINE new == First(nextBatch')
<1>1. ends' = ends /\ badBatch' = badBatch /\ limit' = limit
      /\ ended' = ended /\ broken' = broken
  BY DEF fileVars
<1>2. emitted' \in Seq(Nat) /\ Len(emitted') = Len(emitted) + 1
      /\ \A i \in 1..Len(emitted) : emitted'[i] = emitted[i]
      /\ emitted'[Len(emitted) + 1] = Len(emitted) + 1
  <2>1. emitted \in Seq(Nat)
    BY InvFacts
  <2>2. Len(emitted) + 1 \in Nat
    BY <2>1
  <2> QED
    BY <2>1, <2>2
<1>3. Len(emitted) \in Nat /\ remaining \in Nat /\ limit \in Nat
      /\ Len(emitted) + remaining = limit /\ Rows(ends) \in Nat
  BY InvFacts
<1>4. StreamTypeOK'
  <2>1. remaining' \in Nat /\ remaining' <= remaining
    BY <1>3
  <2> QED
    BY <1>1, <1>2, <2>1, TypesAgain, InvFacts DEF fileVars
<1>5. First(nextBatch)' = First(nextBatch') /\ Readable' = Readable
  BY <1>1 DEF First, Readable, Rows
<1>6. BufferContinues'
  BY <1>2, <1>5 DEF BufferContinues
<1>7. /\ new \in Nat /\ Readable \in Nat
      /\ new <= Readable /\ Readable <= Rows(ends)
      /\ badBatch = 0 => Readable = Rows(ends)
  BY InvFacts, WithinReadable
<1>8. Len(emitted) + 1 <= new /\ Len(emitted) + 1 <= limit
  <2>1. Len(buffer') \in Nat
    OBVIOUS
  <2> QED
    BY <1>3, <1>7, <2>1
<1>9. ~ ended /\ ~ broken
  BY <1>3, <1>7, <1>8 DEF StreamInv, RowsInOrder
<1>10. ASSUME NEW i \in 1..Len(emitted')
       PROVE  emitted'[i] = i
  <2>1. CASE i = Len(emitted) + 1
    BY <1>2, <2>1
  <2>2. CASE i # Len(emitted) + 1
    <3>1. Len(emitted') = Len(emitted) + 1 /\ Len(emitted) \in Nat
      BY <1>2, <1>3
    <3>2. i \in 1..Len(emitted)
      BY <2>2, <3>1
    <3> QED
      BY <1>2, <3>2 DEF StreamInv, RowsInOrder
  <2> QED
    BY <2>1, <2>2
<1>11. Len(emitted') <= limit /\ Len(emitted') <= Readable
  <2> HIDE DEF new
  <2> QED
    BY <1>2, <1>3, <1>7, <1>8
<1>12. RowsInOrder'
  <2>1. ~ ended' /\ ~ broken'
    BY <1>1, <1>9
  <2>2. Len(emitted') <= limit' /\ Len(emitted') <= Readable'
    BY <1>1, <1>5, <1>11
  <2>3. \A i \in 1..Len(emitted') : emitted'[i] = i
    BY <1>10
  <2> QED
    BY <2>1, <2>2, <2>3, Zenon DEF RowsInOrder
<1>13. Len(emitted') + remaining' = limit'
  <2>1. Len(emitted) \in Nat /\ remaining \in Nat /\ limit \in Nat
    BY <1>3
  <2>2. Len(emitted) + remaining = limit
    BY <1>3
  <2>3. (Len(emitted) + 1) + (remaining - 1) = Len(emitted) + remaining
    BY <2>1
  <2>4. Len(emitted') = Len(emitted) + 1 /\ remaining' = remaining - 1
    BY <1>2
  <2>5. Len(emitted') + remaining' = (Len(emitted) + 1) + (remaining - 1)
    BY <2>4, Zenon
  <2> QED
    BY <1>1, <2>2, <2>3, <2>5, Zenon
<1> QED
  BY <1>1, <1>4, <1>6, <1>12, <1>13 DEF StreamInv

LEMMA BufferedKeeps == ASSUME StreamInv, NextBuffered PROVE StreamInv'
<1>1. UNCHANGED <<fileVars, nextBatch, buffer, ended, broken>>
      /\ remaining > 0 /\ pos < Len(buffer)
      /\ pos' = pos + 1 /\ remaining' = remaining - 1
      /\ emitted' = Append(emitted, buffer[pos + 1])
  BY InvFacts DEF NextBuffered, Exhausted
<1>2. Len(emitted) + (Len(buffer) - pos) = First(nextBatch)
  BY DEF StreamInv, BufferContinues
<1>3. ASSUME NEW k \in 1..Len(buffer), k > pos
      PROVE  buffer[k] = Len(emitted) + (k - pos)
  BY <1>3 DEF StreamInv, BufferContinues
<1>4. buffer[pos + 1] = Len(emitted) + 1
  <2>1. pos \in Nat /\ Len(buffer) \in Nat /\ pos < Len(buffer)
        /\ Len(emitted) \in Nat
    BY <1>1, InvFacts
  <2>2. pos + 1 \in 1..Len(buffer) /\ pos + 1 > pos
        /\ Len(emitted) + ((pos + 1) - pos) = Len(emitted) + 1
    BY <2>1
  <2> QED
    BY <1>3, <2>2
<1>5. nextBatch' = nextBatch /\ buffer' = buffer
  BY <1>1
<1>6. pos' \in Nat /\ pos' <= Len(buffer')
      /\ Len(emitted) + 1 + (Len(buffer') - pos') = First(nextBatch')
  <2>1. pos \in Nat /\ Len(buffer) \in Nat /\ pos < Len(buffer)
        /\ Len(emitted) \in Nat /\ pos' = pos + 1
    BY <1>1, InvFacts
  <2>2. Len(emitted) + 1 + (Len(buffer) - (pos + 1)) = Len(emitted) + (Len(buffer) - pos)
    BY <2>1
  <2> QED
    BY <1>2, <1>5, <2>1, <2>2
<1>7. ASSUME NEW k \in 1..Len(buffer'), k > pos'
      PROVE  buffer'[k] = Len(emitted) + 1 + (k - pos')
  <2>0. pos \in Nat /\ Len(emitted) \in Nat /\ pos' = pos + 1
    BY <1>1, InvFacts
  <2>1. k \in 1..Len(buffer) /\ k > pos /\ k \in Int
    BY <1>5, <1>7, <2>0
  <2>2. Len(emitted) + (k - pos) = Len(emitted) + 1 + (k - pos')
    BY <2>0, <2>1
  <2> QED
    BY <1>3, <1>5, <2>1, <2>2
<1>8. emitted' = Append(emitted, Len(emitted) + 1)
  BY <1>1, <1>4
<1> QED
  BY <1>1, <1>5, <1>6, <1>7, <1>8, InvFacts, RowKeeps

LEMMA RefilledKeeps == ASSUME StreamInv, NextRefilled PROVE StreamInv'
<1> DEFINE m == Min(Ahead)
<1>1. remaining > 0 /\ pos >= Len(buffer) /\ Ahead # {} /\ m # badBatch
      /\ UNCHANGED <<fileVars, ended, broken>>
      /\ nextBatch' = m + 1 /\ buffer' = BatchRows(m)
      /\ pos' = 1 /\ remaining' = remaining - 1
      /\ emitted' = Append(emitted, First(m) + 1)
  BY DEF NextRefilled, Exhausted
<1>2. m \in 1..Len(ends) /\ nextBatch <= m /\ ~ Empty(m)
      /\ First(m) = First(nextBatch) /\ \A i \in Ahead : m <= i
  BY <1>1, InvFacts, NextAhead
<1> HIDE DEF m
<1>3. Len(emitted) = First(m)
  <2>1. Len(emitted) + (Len(buffer) - pos) = First(nextBatch)
    BY DEF StreamInv, BufferContinues
  <2> QED
    BY <1>1, <1>2, <2>1, InvFacts
<1>4. m \in 1..(Len(ends) + 1) /\ m + 1 \in 1..(Len(ends) + 1) /\ m <= m + 1
  BY <1>2, InvFacts
<1>5. First(m) \in Nat /\ ends[m] \in Nat /\ First(m + 1) = ends[m]
      /\ First(m) < ends[m]
  <2>1. First(m) \in Nat /\ First(m + 1) \in Nat /\ First(m) <= First(m + 1)
    BY <1>4, FirstGrows, InvFacts
  <2>2. First(m + 1) = ends[m]
    <3>1. m + 1 # 1 /\ (m + 1) - 1 = m
      BY <1>2, InvFacts
    <3> QED
      BY <3>1 DEF First
  <2>3. ends[m] # First(m)
    BY <1>1, <1>2 DEF Empty
  <2> QED
    BY <2>1, <2>2, <2>3
<1>6. buffer' \in Seq(Nat) /\ Len(buffer') = ends[m] - First(m)
      /\ \A k \in 1..Len(buffer') : buffer'[k] = First(m) + k
  <2>1. ends[m] - First(m) \in Nat
    BY <1>5
  <2>2. buffer' = [k \in 1..(ends[m] - First(m)) |-> First(m) + k]
    BY <1>1 DEF BatchRows
  <2>3. \A k \in 1..(ends[m] - First(m)) : First(m) + k \in Nat
    BY <1>5
  <2> DEFINE size == ends[m] - First(m)
             base == First(m)
  <2> HIDE DEF size, base
  <2>4. buffer' = [k \in 1..size |-> base + k] /\ size \in Nat
        /\ \A k \in 1..size : base + k \in Nat
    BY <2>1, <2>2, <2>3 DEF size, base
  <2>5. buffer' \in Seq(Nat) /\ Len(buffer') = size
        /\ \A k \in 1..Len(buffer') : buffer'[k] = base + k
    BY <2>4
  <2> QED
    BY <2>5 DEF size, base
<1>7. pos' \in Nat /\ pos' <= Len(buffer')
      /\ Len(emitted) + 1 + (Len(buffer') - pos') = First(nextBatch')
  BY <1>1, <1>3, <1>5, <1>6
<1>8. ASSUME NEW k \in 1..Len(buffer'), k > pos'
      PROVE  buffer'[k] = Len(emitted) + 1 + (k - pos')
  <2>1. k \in Int /\ pos' = 1 /\ buffer'[k] = First(m) + k
    BY <1>1, <1>6
  <2> QED
    BY <1>3, <1>5, <2>1
<1>9. badBatch # 0 => nextBatch' <= badBatch
  <2>1. ASSUME badBatch # 0
        PROVE  m < badBatch
    <3>1. nextBatch <= badBatch /\ badBatch \in 1..Len(ends)
      BY <2>1, InvFacts
    <3>2. badBatch \in Ahead
      BY <3>1, InvFacts DEF Ahead, Empty
    <3> QED
      BY <1>1, <1>2, <3>1, <3>2, InvFacts
  <2> QED
    BY <1>1, <1>2, <2>1, InvFacts
<1> QED
  BY <1>1, <1>3, <1>4, <1>6, <1>7, <1>8, <1>9, RowKeeps

\* No row: only the batches skipped and the two flags may change.
LEMMA NoRowKeeps ==
    ASSUME StreamInv, UNCHANGED <<fileVars, buffer, pos, remaining, emitted>>,
           nextBatch' \in 1..(Len(ends) + 1),
           badBatch # 0 => nextBatch' <= badBatch,
           First(nextBatch') = First(nextBatch),
           ended' \in BOOLEAN, broken' \in BOOLEAN,
           ended' => Len(emitted) = limit
                       \/ (badBatch = 0 /\ Len(emitted) = Rows(ends)),
           broken' => badBatch # 0 /\ Len(emitted) = Readable
    PROVE  StreamInv'
<1>1. ends' = ends /\ badBatch' = badBatch /\ limit' = limit /\ buffer' = buffer
      /\ pos' = pos /\ remaining' = remaining /\ emitted' = emitted
  BY DEF fileVars
<1>2. StreamTypeOK'
  BY <1>1, TypesAgain, InvFacts DEF fileVars
<1>3. First(nextBatch)' = First(nextBatch) /\ Readable' = Readable
      /\ Rows(ends)' = Rows(ends)
  BY <1>1 DEF First, Readable, Rows
<1>4. BufferContinues'
  BY <1>1, <1>3 DEF StreamInv, BufferContinues
<1>5. RowsInOrder'
  BY <1>1, <1>3 DEF StreamInv, RowsInOrder
<1> QED
  BY <1>1, <1>2, <1>4, <1>5 DEF StreamInv

LEMMA NoneKeeps == ASSUME StreamInv, NextNone PROVE StreamInv'
<1>1. Ahead = {} /\ pos >= Len(buffer) /\ nextBatch' = Len(ends) + 1 /\ ended' = TRUE
      /\ UNCHANGED <<fileVars, buffer, pos, remaining, emitted, broken>>
  BY DEF NextNone, Exhausted
<1>2. Rows(ends) = First(nextBatch) /\ First(Len(ends) + 1) = Rows(ends)
  BY <1>1, InvFacts, NextAhead, FirstGrows
<1>3. badBatch = 0
  <2>1. ASSUME badBatch # 0
        PROVE  badBatch \in Ahead
    <3>1. nextBatch <= badBatch /\ badBatch \in 1..Len(ends)
      BY <2>1, InvFacts
    <3> QED
      BY <3>1, InvFacts DEF Ahead, Empty
  <2> QED
    BY <1>1, <2>1
<1>4. Len(emitted) = Rows(ends)
  <2>1. Len(emitted) + (Len(buffer) - pos) = First(nextBatch)
    BY DEF StreamInv, BufferContinues
  <2> QED
    BY <1>1, <1>2, <2>1, InvFacts
<1>5. nextBatch' \in 1..(Len(ends) + 1)
  BY <1>1, InvFacts
<1>6. broken' = broken /\ (broken => badBatch # 0)
  BY <1>1 DEF StreamInv, RowsInOrder
<1> QED
  BY <1>1, <1>2, <1>3, <1>4, <1>5, <1>6, InvFacts, NoRowKeeps

LEMMA OverBudgetKeeps == ASSUME StreamInv, NextOverBudget PROVE StreamInv'
<1>1. remaining <= 0 /\ ended' = TRUE
      /\ UNCHANGED <<fileVars, nextBatch, buffer, pos, remaining, emitted, broken>>
  BY DEF NextOverBudget
<1>2. Len(emitted) = limit
  BY <1>1, InvFacts
<1>3. broken' = broken /\ (broken => badBatch # 0 /\ Len(emitted) = Readable)
  BY <1>1 DEF StreamInv, RowsInOrder
<1>4. nextBatch' = nextBatch
  BY <1>1
<1> QED
  BY <1>1, <1>2, <1>3, <1>4, InvFacts, NoRowKeeps

LEMMA PanicsKeeps == ASSUME StreamInv, NextPanics PROVE StreamInv'
<1>1. pos >= Len(buffer) /\ Ahead # {} /\ Min(Ahead) = badBatch /\ broken' = TRUE
      /\ UNCHANGED <<fileVars, nextBatch, buffer, pos, remaining, emitted, ended>>
  BY DEF NextPanics, Exhausted
<1>2. badBatch \in 1..Len(ends) /\ First(badBatch) = First(nextBatch)
  BY <1>1, InvFacts, NextAhead
<1>3. badBatch # 0 /\ Len(emitted) = Readable
  <2>1. Len(emitted) + (Len(buffer) - pos) = First(nextBatch)
    BY DEF StreamInv, BufferContinues
  <2>2. badBatch # 0
    BY <1>2, InvFacts
  <2> QED
    BY <1>1, <1>2, <2>1, <2>2, InvFacts DEF Readable
<1>4. ended' = ended /\ nextBatch' = nextBatch
      /\ (ended => Len(emitted) = limit
                      \/ (badBatch = 0 /\ Len(emitted) = Rows(ends)))
  BY <1>1 DEF StreamInv, RowsInOrder
<1> QED
  BY <1>1, <1>3, <1>4, InvFacts, NoRowKeeps

LEMMA StutterKeeps == ASSUME StreamInv, UNCHANGED streamVars PROVE StreamInv'
BY DEF streamVars, fileVars, StreamInv, StreamTypeOK, RowsInOrder, BufferContinues,
       First, Readable, Rows

\* Every answer of next, whoever asks, keeps the invariant.
LEMMA AnswerKeeps ==
    ASSUME StreamInv, NextRow \/ NextEnd \/ NextPanics
    PROVE  StreamInv'
BY BufferedKeeps, RefilledKeeps, NoneKeeps, OverBudgetKeeps, PanicsKeeps
   DEF NextRow, NextEnd

-----------------------------------------------------------------------------

\* The rows of every file come out in order, none lost or repeated where the
\* batches are cut, up to the budget; None and the panic come where they must.
THEOREM StreamCorrect == StreamSpec => []RowsInOrder
<1>1. StreamInit => StreamInv
  BY InitKeeps
<1>2. StreamInv /\ [StreamNext]_streamVars => StreamInv'
  BY AnswerKeeps, StutterKeeps DEF StreamNext
<1>3. StreamInv => RowsInOrder
  BY DEF StreamInv
<1> QED
  BY <1>1, <1>2, <1>3, PTL DEF StreamSpec

-----------------------------------------------------------------------------
(* The program *)

Begun == [tag |-> "Started", n |-> limit]
Over == [tag |-> "Stopped", n |-> walked]
Summary == [table |-> "log", n |-> walked]
Metric == [table |-> "metric", n |-> walked]
Stored == IF walked = 0 THEN <<Summary>> ELSE <<Summary, Metric>>

\* Where main is before, in and after the two batches and the two lines.
Early == {"spawn", "pop", "started"}
Fallen == {"panicked", "dead"}
Late == {"return", "joinSqlite", "joinConsole", "done"}
Counted == {"log", "logAck", "close", "closeAck", "stopped"} \cup Late

\* The lines sent are in the file, but for the last, which may be queued.
ConsoleInv ==
    \/ pc \in Early /\ conQueue = <<>> /\ outFile = <<>>
    \/ /\ pc \notin Early \cup Late
       /\ \/ conQueue = <<Begun>> /\ outFile = <<>>
          \/ conQueue = <<>> /\ outFile = <<Begun>>
    \/ /\ pc \in Late
       /\ \/ conQueue = <<Over>> /\ outFile = <<Begun>>
          \/ conQueue = <<>> /\ outFile = <<Begun, Over>>

\* A batch is queued until it is stored, and main goes on only then.
SqliteInv ==
    \/ /\ pc \in Early \cup Fallen \cup {"walk", "log"}
       /\ sqlQueue = <<>> /\ acks = 0 /\ database = <<>>
    \/ /\ pc = "logAck"
       /\ \/ sqlQueue = <<Summary>> /\ acks = 0 /\ database = <<>>
          \/ sqlQueue = <<>> /\ acks = 1 /\ database = <<Summary>>
    \/ pc = "close" /\ sqlQueue = <<>> /\ acks = 0 /\ database = <<Summary>>
    \/ /\ pc = "closeAck" /\ walked # 0
       /\ \/ sqlQueue = <<Metric>> /\ acks = 0 /\ database = <<Summary>>
          \/ sqlQueue = <<>> /\ acks = 1 /\ database = <<Summary, Metric>>
    \/ /\ pc \in {"stopped"} \cup Late
       /\ sqlQueue = <<>> /\ acks = 0 /\ database = Stored

PulseInv ==
    /\ StreamInv
    /\ walked = Len(emitted) /\ counter = walked
    /\ broken <=> pc \in Fallen
    /\ pc \in Counted => ended
    /\ ConsoleInv
    /\ SqliteInv

USE DEF Early, Fallen, Late, Counted

\* Sequences of at most two, joined.
LEMMA Joined ==
    ASSUME NEW a, NEW b
    PROVE  /\ <<>> \o <<a>> = <<a>> /\ <<a>> \o <<>> = <<a>>
           /\ <<a>> \o <<b>> = <<a, b>>
<1>1. <<>> \in Seq({a, b}) /\ <<a>> \in Seq({a, b}) /\ <<b>> \in Seq({a, b})
      /\ <<a, b>> \in Seq({a, b})
  OBVIOUS
<1>2. <<>> \o <<a>> = <<a>> /\ <<a>> \o <<>> = <<a>>
  BY <1>1, ConcatEmptySeq
<1>3. <<a>> \o <<b>> = <<a, b>>
  <2>1. /\ <<a>> \o <<b>> \in Seq({a, b}) /\ Len(<<a>> \o <<b>>) = 2
        /\ (<<a>> \o <<b>>)[1] = a /\ (<<a>> \o <<b>>)[2] = b
    BY <1>1, ConcatProperties
  <2>2. Len(<<a, b>>) = 2 /\ <<a, b>>[1] = a /\ <<a, b>>[2] = b
    OBVIOUS
  <2>3. \A i \in 1..2 : i = 1 \/ i = 2
    OBVIOUS
  <2> QED
    BY <1>1, <2>1, <2>2, <2>3, SeqEqual
<1> QED
  BY <1>2, <1>3

LEMMA PulseInvInit == ASSUME PulseInit PROVE PulseInv
<1>1. StreamInv
  BY InitKeeps DEF PulseInit
<1>2. emitted = <<>> /\ Len(<<>>) = 0 /\ broken = FALSE
  BY DEF PulseInit, StreamInit
<1> QED
  BY <1>1, <1>2 DEF PulseInit, PulseInv, ConsoleInv, SqliteInv

\* A step that leaves the stream, the counters and main's place to others.
LEMMA DriverKeeps ==
    ASSUME PulseInv, UNCHANGED <<streamVars, pc, walked, counter>>,
           \/ UNCHANGED sqlite /\ UNCHANGED <<conQueue, outFile>>
           \/ UNCHANGED sqlite /\ ConsoleWrite
           \/ UNCHANGED <<sqlQueue, acks, database, conQueue, outFile>>
           \/ UNCHANGED <<conQueue, outFile>> /\ SqliteFlush
    PROVE  PulseInv'
<1>1. StreamInv'
  BY StutterKeeps DEF PulseInv
<1>2. emitted' = emitted /\ ended' = ended /\ broken' = broken /\ limit' = limit
      /\ pc' = pc /\ walked' = walked /\ counter' = counter
  BY DEF streamVars, fileVars
<1>3. Begun' = Begun /\ Over' = Over /\ Summary' = Summary /\ Metric' = Metric
      /\ Stored' = Stored
  BY <1>2 DEF Begun, Over, Summary, Metric, Stored
<1>4. ConsoleInv'
  <2>1. CASE UNCHANGED <<conQueue, outFile>>
    BY <1>2, <1>3, <2>1 DEF PulseInv, ConsoleInv
  <2>2. CASE ConsoleWrite
    <3>1. outFile' = outFile \o conQueue /\ conQueue' = <<>> /\ conQueue # <<>>
      BY <2>2 DEF ConsoleWrite
    <3>2. <<>> \o <<Begun>> = <<Begun>> /\ <<Begun>> \o <<Over>> = <<Begun, Over>>
      BY Joined
    <3> QED
      BY <1>2, <1>3, <3>1, <3>2 DEF PulseInv, ConsoleInv
  <2> QED
    BY <2>1, <2>2 DEF sqlite
<1>5. SqliteInv'
  <2>1. CASE UNCHANGED <<sqlQueue, acks, database>>
    BY <1>2, <1>3, <2>1 DEF PulseInv, SqliteInv
  <2>2. CASE SqliteFlush
    <3>1. database' = database \o sqlQueue /\ sqlQueue' = <<>> /\ sqlQueue # <<>>
          /\ acks' = acks + 1
      BY <2>2 DEF SqliteFlush
    <3>2. /\ <<>> \o <<Summary>> = <<Summary>>
          /\ <<Summary>> \o <<Metric>> = <<Summary, Metric>>
      BY Joined
    <3>3. CASE pc = "logAck" /\ sqlQueue = <<Summary>> /\ acks = 0 /\ database = <<>>
      BY <1>2, <1>3, <3>1, <3>2, <3>3 DEF SqliteInv
    <3>4. CASE /\ pc = "closeAck" /\ walked # 0
               /\ sqlQueue = <<Metric>> /\ acks = 0 /\ database = <<Summary>>
      <4>1. pc' = "closeAck" /\ walked' # 0 /\ sqlQueue' = <<>> /\ acks' = 1
        BY <1>2, <3>1, <3>4
      <4>2. database' = <<Summary, Metric>>'
        BY <1>3, <3>1, <3>2, <3>4
      <4> QED
        BY <4>1, <4>2 DEF SqliteInv
    <3> QED
      BY <3>1, <3>3, <3>4 DEF PulseInv, SqliteInv
  <2> QED
    BY <2>1, <2>2 DEF sqlite
<1> QED
  BY <1>1, <1>2, <1>4, <1>5 DEF PulseInv

\* One row counted, or the end of the walk.
LEMMA WalkKeeps == ASSUME PulseInv, Walk PROVE PulseInv'
<1>1. pc = "walk" /\ UNCHANGED <<console, sqlite>>
  BY DEF Walk
<1>2. StreamInv'
  BY AnswerKeeps DEF Walk, PulseInv
<1>3. ~ broken /\ sqlQueue = <<>> /\ acks = 0 /\ database = <<>>
      /\ ((conQueue = <<Begun>> /\ outFile = <<>>) \/ (conQueue = <<>> /\ outFile = <<Begun>>))
  <2>1. ~ broken
    <3>1. broken \in BOOLEAN
      BY InvFacts DEF PulseInv
    <3> QED
      BY <1>1, <3>1 DEF PulseInv
  <2>2. sqlQueue = <<>> /\ acks = 0 /\ database = <<>>
    BY <1>1 DEF PulseInv, SqliteInv
  <2>3. (conQueue = <<Begun>> /\ outFile = <<>>) \/ (conQueue = <<>> /\ outFile = <<Begun>>)
    BY <1>1 DEF PulseInv, ConsoleInv
  <2> QED
    BY <2>1, <2>2, <2>3, Zenon
<1>4. UNCHANGED fileVars /\ Begun' = Begun
  BY DEF Walk, NextRow, NextEnd, NextBuffered, NextRefilled, NextNone, NextOverBudget,
         NextPanics, fileVars, Begun
<1>5. pc' \in {"walk", "log", "panicked"} => ConsoleInv' /\ SqliteInv'
  BY <1>1, <1>3, <1>4 DEF ConsoleInv, SqliteInv, console, sqlite
<1>6. CASE NextRow /\ walked' = walked + 1 /\ counter' = counter + 1 /\ pc' = pc
  <2>1. broken' = broken /\ \E x : emitted' = Append(emitted, x)
    BY <1>6 DEF NextRow, NextBuffered, NextRefilled
  <2>2. emitted \in Seq(Nat)
    BY InvFacts DEF PulseInv
  <2>3. Len(emitted') = Len(emitted) + 1
    BY <2>1, <2>2
  <2> QED
    BY <1>1, <1>2, <1>3, <1>5, <1>6, <2>1, <2>3 DEF PulseInv
<1>7. CASE NextEnd /\ UNCHANGED <<walked, counter>> /\ pc' = "log"
  <2>1. ended' = TRUE /\ broken' = broken /\ emitted' = emitted
    BY <1>7 DEF NextEnd, NextNone, NextOverBudget
  <2> QED
    BY <1>1, <1>2, <1>3, <1>5, <1>7, <2>1 DEF PulseInv
<1>8. CASE NextPanics /\ UNCHANGED <<walked, counter>> /\ pc' = "panicked"
  <2>1. broken' = TRUE /\ emitted' = emitted
    BY <1>8 DEF NextPanics
  <2> QED
    BY <1>1, <1>2, <1>3, <1>5, <1>8, <2>1 DEF PulseInv
<1> QED
  BY <1>6, <1>7, <1>8 DEF Walk

\* Every other step of main.
LEMMA MainKeeps ==
    ASSUME PulseInv,
           Spawn \/ PopHandles \/ LogStarted \/ LogSummary \/ CloseScope \/ AwaitAck
             \/ LogStopped \/ DropHandles \/ JoinSqlite \/ JoinConsole
    PROVE  PulseInv'
<1>1. UNCHANGED <<streamVars, walked, counter>>
  BY DEF Spawn, PopHandles, LogStarted, LogSummary, CloseScope, AwaitAck, LogStopped,
         DropHandles, JoinSqlite, JoinConsole
<1>2. emitted' = emitted /\ ended' = ended /\ broken' = broken /\ limit' = limit
      /\ walked' = walked /\ counter' = counter
  BY <1>1 DEF streamVars, fileVars
<1>3. Begun' = Begun /\ Over' = Over /\ Summary' = Summary /\ Metric' = Metric
      /\ Stored' = Stored
  BY <1>2 DEF Begun, Over, Summary, Metric, Stored
<1>4. StreamInv'
  BY <1>1, StutterKeeps DEF PulseInv
<1>5. ASSUME pc' \in Fallen <=> pc \in Fallen,
             pc' \in Counted => pc \in Counted, ConsoleInv', SqliteInv'
      PROVE  PulseInv'
  BY <1>2, <1>4, <1>5 DEF PulseInv
<1>6. CASE Spawn
  <2>1. pc = "spawn" /\ pc' = "pop" /\ UNCHANGED <<conQueue, outFile, sqlQueue, acks, database>>
    BY <1>6 DEF Spawn
  <2>2. ConsoleInv' /\ SqliteInv'
    BY <2>1 DEF PulseInv, ConsoleInv, SqliteInv
  <2> QED
    BY <1>5, <2>1, <2>2
<1>7. CASE PopHandles
  <2>1. pc = "pop" /\ pc' = "started" /\ UNCHANGED <<conQueue, outFile, sqlQueue, acks, database>>
    BY <1>7 DEF PopHandles, console, sqlite
  <2>2. ConsoleInv' /\ SqliteInv'
    BY <2>1 DEF PulseInv, ConsoleInv, SqliteInv
  <2> QED
    BY <1>5, <2>1, <2>2
<1>8. CASE LogStarted
  <2>1. pc = "started" /\ pc' = "walk" /\ UNCHANGED <<outFile, sqlQueue, acks, database>>
        /\ conQueue' = <<Begun>>
    BY <1>8 DEF LogStarted, sqlite, Begun
  <2>2. ConsoleInv' /\ SqliteInv'
    BY <1>3, <2>1 DEF PulseInv, ConsoleInv, SqliteInv
  <2> QED
    BY <1>5, <2>1, <2>2
<1>9. CASE LogSummary
  <2>1. pc = "log" /\ pc' = "logAck" /\ UNCHANGED <<conQueue, outFile, acks, database>>
        /\ sqlQueue' = <<Summary>>
    BY <1>9 DEF LogSummary, console, Summary
  <2>2. ConsoleInv' /\ SqliteInv'
    BY <1>3, <2>1 DEF PulseInv, ConsoleInv, SqliteInv
  <2> QED
    BY <1>5, <2>1, <2>2
<1>10. CASE CloseScope
  <2>1. pc = "close" /\ UNCHANGED <<conQueue, outFile, acks, database>>
        /\ counter = walked /\ sqlQueue = <<>> /\ acks = 0 /\ database = <<Summary>>
    BY <1>10 DEF CloseScope, console, PulseInv, SqliteInv
  <2>2. CASE walked = 0
    <3>1. pc' = "stopped" /\ sqlQueue' = sqlQueue
      BY <1>10, <2>1, <2>2 DEF CloseScope
    <3>2. Stored = <<Summary>>
      BY <2>2 DEF Stored
    <3>3. ConsoleInv' /\ SqliteInv'
      BY <1>3, <2>1, <3>1, <3>2 DEF PulseInv, ConsoleInv, SqliteInv
    <3> QED
      BY <1>5, <2>1, <3>1, <3>3
  <2>3. CASE walked # 0
    <3>1. pc' = "closeAck" /\ sqlQueue' = <<Metric>>
      BY <1>10, <2>1, <2>3 DEF CloseScope, Metric
    <3>2. ConsoleInv' /\ SqliteInv'
      BY <1>2, <1>3, <2>1, <2>3, <3>1 DEF PulseInv, ConsoleInv, SqliteInv
    <3> QED
      BY <1>5, <2>1, <3>1, <3>2
  <2> QED
    BY <2>2, <2>3
<1>11. CASE AwaitAck
  <2>1. acks > 0 /\ acks' = acks - 1
        /\ UNCHANGED <<conQueue, outFile, sqlQueue, database>>
    BY <1>11 DEF AwaitAck, console
  <2>2. CASE pc = "logAck" /\ pc' = "close"
    <3>1. sqlQueue = <<>> /\ acks = 1 /\ database = <<Summary>>
      BY <2>1, <2>2 DEF PulseInv, SqliteInv
    <3>2. ConsoleInv' /\ SqliteInv'
      BY <1>3, <2>1, <2>2, <3>1 DEF PulseInv, ConsoleInv, SqliteInv
    <3> QED
      BY <1>5, <2>2, <3>2
  <2>3. CASE pc = "closeAck" /\ pc' = "stopped"
    <3>1. sqlQueue = <<>> /\ acks = 1 /\ database = <<Summary, Metric>> /\ walked # 0
      BY <2>1, <2>3 DEF PulseInv, SqliteInv
    <3>2. Stored = <<Summary, Metric>>
      BY <3>1 DEF Stored
    <3>3. ConsoleInv'
      BY <1>3, <2>1, <2>3 DEF PulseInv, ConsoleInv
    <3>4. acks' = 0
      BY <2>1, <3>1
    <3>5. SqliteInv'
      BY <1>3, <2>1, <2>3, <3>1, <3>2, <3>4 DEF SqliteInv
    <3> QED
      BY <1>5, <2>3, <3>3, <3>5
  <2> QED
    BY <1>11, <2>2, <2>3 DEF AwaitAck
<1>12. CASE LogStopped
  <2>1. pc = "stopped" /\ pc' = "return" /\ conQueue = <<>> /\ conQueue' = <<Over>>
        /\ UNCHANGED <<outFile, sqlQueue, acks, database>>
    BY <1>12 DEF LogStopped, sqlite, Over
  <2>2. ConsoleInv' /\ SqliteInv'
    BY <1>3, <2>1 DEF PulseInv, ConsoleInv, SqliteInv
  <2> QED
    BY <1>5, <2>1, <2>2
<1>13. CASE DropHandles \/ JoinSqlite \/ JoinConsole
  <2>1. UNCHANGED <<conQueue, outFile, sqlQueue, acks, database>>
    BY <1>13 DEF DropHandles, JoinSqlite, JoinConsole, console, sqlite
  <2>2. \/ pc \in Late /\ pc' \in Late
        \/ pc = "panicked" /\ pc' = "dead"
    BY <1>13 DEF DropHandles, JoinSqlite, JoinConsole
  <2>3. ConsoleInv' /\ SqliteInv'
    BY <1>3, <2>1, <2>2 DEF PulseInv, ConsoleInv, SqliteInv
  <2> QED
    BY <1>5, <2>2, <2>3
<1> QED
  BY <1>6, <1>7, <1>8, <1>9, <1>10, <1>11, <1>12, <1>13

LEMMA PulseInvKept == ASSUME PulseInv, [PulseNext]_pulseVars PROVE PulseInv'
<1>1. CASE Main
  BY <1>1, WalkKeeps, MainKeeps DEF Main
<1>2. CASE Console
  <2>1. CASE ConsoleWrite
    BY <2>1, DriverKeeps DEF ConsoleWrite
  <2>2. CASE ConsoleExit
    BY <2>2, DriverKeeps DEF ConsoleExit
  <2> QED
    BY <1>2, <2>1, <2>2 DEF Console
<1>3. CASE Sqlite
  <2>1. CASE SqliteFlush
    BY <2>1, DriverKeeps DEF SqliteFlush, console
  <2>2. CASE SqliteExit
    BY <2>2, DriverKeeps DEF SqliteExit, console
  <2> QED
    BY <1>3, <2>1, <2>2 DEF Sqlite
<1>4. CASE UNCHANGED pulseVars
  BY <1>4, DriverKeeps DEF pulseVars, console, sqlite
<1> QED
  BY <1>1, <1>2, <1>3, <1>4 DEF PulseNext

LEMMA PulseInvRecords == ASSUME PulseInv PROVE RunRecorded
<1>1. ASSUME NEW i \in DOMAIN outFile, outFile[i].tag = "Stopped"
      PROVE  LET n == outFile[i].n
             IN  /\ outFile = <<[tag |-> "Started", n |-> limit],
                                [tag |-> "Stopped", n |-> n]>>
                 /\ database = <<[table |-> "log", n |-> n]>> \o
                       (IF n = 0 THEN <<>> ELSE <<[table |-> "metric", n |-> n]>>)
                 /\ n = Min({limit, Rows(ends)})
  <2>1. pc \in Late /\ outFile = <<Begun, Over>> /\ i = 2
    BY <1>1 DEF PulseInv, ConsoleInv, Begun
  <2>2. outFile[i].n = walked
    BY <2>1 DEF Over
  <2>3. database = <<Summary>> \o (IF walked = 0 THEN <<>> ELSE <<Metric>>)
    <3>1. database = Stored
      BY <2>1 DEF PulseInv, SqliteInv
    <3> QED
      BY <3>1, Joined DEF Stored
  <2>4. walked = Min({limit, Rows(ends)})
    <3>1. /\ walked \in Nat /\ limit \in Nat /\ Rows(ends) \in Nat /\ Readable \in Nat
          /\ Readable <= Rows(ends)
      BY InvFacts DEF PulseInv
    <3>2. /\ walked <= limit /\ walked <= Rows(ends)
          /\ walked = limit \/ walked = Rows(ends)
      BY <2>1, <3>1 DEF PulseInv, StreamInv, RowsInOrder
    <3>3. Min({limit, Rows(ends)}) \in {limit, Rows(ends)}
          /\ \A y \in {limit, Rows(ends)} : Min({limit, Rows(ends)}) <= y
      BY <3>1, LeastOfSet
    <3> QED
      BY <3>1, <3>2, <3>3
  <2> QED
    BY <2>1, <2>2, <2>3, <2>4 DEF Begun, Over, Summary, Metric
<1>2. broken => database = <<>>
  BY DEF PulseInv, SqliteInv
<1> QED
  BY <1>1, <1>2 DEF RunRecorded

-----------------------------------------------------------------------------

\* Whoever reads "Stopped n" in a run's .out file finds its summary and its
\* metric in the database, about the n rows the budget and the file allow.
THEOREM RecordedCorrect == PulseSpec => []RunRecorded
<1>1. PulseInit => PulseInv
  BY PulseInvInit
<1>2. PulseInv /\ [PulseNext]_pulseVars => PulseInv'
  BY PulseInvKept
<1>3. PulseInv => RunRecorded
  BY PulseInvRecords
<1> QED
  BY <1>1, <1>2, <1>3, PTL DEF PulseSpec

=============================================================================
